------------------------------- MODULE MCGates -------------------------------
(* Gates that ask questions inside sub-pipelines.                             *)
EXTENDS Engine, TLC

Agent(max) == [kind |-> "agent", max |-> max, halts |-> FALSE]
\* `asks`: the lists of questions the gate may be opened with.
Gate(asks) == [kind |-> "gate", excludesAuthor |-> FALSE, asks |-> asks]
Sequence(ids) == [kind |-> "sequence", children |-> ids]
Fanout(ids) == [kind |-> "fanout", dynamic |-> FALSE, children |-> ids]
JoinOf(of, next) == [kind |-> "join", of |-> of, next |-> next, policy |-> AllPolicy]

\* A gate at the end of a flat leg beside one in the fan-out of a sub-pipeline,
\* as in the fixtures subpipeline-gate and gate-deep.
DeepGates ==
  <<>> :> [kind |-> "root", children |-> <<"outer", "join-outer">>]
  @@ <<"outer">> :> Fanout(<<"A", "B">>)
  @@ <<"outer", "A">> :> Sequence(<<"draft", "clarify">>)
  @@ <<"outer", "A", "draft">> :> Agent(1)
  @@ <<"outer", "A", "clarify">> :> Gate({{"q1"}})
  @@ <<"outer", "B">> :> Sequence(<<"triage", "inner", "join-inner", "report">>)
  @@ <<"outer", "B", "triage">> :> Agent(1)
  @@ <<"outer", "B", "inner">> :> Fanout(<<"C">>)
  @@ <<"outer", "B", "inner", "C">> :> Sequence(<<"probe", "ask", "wrap">>)
  @@ <<"outer", "B", "inner", "C", "probe">> :> Agent(1)
  @@ <<"outer", "B", "inner", "C", "ask">> :> Gate({{}, {"q1", "q2"}})
  @@ <<"outer", "B", "inner", "C", "wrap">> :> Agent(1)
  @@ <<"outer", "B", "join-inner">> :> JoinOf("inner", "report")
  @@ <<"outer", "B", "report">> :> Agent(1)
  @@ <<"join-outer">> :> JoinOf("outer", "done")

\* protocols/recover-mental-model-interactive, with one of its flat legs.
Interactive ==
  <<>> :> [kind |-> "root", children |-> <<"recover", "join", "combine">>]
  @@ <<"recover">> :> Fanout(<<"legion", "socratic">>)
  @@ <<"recover", "legion">> :> Agent(1)
  @@ <<"recover", "socratic">> :> Sequence(<<"phase1", "answering", "phase2">>)
  @@ <<"recover", "socratic", "phase1">> :> Agent(1)
  @@ <<"recover", "socratic", "answering">> :> Gate({{"q1", "q2"}})
  @@ <<"recover", "socratic", "phase2">> :> Agent(2)
  @@ <<"join">> :> JoinOf("recover", "combine")
  @@ <<"combine">> :> [kind |-> "merge", from |-> None]

\* The trees the configurations name: TLC evaluates a definition that is named
\* there each time it is used, and what that one stands for once.
DeepGatesTree == DeepGates
InteractiveTree == Interactive

\* Answers to one question or both; to a branch that is named.
Says(branch, answered) == [byAuthor |-> FALSE, branch |-> branch, answered |-> answered]
OneOrBoth == {Says(None, {"q1"}), Says(None, {"q2"}), Says(None, {"q1", "q2"})}
ToBranches == {Says(None, {"q1"}), Says("B", {"q2"})}

Died == [start |-> 1, reply |-> 2, redelivery |-> 0, death |-> 1]
AnsweredTwice == [start |-> 1, reply |-> 2, redelivery |-> 0, death |-> 0]
=============================================================================

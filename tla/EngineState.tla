----------------------------- MODULE EngineState -----------------------------
(***************************************************************************)
(* The files of one instance on the state branch, and what an execution of *)
(* an engine script leaves behind: the edited clone, whether it pushes it, *)
(* the aggregate check-run it sets before, the dispatch it sends after.    *)
(*                                                                         *)
(* A file is named by the tree path of its node.  The real name drops the  *)
(* leading id in single-phase protocols (lib.state_path), one to one.      *)
(* Evidence, staged items, texts and per-leg check-runs are left out.      *)
(***************************************************************************)
EXTENDS ProtocolTree, JoinPolicy

InstanceFile == <<"instance", <<>>>>
NodeFile(p) == <<"node", p>>
JoinFile(p) == <<"join", p>>
ManifestFile(p) == <<"manifest", p>>
AnswersFile(p) == <<"answers", p>>

\* enter_node opens every gate it comes to in the file of a gate of the root.
RootGateFile(p) == NodeFile(<<LastId(p)>>)

Files ==
  {InstanceFile}
  \union {NodeFile(p) : p \in {q \in DOMAIN Tree :
                               NodeKind(q) \in {"agent", "sequence", "gate"}}}
  \union {JoinFile(p) : p \in NestedFanouts}
  \union {ManifestFile(p) : p \in {q \in DOMAIN Tree : IsDynamic(q)}}
  \union {RootGateFile(p) : p \in LegGates}
  \union {AnswersFile(p) : p \in LegGates}

Missing == [missing |-> TRUE]

NoTag == <<"none">>

\* An agent unit's file; `history` is its length and the run that appended last.
FreshUnit(p) == [state |-> LifeState(p), iteration |-> 1, history |-> 0, last |-> NoTag]
Cursor(state, sub) == [state |-> state, sub_state |-> sub]
\* Mutant: a gate is opened without its state.
OpenGateUnset(p, questions) ==
  [state |-> LastId(p), gate |-> None, questions |-> questions, history |-> <<>>]
\* A gate's file; `history` lists the decisions, or the questions each comment answered.
OpenGate(p, questions) ==
  [state |-> LastId(p), gate |-> "open", questions |-> questions, history |-> <<>>]
Answers(questions, answered) == [questions |-> questions, answered |-> answered]
Marker(joined, failed) == [joined |-> joined, failed |-> failed]
Manifest(legs) == [legs |-> legs]
NewInstance(phase) ==
  [phase |-> phase, joined |-> FALSE, label |-> phase, halted |-> None,
   overrides |-> {}, comment |-> 0]

Read(S, f) == IF f \in DOMAIN S THEN S[f] ELSE Missing
Write(S, f, value) == [S EXCEPT ![f] = value]

StateOf(S, p) ==
  IF Read(S, NodeFile(p)) = Missing THEN None ELSE S[NodeFile(p)].state

\* resolve_leg_ids: the persisted manifest's ids, or the static branches.
LegIds(S, p) ==
  IF ~IsDynamic(p) THEN ChildIds(p)
  ELSE IF Read(S, ManifestFile(p)) = Missing THEN {}
  ELSE S[ManifestFile(p)].legs

Terminal == {"done", "failed"}

\* The barrier of fan-out p, its legs' files read below `prefix`.
AllTerminal(S, p, prefix) ==
  \A l \in LegIds(S, p) : StateOf(S, Child(prefix, l)) \in Terminal
\* Mutant: the join's policy is not evaluated.
PolicyMetIgnored(S, p, prefix, policy) == TRUE
PolicyMet(S, p, prefix, policy) ==
  JoinPolicySatisfied(policy,
    Cardinality({l \in LegIds(S, p) : StateOf(S, Child(prefix, l)) = "done"}),
    Cardinality(LegIds(S, p)))

-----------------------------------------------------------------------------
(* Events and results of scripts. *)

\* repository_dispatch: `continue` runs the engine, `join` protocol-join.yml.
\* `said` is what a comment adds to its command: who decides, which branch it
\* names, the questions it answers.
NothingSaid == [byAuthor |-> FALSE, branch |-> None, answered |-> {}]
Event(workflow, command, path, said) ==
  [workflow |-> workflow, command |-> command, path |-> path, said |-> said]
Continue(p) == Event("engine", "continue", p, NothingSaid)

\* The join over the fan-out around p: its path is carried only when nested.
FireJoin(p) ==
  LET fanout == EnclosingFanoutPath(p) IN
  Event("join", "join", IF Len(fanout) > 1 THEN fanout ELSE <<>>, NothingSaid)

\* `runs`: the action is run-agent or run-fanout, over `legs`.  `tells`: the
\* script updates the shared status comment, or creates it if there is none.
Result(S, push, check, emit, runs, legs) ==
  [store |-> S, push |-> push, check |-> check, emit |-> emit,
   runs |-> runs, legs |-> legs, tells |-> FALSE]
Quiet(S) == Result(S, FALSE, None, {}, FALSE, {})
Pushes(S, emit) == Result(S, TRUE, None, emit, FALSE, {})
Tells(result) == [result EXCEPT !.tells = TRUE]
Concludes(S, check, emit) == Tells(Result(S, TRUE, check, emit, FALSE, {}))
=============================================================================

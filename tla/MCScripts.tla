------------------------------ MODULE MCScripts ------------------------------
(* Questions to the scripts that keep no state.  Each initial state is one *)
(* question; nothing happens after it.                                     *)
EXTENDS Integers, Sequences, FiniteSets, TLC

VARIABLE query

Events == INSTANCE Routing
Checks == INSTANCE CheckRunner
InputsOf(tree) == INSTANCE Inputs WITH Tree <- tree
Accept == INSTANCE Validation

UpTo(S, n) == UNION {[1 .. k -> S] : k \in 0 .. n}

-----------------------------------------------------------------------------
(* Two protocols, comments of up to two letters. *)

CommentTrigger(targets, prefixes, commands) ==
  {[on |-> "issue_comment", target |-> t, prefix |-> p, actions |-> {}, command |-> c] :
     t \in targets, p \in prefixes, c \in commands}
PullRequestTrigger(actions) ==
  [on |-> "pull_request", target |-> "pr", prefix |-> <<>>, actions |-> actions,
   command |-> "start"]

Triggers ==
  CommentTrigger({"pr", "issue"}, {<<"a">>, <<"a", "b">>, <<"b">>}, {"start", "answer"})
    \union {PullRequestTrigger({}), PullRequestTrigger({"opened"})}

Occurrences ==
  {[on |-> "issue_comment", target |-> t, body |-> b, action |-> "created", protocol |-> ""] :
     t \in {"pr", "issue"}, b \in UpTo({"a", "b"}, 2)} \union
  {[on |-> "pull_request", target |-> "pr", body |-> <<>>, action |-> x, protocol |-> ""] :
     x \in {"opened", "labeled"}} \union
  {[on |-> "dispatch", target |-> "pr", body |-> <<>>, action |-> "", protocol |-> "one"]}

RouteQueries ==
  {[script |-> "route", event |-> e,
    protocols |-> [name \in {"one", "two"} |-> IF name = "one" THEN one ELSE <<two>>]] :
     one \in UpTo(Triggers, 2), e \in Occurrences,
     two \in CommentTrigger({"pr", "issue"}, {<<>>, <<"a">>, <<"a", "b">>}, {"start"})}

-----------------------------------------------------------------------------
(* Nodes with up to two checks. *)

File(declared, exact, extensions, executable) ==
  [declared |-> declared, exact |-> exact, extensions |-> extensions,
   executable |-> executable]
GoodFiles == {File("there", 0, 0, TRUE), File("no", 0, 1, TRUE)}
BadFiles ==
  {File("gone", 1, 0, TRUE), File("no", 0, 0, TRUE), File("no", 0, 2, TRUE),
   File("no", 1, 1, TRUE), File("no", 0, 1, FALSE)}

Severities == {"iterate", "block", "advisory"}
Run(started, exitsZero, valid, pass, onFail) ==
  [started |-> started, exitsZero |-> exitsZero, valid |-> valid, pass |-> pass,
   onFail |-> onFail]
Answers == {Run(TRUE, TRUE, TRUE, pass, s) : pass \in BOOLEAN, s \in {"iterate", "advisory"}}
Broken ==
  {Run(FALSE, TRUE, TRUE, TRUE, "block"), Run(TRUE, FALSE, TRUE, TRUE, "block"),
   Run(TRUE, TRUE, FALSE, TRUE, "block")}

CheckProfiles ==
  {[file |-> f, run |-> r, onFail |-> s] :
     f \in {File("no", 0, 1, TRUE)}, r \in Answers \union Broken, s \in Severities} \union
  {[file |-> f, run |-> r, onFail |-> s] :
     f \in GoodFiles \union BadFiles, r \in {Run(TRUE, TRUE, TRUE, TRUE, "block")},
     s \in Severities}

Hooks ==
  {[declared |-> TRUE, file |-> f, run |-> [valid |-> v, blocks |-> b, heeds |-> h]] :
     f \in {File("there", 0, 0, TRUE), File("gone", 0, 0, TRUE)},
     v \in BOOLEAN, b \in BOOLEAN, h \in BOOLEAN}

CheckQueries ==
  {[script |-> "checks", node |-> [found |-> f, checks |-> c], hook |-> h] :
     f \in BOOLEAN, c \in UpTo(CheckProfiles, 2), h \in Hooks}

-----------------------------------------------------------------------------
(* A protocol with several phases and one with a single phase, both with static *)
(* and dynamic fan-outs, gates and merges at two levels.                        *)

Inner(kind, children) == [kind |-> kind, dynamic |-> FALSE, children |-> children]
Dynamic(children) == [kind |-> "fanout", dynamic |-> TRUE, children |-> children]
Leaf(kind) == [kind |-> kind]
JoinOf(of) == [kind |-> "join", of |-> of]

\* A sub-pipeline with a fan-out of its own, at p.
FileLeg(p) ==
  p :> Inner("sequence", <<"plan", "probe", "inner", "join-inner", "report">>)
  @@ [q \in {p \o <<id>> : id \in {"plan", "probe", "report"}} |-> Leaf("agent")]
  @@ p \o <<"inner">> :> Inner("fanout", <<"C", "D">>)
  @@ p \o <<"inner", "C">> :> Leaf("agent")
  @@ p \o <<"inner", "D">> :> Inner("sequence", <<"draft", "wrap">>)
  @@ [q \in {p \o <<"inner", "D", id>> : id \in {"draft", "wrap"}} |-> Leaf("agent")]
  @@ p \o <<"join-inner">> :> JoinOf("inner")

\* A flat leg, and one that plans, asks and works per file.
Review(p) ==
  p :> Inner("fanout", <<"A", "B">>)
  @@ p \o <<"A">> :> Leaf("agent")
  @@ p \o <<"B">> :> Inner("sequence", <<"plan", "ask", "files", "join-files", "reduce">>)
  @@ p \o <<"B", "plan">> :> Leaf("agent")
  @@ p \o <<"B", "ask">> :> Leaf("gate")
  @@ p \o <<"B", "files">> :> Dynamic(<<"f", "g">>)
  @@ FileLeg(p \o <<"B", "files", "f">>)
  @@ FileLeg(p \o <<"B", "files", "g">>)
  @@ p \o <<"B", "join-files">> :> JoinOf("files")
  @@ p \o <<"B", "reduce">> :> Leaf("merge")

\* One phase, a fan-out; and three.
OnePhase ==
  <<>> :> Inner("root", <<"review", "join", "combine">>)
  @@ Review(<<"review">>) @@ <<"join">> :> JoinOf("review") @@ <<"combine">> :> Leaf("merge")
ThreePhases ==
  <<>> :> Inner("root", <<"plan", "review", "join", "final", "combine">>)
  @@ [q \in {<<"plan">>, <<"final">>} |-> Leaf("agent")]
  @@ Review(<<"review">>) @@ <<"join">> :> JoinOf("review") @@ <<"combine">> :> Leaf("merge")

InputQueries ==
  UNION {[script : {"inputs"}, tree : {tree}, consumer : InputsOf(tree)!Consumers,
          from : {p[Len(p)] : p \in DOMAIN tree \ {<<>>}} \union {"nowhere"}] :
           tree \in {OnePhase, ThreePhases}}

-----------------------------------------------------------------------------
(* A fan-out with a sub-pipeline that fans out again, with what its author may *)
(* have written in the keys that refer to another node or ask for something.   *)

Unreferring(kind) == [kind |-> kind, workflow |-> TRUE, policy |-> TRUE, of |-> "",
                      questionsFrom |-> "", from |-> {}, branches |-> FALSE, each |-> {},
                      expand |-> [given |-> FALSE], children |-> <<>>]
Expand(maxLegs) ==
  [given |-> TRUE, complete |-> TRUE, maxLegs |-> maxLegs, matrixFields |-> "unset"]
Sequence(kind, children) == [Unreferring(kind) EXCEPT !.children = children]

Protocol(a) ==
  <<>> :> Sequence("root", <<"plan", "review", "join", "merge">>)
  @@ <<"plan">> :> Unreferring("agent")
  @@ <<"review">> :> [Unreferring("fanout") EXCEPT !.branches = TRUE, !.children = <<"A", "B">>,
                                                   !.expand.given = a.both]
  @@ <<"review", "A">> :> [Unreferring("agent") EXCEPT !.workflow = a.workflow]
  @@ <<"review", "B">> :> Sequence("sequence", <<"draft", "ask", "inner", "join-inner", "reduce">>)
  @@ <<"review", "B", "draft">> :> Unreferring("agent")
  @@ <<"review", "B", "ask">> :> [Unreferring("gate") EXCEPT !.questionsFrom = a.asks]
  @@ <<"review", "B", "inner">> :>
       [Unreferring("fanout") EXCEPT !.expand = Expand(a.legs), !.each = a.each,
                                     !.children = <<"<each>">>]
  @@ (IF a.each = {"states"}
      THEN <<"review", "B", "inner", "<each>">> :> Sequence("sequence", <<"probe">>)
           @@ <<"review", "B", "inner", "<each>", "probe">> :>
                [Unreferring("agent") EXCEPT !.workflow = a.innerWorkflow]
      ELSE <<"review", "B", "inner", "<each>">> :>
             [Unreferring("agent") EXCEPT !.workflow = "workflow" \in a.each])
  @@ <<"review", "B", "join-inner">> :> [Unreferring("join") EXCEPT !.of = a.inner]
  @@ <<"review", "B", "reduce">> :> [Unreferring("merge") EXCEPT !.from = a.from]
  @@ <<"join">> :> [Unreferring("join") EXCEPT !.of = a.outer, !.policy = a.policy]
  @@ <<"merge">> :> [Unreferring("merge") EXCEPT !.from = {"review"}]

\* What the author writes, at most one of the last five being off at a time.
Keys ==
  [inner : {"", "inner", "review"}, outer : {"", "review", "inner"},
   each : {{"workflow"}, {"states"}, {"workflow", "states"}, {}},
   workflow : BOOLEAN, innerWorkflow : BOOLEAN,
   legs : {0, 256, 257}, asks : {"", "draft", "plan"}, from : {{"inner"}, {"review"}},
   policy : BOOLEAN, both : BOOLEAN]
Usual == [legs |-> 256, asks |-> "draft", from |-> {"inner"}, policy |-> TRUE, both |-> FALSE]
Slips == {k \in Keys : Cardinality({x \in DOMAIN Usual : k[x] # Usual[x]}) <= 1}

AcceptQueries ==
  [script : {"accept"}, keys : Slips, declared : {{}, {2}, {3}, {4}, {5}},
   schema : {"passes", "skipped"}]

-----------------------------------------------------------------------------

Init == query \in RouteQueries \union CheckQueries \union InputQueries \union AcceptQueries
Next == UNCHANGED query
Spec == Init /\ [][Next]_query

\* Routing: a comment some protocol has a command for starts that protocol.
CommentReachesProtocol ==
  query.script = "route" => Events!CommentReachesProtocol(query.protocols, query.event)

\* CheckRunner: a unit is done exactly when each check that may send it back ran
\* and passed.
DoneMeansChecked ==
  query.script = "checks" =>
    \A remaining \in BOOLEAN : Checks!DoneMeansChecked(query.node, remaining)

\* CheckRunner: a conclude hook that repeats what it is told halts a finished unit
\* just if a blocking check did not pass.
BlockHeard ==
  query.script = "checks" =>
    \A remaining \in BOOLEAN : Checks!BlockHeard(query.node, query.hook, remaining)

\* Inputs: an input is read from the file its producer wrote.
ReadsWhatIsWritten ==
  query.script = "inputs" =>
    InputsOf(query.tree)!ReadsWhatIsWritten(query.consumer, query.from)

\* Inputs: no leg reads a file of another leg of the same dynamic fan-out.
ReadsOwnLeg ==
  query.script = "inputs" => InputsOf(query.tree)!ReadsOwnLeg(query.consumer, query.from)

\* Inputs: a merge reads what each leg's last unit wrote.
MergesWhatLegsWrote ==
  query.script = "inputs" =>
    \A p \in {q \in DOMAIN query.tree : InputsOf(query.tree)!IsDynamic(q)} :
      InputsOf(query.tree)!MergesWhatLegsWrote(p)

\* Validation: the join the engine finds for a nested fan-out is beside it.
JoinClosesItsFanout ==
  query.script = "accept" =>
    Accept!JoinClosesItsFanout(Protocol(query.keys), query.declared, query.schema)
=============================================================================

------------------------------- MODULE Engine --------------------------------
(***************************************************************************)
(* One instance of a protocol under the engine: the state branch, the      *)
(* workflow runs that execute next.py, advance.py and join.py on clones of *)
(* it, and the events that start them.                                     *)
(*                                                                         *)
(* agentic-orchestrator.yml and protocol-join.yml run one workflow run per *)
(* concurrency group and keep one pending, the newest.  A run of the first *)
(* plans (next.py), then runs the agents and checks of the legs it         *)
(* planned and advance.py for each; it holds its group until the last leg  *)
(* is over.  A script clones the branch, edits, sets the check-run, pushes *)
(* (StateBranch.tla: the changes land on the tip unless they conflict      *)
(* there) and dispatches.                                                  *)
(*                                                                         *)
(* A run on a ref has no pull request: it has no status comment, and the   *)
(* questions of its gates are issues, whose comments mm-interactive-resume *)
(* answers in runs that are in no concurrency group.                       *)
(***************************************************************************)
EXTENDS Planner, Advance, JoinScript

CONSTANTS
  PullRequest,  \* whether the instance is a pull request, or a ref
  Commands,     \* the comments' commands: a subset of Replies and "start"
  Sayings,      \* what the answers may say
  Limit         \* bounds: starts, replies, redeliveries, deaths of a runner

Replies == {"override", "approve", "request-changes", "reject", "answer"}
Bounds == {"start", "reply", "redelivery", "death"}

ASSUME CommandsAssumption == Commands \subseteq Replies \union {"start"}
ASSUME PullRequestAssumption == PullRequest \in BOOLEAN
ASSUME LimitAssumption == Limit \in [Bounds -> Nat]

\* What protocols look like that the engine can run: more than validate_protocol
\* asks for.  A `state` is the id of a node or one of two words, which name no node.
ASSUME ProtocolAssumption ==
  \A p \in DOMAIN Tree :
    /\ p # <<>> => LastId(p) \notin Terminal
    /\ Tree[p].kind = "agent" => Tree[p].max \in Nat \ {0}

\* A leg is an agent, or a sub-pipeline that starts with one.
ASSUME LegAssumption ==
  \A p \in DOMAIN Tree \ {<<>>} :
    /\ NodeKind(p) = "sequence" => NodeKind(ParentPath(p)) = "fanout"
    /\ NodeKind(ParentPath(p)) = "fanout" => NodeKind(p) \in {"agent", "sequence"}
    /\ NodeKind(p) = "sequence" => /\ Children(p) # <<>>
                                   /\ NodeKind(Child(p, FirstChildId(p))) = "agent"

\* A nested fan-out is closed by a join beside it (Validation!JoinClosesItsFanout),
\* no gate of a sub-pipeline has the name of a root agent, and there is a first phase.
ASSUME NamesAssumption ==
  /\ \A p \in NestedFanouts :
       LET joins == JoinsOver(ParentPath(p), LastId(p)) IN
       joins # <<>> => Tree[joins[1]].next \in ChildIds(ParentPath(p)) \union {None}
  /\ \A p \in LegGates : NodeKind(<<LastId(p)>>) # "agent"
  /\ RootIds # <<>>

VARIABLES
  store,     \* the instance's files on the tip of the state branch
  jobs,      \* the jobs of the workflow runs
  waiting,   \* the pending event of each busy group
  check,     \* the aggregate check-run
  comments,  \* status comments created so far; each has its number
  used       \* how much of each bound is used

vars == <<store, jobs, waiting, check, comments, used>>

\* The concurrency groups: <<workflow, path>>.
Group(e) == <<e.workflow, e.path>>

\* A job waiting for a runner (plan, join) or at its agent (leg).
Job(role, group, path, command, said) ==
  [role |-> role, group |-> group, path |-> path, command |-> command,
   said |-> said, stage |-> "ready", clone |-> Missing, todo |-> Missing]

Queued(e) ==
  Job(IF e.workflow = "join" THEN "join" ELSE "plan",
      Group(e), e.path, e.command, e.said)
Leg(group, p) == Job("leg", group, p, None, NothingSaid)

Init ==
  /\ store = [f \in Files |-> Missing]
  /\ jobs = {}
  /\ waiting = {}
  /\ check = None
  /\ comments = 0
  /\ used = [b \in Bounds |-> 0]

Busy(J, g) == \E j \in J : j.group = g

\* The jobs become J and the events E arrive: an event replaces the pending one
\* of its group, and a group without a job starts the event it has.
Schedule(J, E) ==
  LET pending == {w \in waiting : \A e \in E : Group(e) # Group(w)} \union E
      free == {w \in pending : ~Busy(J, Group(w))}
  IN /\ jobs' = J \union {Queued(w) : w \in free}
     /\ waiting' = pending \ free

Becomes(j, k) == jobs' = (jobs \ {j}) \union {k}
Leave(j, E) == Schedule(jobs \ {j}, E)

Use(b) ==
  /\ used[b] < Limit[b]
  /\ used' = [used EXCEPT ![b] = @ + 1]

SaidWith(command) ==
  CASE command = "approve" -> {[NothingSaid EXCEPT !.byAuthor = b] : b \in BOOLEAN}
    [] command = "answer" -> Sayings
    [] OTHER -> {NothingSaid}

\* A run without a group is alone in a group of its own.
Alone == [i \in 1 .. used["reply"] + 1 |-> "comment"]

\* A bound: nobody answers before a gate has asked something.
GateAsked ==
  \E p \in LegGates : store[NodeFile(p)] # Missing /\ store[NodeFile(p)].questions # {}

\* Somebody comments a command of the protocol, or starts a run on a ref.
Comment(command, said) ==
  /\ command \in Commands
  /\ command = "answer" => GateAsked
  /\ Use(IF command = "start" THEN "start" ELSE "reply")
  /\ Schedule(jobs, {IF command = "answer" /\ ~PullRequest
                     THEN Event("resume", command, Alone, said)
                     ELSE Event("engine", command, <<>>, said)})
  /\ UNCHANGED <<store, check, comments>>

\* A `continue` arrives once more: sent by hand, or its run re-run.
Redeliver(p) ==
  /\ store[InstanceFile] # Missing
  /\ Use("redelivery")
  /\ Schedule(jobs, {Continue(p)})
  /\ UNCHANGED <<store, check, comments>>

Outcomes(S, j) ==
  CASE j.role = "plan" -> Plan(S, j.command, j.path, j.said)
    [] j.role = "leg" -> AdvanceOutcomes(S, j.path, j.group)
    [] j.role = "join" -> {Join(S, j.path)}

\* Mutant: the comment is created whether its id is recorded or not.
NeedsCommentAlways(S) ==
  PullRequest /\ (IsMultiphase \/ FanoutIds # {}) /\ S[InstanceFile] # Missing

\* The shared comment is created unless its id is recorded; a lone root agent
\* has none.
NeedsComment(S) ==
  /\ PullRequest
  /\ IsMultiphase \/ FanoutIds # {}
  /\ S[InstanceFile] # Missing
  /\ S[InstanceFile].comment = 0

\* The script checks out the branch and edits its clone; an update of the shared
\* comment creates it if its id is not recorded there.
Execute(j) ==
  /\ j.stage = "ready"
  /\ \E r \in Outcomes(store, j) :
       LET creates == r.tells /\ NeedsComment(r.store)
           todo == IF creates
                   THEN [r EXCEPT !.store[InstanceFile].comment = comments + 1]
                   ELSE r
       IN /\ Becomes(j, [j EXCEPT !.stage = "edited", !.clone = store, !.todo = todo])
          /\ comments' = IF creates THEN comments + 1 ELSE comments
  /\ UNCHANGED <<store, waiting, check, used>>

\* It concludes the aggregate check-run, before its push.
Report(j) ==
  /\ j.stage = "edited"
  /\ j.todo.check # None
  /\ check' = j.todo.check
  /\ Becomes(j, [j EXCEPT !.todo.check = None])
  /\ UNCHANGED <<store, waiting, comments, used>>

Pushing(j) == j.stage = "edited" /\ j.todo.check = None /\ j.todo.push

Edited(j) == {f \in Files : j.todo.store[f] # j.clone[f]}
\* Mutant: a push overwrites what landed since the checkout.
ConflictsIgnored(j) == {}
Conflicts(j) ==
  {f \in Edited(j) : store[f] # j.clone[f] /\ store[f] # j.todo.store[f]}
Rebased(j) == [f \in Files |-> IF f \in Edited(j) THEN j.todo.store[f] ELSE store[f]]

\* cas_push lands the edits; the working tree is the new tip from then on.
Push(j) ==
  /\ Pushing(j)
  /\ Edited(j) # {}
  /\ Conflicts(j) = {}
  /\ store' = Rebased(j)
  /\ Becomes(j, [j EXCEPT !.stage = "pushed", !.clone = Rebased(j)])
  /\ UNCHANGED <<waiting, check, comments, used>>

\* cas_push exits: nothing to commit, or a rebase conflict.
FailPush(j) ==
  /\ Pushing(j)
  /\ Edited(j) = {} \/ Conflicts(j) # {}
  /\ Leave(j, {})
  /\ UNCHANGED <<store, check, comments, used>>

Landed(j) == j.stage = "pushed" \/ (j.stage = "edited" /\ ~j.todo.push)

\* The script's last call is its dispatch.
Finish(j) ==
  /\ Landed(j)
  /\ ~j.todo.runs
  /\ Leave(j, j.todo.emit)
  /\ UNCHANGED <<store, check, comments, used>>

\* A plan that runs a node marks the aggregate check-run in progress, unless
\* the node has no leg.
MarkInProgress(j) ==
  /\ Landed(j)
  /\ j.todo.runs
  /\ check' = IF j.todo.legs = {} THEN check ELSE "in_progress"
  /\ Becomes(j, [j EXCEPT !.stage = "marked"])
  /\ UNCHANGED <<store, waiting, comments, used>>

\* Mutant: the run of a retry dispatches the legs beside it as well.
DispatchedAll(j) ==
  (jobs \ {j}) \union
  {Leg(j.group, q) : q \in {r \in DOMAIN Tree :
     NodeKind(r) = "agent" /\ \E p \in j.todo.legs : ParentPath(r) = ParentPath(p)}}
Dispatched(j) == (jobs \ {j}) \union {Leg(j.group, p) : p \in j.todo.legs}

\* ensure_status_comment: a second push records the comment; then the legs start.
StartLegs(j) ==
  /\ j.stage = "marked"
  /\ ~NeedsComment(j.clone)
  /\ Schedule(Dispatched(j), {})
  /\ UNCHANGED <<store, check, comments, used>>

StartLegsWithComment(j) ==
  /\ j.stage = "marked"
  /\ NeedsComment(j.clone)
  /\ store[InstanceFile] = j.clone[InstanceFile]
  /\ comments' = comments + 1
  /\ store' = [store EXCEPT ![InstanceFile].comment = comments + 1]
  /\ Schedule(Dispatched(j), {})
  /\ UNCHANGED <<check, used>>

\* That push conflicts: the plan job fails and no leg runs.
FailComment(j) ==
  /\ j.stage = "marked"
  /\ NeedsComment(j.clone)
  /\ store[InstanceFile] # j.clone[InstanceFile]
  /\ comments' = comments + 1
  /\ Leave(j, {})
  /\ UNCHANGED <<store, check, used>>

\* A runner dies, times out, or exhausts cas_push's attempts; an expander fails.
Die(j) ==
  /\ Use("death")
  /\ Leave(j, {})
  /\ UNCHANGED <<store, check, comments>>

Step(j) ==
  \/ Execute(j)
  \/ Report(j)
  \/ Push(j)
  \/ FailPush(j)
  \/ Finish(j)
  \/ MarkInProgress(j)
  \/ StartLegs(j)
  \/ StartLegsWithComment(j)
  \/ FailComment(j)

Work == \E j \in jobs : Step(j)

Next ==
  \/ Work
  \/ \E command \in Commands :
       \E said \in SaidWith(command) : Comment(command, said)
  \/ \E p \in DOMAIN Tree \ {<<>>} : Redeliver(p)
  \/ \E j \in jobs : Die(j)

Spec == Init /\ [][Next]_vars
FairSpec == Spec /\ WF_vars(Work)

-----------------------------------------------------------------------------
(* Properties. *)

Checks == {None, "in_progress", "success", "failure", "neutral"}
Units == {p \in DOMAIN Tree : NodeKind(p) = "agent"}
Legs(J) == {j \in J : j.role = "leg"}

Workflows == {"engine", "join", "resume"}
Paths == Seq(STRING) \union Seq({"comment"})
Tags == {NoTag} \union (Workflows \X Paths)

GateFields == {"state", "gate", "questions", "history"}

\* A unit never exceeds its iterations; a cursor may stand nowhere, after a restart.
NodeOK(p, v) ==
  CASE NodeKind(p) = "agent" ->
         v \in [state : Terminal \union {LifeState(p)}, iteration : 1 .. Tree[p].max,
                history : Nat, last : Tags]
    [] NodeKind(p) = "sequence" ->
         v \in [state : Terminal \union {EnclosingFanoutId(p)},
                sub_state : ChildIds(p) \union {None}]
    [] NodeKind(p) = "gate" ->
         /\ DOMAIN v = GateFields
         /\ v.state \in {LastId(p), "failed"}
         /\ v.gate \in {"open", "approved", "changes_requested", "rejected", "answered"}
         /\ v.questions \in IF IsRootChild(p) THEN {{}} ELSE Tree[p].asks
    [] OTHER -> DOMAIN v = GateFields /\ v.gate = "open"

\* Only an agent halts the root.
RootAgents == {id \in ChildIds(<<>>) : NodeKind(<<id>>) = "agent"}

Instances ==
  [phase : ChildIds(<<>>), joined : BOOLEAN,
   label : ChildIds(<<>>) \union {"done", "failed", "blocked"},
   halted : RootAgents \union {None}, overrides : SUBSET RootAgents, comment : Nat]

ValueOK(f, v) ==
  CASE f[1] = "node" -> NodeOK(f[2], v)
    [] f[1] = "answers" ->
         DOMAIN v = {"questions", "answered"} /\ v.questions \in Tree[f[2]].asks
    [] f[1] = "join" -> v \in [joined : BOOLEAN, failed : BOOLEAN]
    [] f[1] = "manifest" -> v \in [legs : SUBSET ChildIds(f[2])]
    [] f[1] = "instance" -> v \in Instances

FileOK(f, v) == v = Missing \/ ValueOK(f, v)

TypeOK ==
  /\ \A f \in Files : FileOK(f, store[f])
  /\ \A j \in jobs : /\ j.role \in {"plan", "leg", "join"}
                     /\ j.stage \in {"ready", "edited", "pushed", "marked"}
  /\ \A e \in waiting : Busy(jobs, Group(e))
  /\ check \in Checks
  /\ comments \in Nat
  /\ \A b \in Bounds : used[b] \in 0 .. Limit[b]

PolicyOver(p) ==
  LET joins == JoinsOver(ParentPath(p), LastId(p)) IN
  IF joins = <<>> THEN AllPolicy ELSE Tree[joins[1]].policy
LegsIn(p, states) == {l \in LegIds(store, p) : StateOf(store, Child(p, l)) \in states}
Cleared(p) ==
  JoinPolicySatisfied(PolicyOver(p), Cardinality(LegsIn(p, {"done"})),
                      Cardinality(LegIds(store, p)))

\* What makes a root state a finished one.
PhaseFinished(id) ==
  LET p == <<id>> IN
  CASE NodeKind(p) = "agent" ->
         StateOf(store, p) = "done" \/ id \in store[InstanceFile].overrides
    [] NodeKind(p) = "fanout" ->
         LegsIn(p, Terminal) = LegIds(store, p) /\ Cleared(p)
    [] NodeKind(p) = "gate" ->
         store[NodeFile(p)] # Missing /\ store[NodeFile(p)].gate = "approved"
    [] OTHER -> TRUE

\* The cursor passes a root state only once it is finished: an agent done or
\* overridden, every leg terminal and the policy met, the gate approved.
PhaseExplained ==
  store[InstanceFile] # Missing =>
    \A i, k \in DOMAIN RootIds :
      k < i /\ RootIds[i] = store[InstanceFile].phase => PhaseFinished(RootIds[k])

\* "A missing review is always a red gate": the aggregate check-run is green only
\* when every phase of the run on the branch is finished.
GreenIsEarned ==
  check = "success" => \A id \in PhaseIds : PhaseFinished(id)

\* The retry loop is bounded across re-dispatched runs: no unit's history is
\* longer than max_iterations, and a leg that failed has used them all.
AttemptsBounded ==
  \A p \in Units : store[NodeFile(p)] # Missing =>
    /\ store[NodeFile(p)].history <= Tree[p].max
    /\ store[NodeFile(p)].state = "failed" /\ ~IsRootChild(p) =>
         store[NodeFile(p)].history = Tree[p].max

\* Never two attempts at one leg in an instance that is started once and no
\* `continue` of which is delivered twice: a leg's file has one writer at a time,
\* who is one until it has pushed.  A restart adds another (NeverTwoWriters below).
Unpushed(j) == j.stage = "ready" \/ (j.stage = "edited" /\ j.todo.push)
SingleFlight ==
  used["start"] <= 1 /\ used["redelivery"] = 0 =>
    \A j, k \in {l \in Legs(jobs) : Unpushed(l)} : j.path = k.path => j = k

\* A unit that is done or failed stays so.
TerminalStays ==
  [][\A p \in Units : StateOf(store, p) \in Terminal =>
       StateOf(store', p) = StateOf(store, p)]_vars

\* A nested barrier is closed after the last leg, with the policy's outcome, and
\* has moved the sub-pipeline around it.
NestedJoinSound ==
  \A p \in NestedFanouts :
    Read(store, JoinFile(p)) # Missing /\ store[JoinFile(p)].joined =>
      LET cursor == store[NodeFile(ParentPath(p))] IN
      /\ LegsIn(p, Terminal) = LegIds(store, p)
      /\ store[JoinFile(p)].failed = ~Cleared(p)
      /\ ~Cleared(p) => cursor.state = "failed"
      /\ Cleared(p) => cursor.state = "done" \/ cursor.sub_state # LastId(p)

\* Writers of a dynamic fan-out that race (a replayed `continue`, a re-start)
\* never leave a manifest with a leg nobody seeded: its barrier would wait forever.
ManifestSeeded ==
  \A p \in DOMAIN Tree : IsDynamic(p) =>
    \A l \in LegIds(store, p) : store[NodeFile(Child(p, l))] # Missing

\* A run recorded as done is one whose phases are all finished, whatever the run
\* it replaced still pushes.  A `continue` delivered twice may reopen a phase, and so
\* may the retry of a run that was replaced: the instance is started once, or none of
\* its units is tried twice.
OneAttempt == \A p \in Units : Tree[p].max = 1
DoneIsEarned ==
  used["redelivery"] = 0 /\ (used["start"] <= 1 \/ OneAttempt) =>
    (store[InstanceFile] # Missing /\ store[InstanceFile].label = "done" =>
       \A id \in PhaseIds : PhaseFinished(id))

\* ensure_status_comment is a "create-once guard": a started run has one comment.
CommentCreatedOnce == comments <= used["start"]

NoEmptyManifest ==
  \A p \in DOMAIN Tree : IsDynamic(p) =>
    Read(store, ManifestFile(p)) = Missing \/ LegIds(store, p) # {}

\* The nodes the instance stands at: the cursor's, the legs of a fan-out among
\* them, the nodes their cursors lead to.
Live(p) ==
  /\ p[1] = store[InstanceFile].phase
  /\ OnCursors(store, p)
  /\ \A k \in 1 .. Len(p) - 1 :
       LET q == Prefix(p, k) IN
       CASE NodeKind(q) = "sequence" -> StateOf(store, q) \notin Terminal
         [] NodeKind(q) = "fanout" -> p[k + 1] \in LegIds(store, q)

\* What is not over, and waits for nobody outside, has to have a job.
MayWait(p) ==
  CASE NodeKind(p) = "agent" ->
         NodeKind(ParentPath(p)) = "fanout" /\ StateOf(store, p) \in Terminal
    [] NodeKind(p) = "gate" ->
         /\ store[NodeFile(p)] # Missing
         /\ store[NodeFile(p)].gate \in {"open", "changes_requested"}
    [] NodeKind(p) = "sequence" -> store[NodeFile(p)] # Missing
    [] NodeKind(p) = "fanout" -> LegsIn(p, Terminal) # LegIds(store, p)
    [] OTHER -> FALSE

\* Where a run may rest: concluded, halted, or at gates that await people.
Settled ==
  \/ store[InstanceFile].label \in {"done", "failed", "blocked"}
  \/ \A p \in DOMAIN Tree \ {<<>>} : Live(p) => MayWait(p)

Stalled ==
  /\ jobs = {}
  /\ store[InstanceFile] # Missing
  /\ used["death"] = 0
  /\ ~Settled

\* No wake-up is lost: when nothing runs and nothing is pending the run has come
\* to rest, unless a runner died or a fan-out had no leg.
SettledWhenQuiet == NoEmptyManifest => ~Stalled

\* A run that was started comes to rest, however often its units are sent back,
\* unless a fan-out had no leg.
RunSettles ==
  store[InstanceFile] # Missing ~>
    (store[InstanceFile] # Missing /\ Settled) \/ ~NoEmptyManifest

\* A leg is past a data gate only when the gate is answered, and the answers it
\* is resumed with cover the questions it asked.
GatesAnswered ==
  \A p \in LegGates :
    LET cursor == store[NodeFile(ParentPath(p))]
        past == /\ cursor # Missing
                /\ \/ cursor.state = "done"
                   \/ Index(Child(ParentPath(p), cursor.sub_state)) > Index(p)
    IN past => /\ store[NodeFile(p)].gate = "answered"
               /\ store[NodeFile(p)].questions \subseteq AnsweredAt(store, p)

\* A gate a leg has come to is open where an answer finds it: the script that opens
\* it, the search through the cursors and the one that moves the leg on agree.
GateOpened ==
  \A p \in LegGates :
    jobs = {} /\ store[InstanceFile] # Missing /\ Live(p) => p \in OpenGates(store, None)

\* Answers come in several comments: none that was recorded is lost, unless the
\* instance starts over.
AnswersStay ==
  [][\A p \in LegGates :
       store'[AnswersFile(p)] # Missing =>
         AnsweredAt(store, p) \subseteq AnsweredAt(store', p)]_vars

-----------------------------------------------------------------------------
(* What the documentation says of the engine, and the runs refute. *)

\* "Zero legs ...: `all` is vacuously satisfied and the run advances to join.next"
ZeroLegsAdvance ==
  \A id \in FanoutIds :
    /\ Read(store, InstanceFile) # Missing /\ store[InstanceFile].phase = id
    /\ Read(store, ManifestFile(<<id>>)) = Manifest({})
    /\ PolicyOver(<<id>>) = AllPolicy
    => ~Stalled

\* "A missing review is always a red gate": never green while a leg's agent runs.
GreenOnlyWhenReviewed ==
  check = "success" => \A j \in Legs(jobs) : j.stage # "ready"

\* "each branch writes only its own file ... there is never a two-writer race on a
\* single file": what two legs are about to push is in the files of different units.
NeverTwoWriters ==
  \A j, k \in Legs(jobs) :
    j # k /\ Pushing(j) /\ Pushing(k) =>
      \A p \in Units : NodeFile(p) \notin Edited(j) \cap Edited(k)
=============================================================================

------------------------------- MODULE FanOut --------------------------------
(***************************************************************************)
(* One run of a fan-out with agent legs, from the seeded legs to its join. *)
(* Each leg loops through agent, checks and advance.py; advance.py pushes  *)
(* the leg's new state and only then dispatches what comes next: a         *)
(* `protocol-continue` for another attempt, a `protocol-join` when the leg *)
(* is terminal.  protocol-join.yml runs join.py in a concurrency group     *)
(* that holds one running and one pending job: a newer dispatch replaces   *)
(* the pending one.  Each leg writes only its own file and the join only   *)
(* _instance.yaml, so a push commits what was decided on the job's clone.  *)
(***************************************************************************)
EXTENDS JoinPolicy, FiniteSets

CONSTANTS
  Leg,            \* the legs, static branches or the manifest's ids
  MaxIterations,  \* the agent's max_iterations (advance.py's default is 3)
  Policy          \* the join state's policy

ASSUME LegAssumption == IsFiniteSet(Leg)
ASSUME MaxAssumption == MaxIterations \in Nat \ {0}
ASSUME PolicyAssumption == Policy \in Policies

VARIABLES
  state,      \* the `state` of each leg's file
  iteration,  \* its `iteration`
  attempts,   \* the length of its `history`
  run,        \* what the leg's engine run does next
  pending,    \* a join job is pending in the concurrency group
  join,       \* the running join job: its stage and the leg states it cloned
  joined,     \* _instance.yaml's `joined`
  outcome,    \* what the join recorded: "clear" (on to join.next) or "gated"
  entered,    \* dispatches of `protocol-continue` onto join.next
  died        \* a runner has been cancelled or has timed out

vars == <<state, iteration, attempts, run, pending, join, joined, outcome, entered, died>>

Terminal == {"done", "failed"}
LegStates == {"review"} \union Terminal

\* agent: agents and checks at work; retry, signal: advance.py has pushed and
\* has yet to dispatch the next attempt or the join; over; dead.
Runs == {"agent", "retry", "signal", "over", "dead"}

Init ==
  /\ state = [l \in Leg |-> "review"]
  /\ iteration = [l \in Leg |-> 1]
  /\ attempts = [l \in Leg |-> 0]
  /\ run = [l \in Leg |-> "agent"]
  /\ pending = FALSE
  /\ join = [stage |-> "idle", legs |-> [l \in Leg |-> "review"]]
  /\ joined = FALSE
  /\ outcome = "none"
  /\ entered = 0
  /\ died = FALSE

\* Mutant: one iteration too many.
ProcessOffByOne(l, passed) ==
  CASE passed -> "done"
    [] ~passed /\ iteration[l] <= MaxIterations -> "iterate"
    [] OTHER -> "failed"

\* advance.py's verdict on an attempt: the checks decide, and a failed attempt
\* is retried while iterations remain.
Process(l, passed) ==
  CASE passed -> "done"
    [] ~passed /\ iteration[l] < MaxIterations -> "iterate"
    [] OTHER -> "failed"

\* advance.py appends to the history, decides, writes the leg file and pushes.
Advance(l, passed) ==
  LET process == Process(l, passed) IN
  /\ run[l] = "agent"
  /\ attempts' = [attempts EXCEPT ![l] = @ + 1]
  /\ \/ /\ process = "iterate"
        /\ iteration' = [iteration EXCEPT ![l] = @ + 1]
        /\ run' = [run EXCEPT ![l] = "retry"]
        /\ UNCHANGED state
     \/ /\ process # "iterate"
        /\ state' = [state EXCEPT ![l] = process]
        /\ run' = [run EXCEPT ![l] = "signal"]
        /\ UNCHANGED iteration
  /\ UNCHANGED <<pending, join, joined, outcome, entered, died>>

\* Mutant: the re-dispatch seeds the leg anew.
RedispatchReseeds(l) ==
  /\ run[l] = "retry"
  /\ run' = [run EXCEPT ![l] = "agent"]
  /\ iteration' = [iteration EXCEPT ![l] = 1]
  /\ UNCHANGED <<state, attempts, pending, join, joined, outcome, entered, died>>

\* The re-dispatched `continue` finds the leg in flight and preserves its file.
Redispatch(l) ==
  /\ run[l] = "retry"
  /\ run' = [run EXCEPT ![l] = "agent"]
  /\ UNCHANGED <<state, iteration, attempts, pending, join, joined, outcome, entered, died>>

\* Mutants: a dispatch made while a join runs is dropped; only a leg that is
\* done fires the join.
FireJoinDropped(l) ==
  /\ run[l] = "signal"
  /\ run' = [run EXCEPT ![l] = "over"]
  /\ pending' = (pending \/ join.stage = "idle")
  /\ UNCHANGED <<state, iteration, attempts, join, joined, outcome, entered, died>>
FireJoinWhenDone(l) ==
  /\ run[l] = "signal"
  /\ run' = [run EXCEPT ![l] = "over"]
  /\ pending' = (pending \/ state[l] = "done")
  /\ UNCHANGED <<state, iteration, attempts, join, joined, outcome, entered, died>>

\* fire_join: a pending join job, if any, is replaced by this one.
FireJoin(l) ==
  /\ run[l] = "signal"
  /\ run' = [run EXCEPT ![l] = "over"]
  /\ pending' = TRUE
  /\ UNCHANGED <<state, iteration, attempts, join, joined, outcome, entered, died>>

\* Mutant: join.py without its check of `joined`.
StartJoinUnchecked ==
  /\ pending
  /\ join.stage = "idle"
  /\ pending' = FALSE
  /\ join' = [stage |-> "read", legs |-> state]
  /\ UNCHANGED <<state, iteration, attempts, run, joined, outcome, entered, died>>

\* The group is free: the pending job starts and clones the state branch.
StartJoin ==
  /\ pending
  /\ join.stage = "idle"
  /\ pending' = FALSE
  /\ join' = [stage |-> IF joined THEN "idle" ELSE "read", legs |-> state]
  /\ UNCHANGED <<state, iteration, attempts, run, joined, outcome, entered, died>>

\* Mutants: the join waits for one leg; the policy is ignored.
AllTerminalSome(s) == \E l \in Leg : s[l] \in Terminal
SatisfiedByOne(s) == \E l \in Leg : s[l] = "done"

AllTerminal(s) == \A l \in Leg : s[l] \in Terminal
DoneLegs(s) == {l \in Leg : s[l] = "done"}
Satisfied(s) ==
  JoinPolicySatisfied(Policy, Cardinality(DoneLegs(s)), Cardinality(Leg))

\* join.py on its clone: wait for the other legs, or record the outcome.
EvaluateJoin ==
  /\ join.stage = "read"
  /\ \/ /\ ~AllTerminal(join.legs)
        /\ join' = [join EXCEPT !.stage = "idle"]
        /\ UNCHANGED <<joined, outcome>>
     \/ /\ AllTerminal(join.legs)
        /\ joined' = TRUE
        /\ \/ /\ Satisfied(join.legs)
              /\ outcome' = "clear"
              /\ join' = [join EXCEPT !.stage = "signal"]
           \/ /\ ~Satisfied(join.legs)
              /\ outcome' = "gated"
              /\ join' = [join EXCEPT !.stage = "idle"]
  /\ UNCHANGED <<state, iteration, attempts, run, pending, entered, died>>

\* dispatch_continue onto join.next, after the push; the job ends.
FireNext ==
  /\ join.stage = "signal"
  /\ join' = [join EXCEPT !.stage = "idle"]
  /\ entered' = entered + 1
  /\ UNCHANGED <<state, iteration, attempts, run, pending, joined, outcome, died>>

\* A leg's runner dies before or after advance.py's push.
LegDies(l) ==
  /\ run[l] \notin {"over", "dead"}
  /\ run' = [run EXCEPT ![l] = "dead"]
  /\ died' = TRUE
  /\ UNCHANGED <<state, iteration, attempts, pending, join, joined, outcome, entered>>

JoinDies ==
  /\ join.stage # "idle"
  /\ join' = [join EXCEPT !.stage = "idle"]
  /\ died' = TRUE
  /\ UNCHANGED <<state, iteration, attempts, run, pending, joined, outcome, entered>>

LegStep(l) ==
  \/ \E passed \in BOOLEAN : Advance(l, passed)
  \/ Redispatch(l)
  \/ FireJoin(l)

JoinStep == StartJoin \/ EvaluateJoin \/ FireNext

Next ==
  \/ \E l \in Leg : LegStep(l) \/ LegDies(l)
  \/ JoinStep
  \/ JoinDies

Spec == Init /\ [][Next]_vars
FairSpec == Spec /\ WF_vars(JoinStep) /\ \A l \in Leg : WF_vars(LegStep(l))

-----------------------------------------------------------------------------
(* Properties. *)

TypeOK ==
  /\ state \in [Leg -> LegStates]
  /\ iteration \in [Leg -> 1 .. MaxIterations]
  /\ attempts \in [Leg -> Nat]
  /\ run \in [Leg -> Runs]
  /\ pending \in BOOLEAN
  /\ join \in [stage : {"idle", "read", "signal"}, legs : [Leg -> LegStates]]
  /\ joined \in BOOLEAN
  /\ outcome \in {"none", "clear", "gated"}
  /\ entered \in Nat
  /\ died \in BOOLEAN

\* The join waits for every leg, and its outcome is the policy's on the legs'
\* final states, although it was computed on a clone taken earlier.
JoinSound ==
  joined => /\ AllTerminal(state)
            /\ outcome = IF Satisfied(state) THEN "clear" ELSE "gated"

\* The wake-up of the barrier is never lost: once the last leg is terminal and
\* the join has not happened, a dispatch is still to come, a join job is pending,
\* or the running one has seen every leg's final state.
NoLostJoin ==
  ~died /\ Leg # {} /\ AllTerminal(state) /\ ~joined =>
    \/ \E l \in Leg : run[l] = "signal"
    \/ pending
    \/ join.stage = "read" /\ join.legs = state

\* However many joins the legs fire, the state after the join is entered once
\* at most, and only when the policy is met.
EnteredOnce == entered <= 1 /\ (entered = 1 => outcome = "clear")

\* The retry loop is bounded: no leg's agents run more often than
\* max_iterations, and a leg fails only when every attempt has been used.
AttemptsBounded ==
  \A l \in Leg : /\ attempts[l] <= MaxIterations
                 /\ state[l] = "failed" => attempts[l] = MaxIterations

\* What the fan-out promises to the protocol around it.
Contract == INSTANCE Barrier WITH
  Clearing <- {D \in SUBSET Leg :
                 JoinPolicySatisfied(Policy, Cardinality(D), Cardinality(Leg))}
MeetsContract == Contract!Spec

\* When no runner dies, the join happens and a clear one enters what follows.
JoinHappens ==
  Leg # {} => <>(died \/ (joined /\ (outcome = "clear" => entered = 1)))
=============================================================================

---------------------------- MODULE FanOutProofs -----------------------------
(***************************************************************************)
(* Proofs about FanOut, for every set of legs, every bound on iterations   *)
(* and every policy.                                                       *)
(*                                                                         *)
(* The argument.  A leg's file is settled as soon as its run stops         *)
(* retrying, so a clone taken by a join job under-approximates the legs    *)
(* that have ended (SnapshotTrue); a join that sees every leg ended has    *)
(* therefore seen the final states.                                        *)
(***************************************************************************)
EXTENDS FanOut, FiniteSetTheorems, TLAPS

\* A leg's file, its counters and its run move together.
LegInv(l) ==
  /\ run[l] \in {"agent", "retry"} =>
       state[l] = "review" /\ attempts[l] = iteration[l] - 1
  /\ run[l] \in {"signal", "over"} => state[l] \in Terminal
  /\ state[l] = "review" => attempts[l] <= iteration[l] - 1
  /\ attempts[l] <= iteration[l]
  /\ state[l] = "failed" => attempts[l] = MaxIterations

\* What a join job cloned as ended has ended like that.
SnapshotTrue ==
  join.stage = "read" =>
    \A l \in Leg : join.legs[l] \in Terminal => state[l] = join.legs[l]

\* One join records an outcome, and it alone may go on to enter what follows.
JoinOnce ==
  /\ join.stage = "read" => ~joined
  /\ ~joined => outcome = "none" /\ entered = 0
  /\ join.stage = "signal" => outcome = "clear" /\ entered = 0
  /\ entered <= 1
  /\ entered = 1 => outcome = "clear"

IInv ==
  /\ \A l \in Leg : LegInv(l)
  /\ SnapshotTrue
  /\ JoinOnce
  /\ JoinSound

LEMMA TypeInit == Init => TypeOK
<1> SUFFICES ASSUME Init PROVE TypeOK
  OBVIOUS
<1>1. 1 \in 1 .. MaxIterations
  BY MaxAssumption
<1> QED BY <1>1 DEF Init, TypeOK, LegStates, Runs

LEMMA TypeStep == TypeOK /\ [Next]_vars => TypeOK'
<1> SUFFICES ASSUME TypeOK, [Next]_vars PROVE TypeOK'
  OBVIOUS
<1> USE DEF TypeOK, LegStates, Runs, Terminal
<1>1. ASSUME NEW l \in Leg, NEW passed \in BOOLEAN, Advance(l, passed) PROVE TypeOK'
  <2>1. CASE Process(l, passed) = "iterate"
    <3>1. iteration[l] + 1 \in 1 .. MaxIterations
      BY <2>1, MaxAssumption DEF Process
    <3> QED BY <1>1, <2>1, <3>1 DEF Advance
  <2>2. CASE Process(l, passed) # "iterate"
    BY <1>1, <2>2 DEF Advance, Process
  <2> QED BY <2>1, <2>2
<1>2. ASSUME NEW l \in Leg, Redispatch(l) \/ FireJoin(l) \/ LegDies(l) PROVE TypeOK'
  BY <1>2 DEF Redispatch, FireJoin, LegDies
<1>3. CASE StartJoin
  BY <1>3 DEF StartJoin
<1>4. CASE EvaluateJoin
  BY <1>4 DEF EvaluateJoin
<1>5. CASE FireNext
  BY <1>5 DEF FireNext
<1>6. CASE JoinDies
  <2>1. join' \in [stage : {"idle", "read", "signal"}, legs : [Leg -> LegStates]]
    BY <1>6 DEF JoinDies
  <2>2. died' \in BOOLEAN
    BY <1>6 DEF JoinDies
  <2> QED BY <1>6, <2>1, <2>2 DEF JoinDies
<1>7. CASE UNCHANGED vars
  BY <1>7 DEF vars
<1> QED BY <1>1, <1>2, <1>3, <1>4, <1>5, <1>6, <1>7 DEF Next, LegStep, JoinStep

\* Every variable keeps its type; in particular no iteration exceeds the bound.
THEOREM TypeCorrect == Spec => []TypeOK
BY TypeInit, TypeStep, PTL DEF Spec

-----------------------------------------------------------------------------

LEMMA InvInit == Init => IInv
<1> SUFFICES ASSUME Init PROVE IInv
  OBVIOUS
<1>1. \A l \in Leg : LegInv(l)
  BY MaxAssumption DEF Init, LegInv, Terminal
<1> QED BY <1>1 DEF Init, IInv, SnapshotTrue, JoinOnce, JoinSound

\* advance.py on one leg leaves what has been joined or cloned as it is: the leg
\* was still in review.
LEMMA AdvanceInv ==
  ASSUME TypeOK, IInv, NEW l \in Leg, NEW passed \in BOOLEAN, Advance(l, passed)
  PROVE  IInv'
<1>1. /\ run[l] = "agent" /\ state[l] = "review" /\ attempts[l] = iteration[l] - 1
      /\ iteration[l] \in 1 .. MaxIterations /\ MaxIterations \in Nat
  BY MaxAssumption DEF IInv, LegInv, Advance, TypeOK
<1>2. /\ attempts' = [attempts EXCEPT ![l] = @ + 1]
      /\ UNCHANGED <<pending, join, joined, outcome, entered>>
      /\ ~joined
  BY <1>1 DEF Advance, IInv, JoinSound, AllTerminal, Terminal
<1>3. \/ /\ Process(l, passed) = "iterate" /\ iteration[l] < MaxIterations
         /\ iteration' = [iteration EXCEPT ![l] = @ + 1]
         /\ run' = [run EXCEPT ![l] = "retry"]
         /\ state' = state
      \/ /\ Process(l, passed) \in Terminal
         /\ Process(l, passed) = "failed" => iteration[l] = MaxIterations
         /\ state' = [state EXCEPT ![l] = Process(l, passed)]
         /\ run' = [run EXCEPT ![l] = "signal"]
         /\ iteration' = iteration
  BY <1>1 DEF Advance, Process, Terminal
<1>4. LegInv(l)'
  BY <1>1, <1>2, <1>3 DEF LegInv, TypeOK, Terminal
<1>5. ASSUME NEW k \in Leg, k # l PROVE LegInv(k)'
  BY <1>2, <1>3, <1>5 DEF LegInv, TypeOK, IInv
<1>6. SnapshotTrue'
  BY <1>1, <1>2, <1>3 DEF SnapshotTrue, IInv, TypeOK, Terminal
<1>7. JoinOnce' /\ JoinSound'
  BY <1>2 DEF JoinOnce, JoinSound, IInv
<1> QED BY <1>4, <1>5, <1>6, <1>7 DEF IInv

LEMMA RunInv ==
  ASSUME TypeOK, IInv, NEW l \in Leg, Redispatch(l) \/ FireJoin(l) \/ LegDies(l)
  PROVE  IInv'
<1>1. /\ UNCHANGED <<state, iteration, attempts, join, joined, outcome, entered>>
      /\ \/ run[l] = "retry" /\ run' = [run EXCEPT ![l] = "agent"]
         \/ run[l] = "signal" /\ run' = [run EXCEPT ![l] = "over"]
         \/ run' = [run EXCEPT ![l] = "dead"]
  BY DEF Redispatch, FireJoin, LegDies
<1>2. ASSUME NEW k \in Leg PROVE LegInv(k)'
  BY <1>1 DEF LegInv, TypeOK, IInv
<1>3. SnapshotTrue' /\ JoinOnce' /\ JoinSound'
  BY <1>1 DEF SnapshotTrue, JoinOnce, JoinSound, AllTerminal, Satisfied, DoneLegs, IInv
<1> QED BY <1>2, <1>3 DEF IInv

LEMMA JoinInv ==
  ASSUME TypeOK, IInv, JoinStep \/ JoinDies
  PROVE  IInv'
<1>1. UNCHANGED <<state, iteration, attempts, run>>
  BY DEF JoinStep, StartJoin, EvaluateJoin, FireNext, JoinDies
<1>2. \A l \in Leg : LegInv(l)'
  BY <1>1 DEF LegInv, IInv
<1>3. AllTerminal(state)' = AllTerminal(state) /\ Satisfied(state)' = Satisfied(state)
  BY <1>1 DEF AllTerminal, Satisfied, DoneLegs
<1>4. CASE StartJoin
  <2>1. SnapshotTrue'
    BY <1>4 DEF StartJoin, SnapshotTrue
  <2>2. JoinOnce' /\ JoinSound'
    BY <1>3, <1>4 DEF StartJoin, JoinOnce, JoinSound, IInv
  <2> QED BY <1>2, <2>1, <2>2 DEF IInv
<1>5. CASE EvaluateJoin
  <2>1. join'.stage # "read"
    BY <1>5 DEF EvaluateJoin, TypeOK
  <2>2. ~joined /\ outcome = "none" /\ entered = 0
    BY <1>5 DEF EvaluateJoin, IInv, JoinOnce
  <2>3. CASE AllTerminal(join.legs)
    <3>1. \A l \in Leg : join.legs[l] = state[l]
      BY <1>5, <2>3 DEF EvaluateJoin, IInv, SnapshotTrue, AllTerminal
    <3>2. join.legs = state
      BY <3>1 DEF TypeOK
    <3>3. JoinSound' /\ JoinOnce'
      BY <1>3, <1>5, <2>2, <2>3, <3>2 DEF EvaluateJoin, JoinSound, JoinOnce, TypeOK
    <3> QED BY <1>2, <2>1, <3>3 DEF IInv, SnapshotTrue
  <2>4. CASE ~AllTerminal(join.legs)
    BY <1>2, <1>3, <1>5, <2>1, <2>2, <2>4
    DEF EvaluateJoin, IInv, SnapshotTrue, JoinOnce, JoinSound, TypeOK
  <2> QED BY <2>3, <2>4
<1>6. CASE FireNext \/ JoinDies
  BY <1>2, <1>3, <1>6
  DEF FireNext, JoinDies, IInv, SnapshotTrue, JoinOnce, JoinSound, TypeOK
<1> QED BY <1>4, <1>5, <1>6 DEF JoinStep

LEMMA InvStep == TypeOK /\ IInv /\ [Next]_vars => IInv'
<1> SUFFICES ASSUME TypeOK, IInv, [Next]_vars PROVE IInv'
  OBVIOUS
<1>1. CASE UNCHANGED vars
  BY <1>1 DEF vars, IInv, LegInv, SnapshotTrue, JoinOnce, JoinSound, AllTerminal,
              Satisfied, DoneLegs
<1> QED BY <1>1, AdvanceInv, RunInv, JoinInv DEF Next, LegStep

\* In every reachable state of advance.py and join.py the join saw a true snapshot
\* of the legs and has recorded one outcome: the invariant the rest follows from.
THEOREM InvCorrect == Spec => [](TypeOK /\ IInv)
BY TypeInit, TypeStep, InvInit, InvStep, PTL DEF Spec

\* The barrier waits for every leg and judges their final states.
THEOREM JoinIsSound == Spec => []JoinSound
<1>1. IInv => JoinSound
  BY DEF IInv
<1> QED BY <1>1, InvCorrect, PTL

\* What follows the join is entered at most once, and only on a clear outcome.
THEOREM NextEnteredOnce == Spec => []EnteredOnce
<1>1. IInv => EnteredOnce
  BY DEF IInv, JoinOnce, EnteredOnce
<1> QED BY <1>1, InvCorrect, PTL

\* No leg is tried more often than max_iterations.
THEOREM RetriesBounded == Spec => []AttemptsBounded
<1>1. ASSUME TypeOK, IInv, NEW l \in Leg
      PROVE  attempts[l] <= MaxIterations /\ (state[l] = "failed" => attempts[l] = MaxIterations)
  BY <1>1, MaxAssumption DEF TypeOK, IInv, LegInv
<1>2. TypeOK /\ IInv => AttemptsBounded
  BY <1>1 DEF AttemptsBounded
<1> QED BY <1>2, InvCorrect, PTL

-----------------------------------------------------------------------------
(* The wake-up of the barrier. *)

LEMMA NoLostJoinInit == Init => NoLostJoin
BY DEF Init, NoLostJoin, AllTerminal, Terminal

LEMMA NoLostJoinStep == TypeOK /\ IInv /\ NoLostJoin /\ [Next]_vars => NoLostJoin'
<1> SUFFICES ASSUME TypeOK, IInv, NoLostJoin, [Next]_vars, ~died', Leg # {},
                    AllTerminal(state)', ~joined'
             PROVE  \/ \E l \in Leg : run'[l] = "signal"
                    \/ pending'
                    \/ join'.stage = "read" /\ join'.legs = state'
  BY DEF NoLostJoin
<1>1. ASSUME NEW l \in Leg, NEW passed \in BOOLEAN, Advance(l, passed)
      PROVE  run'[l] = "signal"
  <2>1. run[l] = "agent" /\ state[l] = "review"
    BY <1>1 DEF Advance, IInv, LegInv
  <2>2. state'[l] # "review"
    BY DEF AllTerminal, Terminal
  <2> QED BY <1>1, <2>1, <2>2 DEF Advance, TypeOK
<1>2. ASSUME NEW l \in Leg, Redispatch(l) PROVE FALSE
  BY <1>2 DEF Redispatch, IInv, LegInv, AllTerminal, Terminal
<1>3. ASSUME NEW l \in Leg, FireJoin(l) PROVE pending'
  BY <1>3 DEF FireJoin
<1>4. CASE StartJoin
  BY <1>4 DEF StartJoin
<1>5. CASE EvaluateJoin
  <2>1. ~AllTerminal(join.legs) /\ UNCHANGED <<state, run, pending, died>> /\ ~joined
    BY <1>5 DEF EvaluateJoin
  <2>2. join.legs # state
    BY <2>1 DEF AllTerminal
  <2> QED BY <2>1, <2>2 DEF NoLostJoin, AllTerminal
<1>6. CASE FireNext
  BY <1>6 DEF FireNext, IInv, JoinOnce
<1>7. CASE (\E l \in Leg : LegDies(l)) \/ JoinDies
  <2>1. died' = TRUE
    BY <1>7 DEF LegDies, JoinDies
  <2> QED BY <2>1
<1>8. CASE UNCHANGED vars
  BY <1>8 DEF vars, NoLostJoin, AllTerminal
<1> QED BY <1>1, <1>2, <1>3, <1>4, <1>5, <1>6, <1>7, <1>8 DEF Next, LegStep, JoinStep

\* Coalescing join dispatches and evaluating old clones never strand a fan-out
\* whose legs have all ended.
THEOREM JoinNotLost == Spec => []NoLostJoin
BY NoLostJoinInit, NoLostJoinStep, InvCorrect, PTL DEF Spec

-----------------------------------------------------------------------------
(* The fan-out implements the barrier. *)

LEMMA BarrierStep == TypeOK /\ IInv /\ [Next]_vars => [Contract!Next]_(Contract!vars)
<1> SUFFICES ASSUME TypeOK, IInv, [Next]_vars
             PROVE  Contract!Next \/ UNCHANGED Contract!vars
  OBVIOUS
<1>1. ASSUME NEW l \in Leg, NEW passed \in BOOLEAN, Advance(l, passed)
      PROVE  Contract!Next \/ UNCHANGED Contract!vars
  <2>1. state[l] = "review" /\ UNCHANGED <<outcome, entered>>
    BY <1>1 DEF Advance, IInv, LegInv
  <2>2. CASE Process(l, passed) = "iterate"
    BY <1>1, <2>1, <2>2 DEF Advance, Contract!vars
  <2>3. CASE Process(l, passed) # "iterate"
    <3>1. Process(l, passed) \in {"done", "failed"}
      BY <2>3 DEF Process
    <3>2. state' = [state EXCEPT ![l] = Process(l, passed)]
      BY <1>1, <2>3 DEF Advance
    <3> QED BY <2>1, <3>1, <3>2 DEF Contract!Next, Contract!End
  <2> QED BY <2>2, <2>3
<1>2. ASSUME NEW l \in Leg, Redispatch(l) \/ FireJoin(l) \/ LegDies(l)
      PROVE  UNCHANGED Contract!vars
  BY <1>2 DEF Redispatch, FireJoin, LegDies, Contract!vars
<1>3. CASE StartJoin \/ JoinDies
  BY <1>3 DEF StartJoin, JoinDies, Contract!vars
<1>4. CASE EvaluateJoin
  <2>1. outcome = "none" /\ UNCHANGED <<state, entered>>
    BY <1>4 DEF EvaluateJoin, IInv, JoinOnce
  <2>2. CASE ~AllTerminal(join.legs)
    BY <1>4, <2>1, <2>2 DEF EvaluateJoin, Contract!vars
  <2>3. CASE AllTerminal(join.legs)
    <3>1. \A l \in Leg : join.legs[l] = state[l]
      BY <1>4, <2>3 DEF EvaluateJoin, IInv, SnapshotTrue, AllTerminal
    <3>2. join.legs = state
      BY <3>1 DEF TypeOK
    <3>3. Contract!Clear <=> Satisfied(state)
      BY DEF Contract!Clear, Satisfied, DoneLegs
    <3>4. \A l \in Leg : state[l] # "review"
      BY <2>3, <3>2 DEF AllTerminal, Terminal
    <3> QED BY <1>4, <2>1, <2>3, <3>2, <3>3, <3>4
            DEF EvaluateJoin, Contract!Next, Contract!Close
  <2> QED BY <2>2, <2>3
<1>5. CASE FireNext
  <2>1. outcome = "clear" /\ entered = 0 /\ entered' = 1
    BY <1>5 DEF FireNext, IInv, JoinOnce
  <2> QED BY <1>5, <2>1 DEF FireNext, Contract!Next, Contract!Enter
<1>6. CASE UNCHANGED vars
  BY <1>6 DEF vars, Contract!vars
<1> QED BY <1>1, <1>2, <1>3, <1>4, <1>5, <1>6 DEF Next, LegStep, JoinStep

\* Legs, advance.py and join.py together keep the promise of a barrier.
THEOREM FanOutImplementsBarrier == Spec => MeetsContract
<1>1. Init => Contract!Init
  BY DEF Init, Contract!Init
<1> QED BY <1>1, BarrierStep, InvCorrect, PTL DEF Spec, MeetsContract, Contract!Spec
=============================================================================

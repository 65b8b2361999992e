------------------------- MODULE StateBranchProofs --------------------------
(***************************************************************************)
(* Proofs about StateBranch, for every set of jobs, files and contents.    *)
(*                                                                         *)
(* The argument.  Whatever differs between a job's base and origin's tip   *)
(* was put there by commits above that base (TipExplained), so a push whose *)
(* base is the tip's height has the tip as its base, and a rebase that     *)
(* finds a difference finds a commit to blame.  The changes left in a      *)
(* job's commit still sit on the content the job cloned (OnWhatWasRead).   *)
(***************************************************************************)
EXTENDS StateBranch, FiniteSetTheorems, TLAPS

Writing == {"committed", "rejected"}

\* A commit by a job other than j, above the first n, gave f the content c.
Since(j, n, f, c) ==
  \E i \in n+1 .. Len(log) :
    /\ log[i].by # j
    /\ f \in DOMAIN log[i].writes
    /\ log[i].writes[f] = c

\* Only a job whose push succeeded has a commit on the branch.
CommitsAreDone ==
  \A i \in 1 .. Len(log) : pc[log[i].by] = "done"

Heights(j) ==
  /\ start[j] <= Len(log)
  /\ pc[j] \in Writing => start[j] <= at[j] /\ at[j] <= Len(log)

TipExplained(j) ==
  /\ pc[j] = "cloned" =>
       \A f \in File : tree[f] # seen[j][f] => Since(j, start[j], f, tree[f])
  /\ pc[j] \in Writing =>
       \A f \in File : tree[f] # base[j][f] => Since(j, at[j], f, tree[f])

OnWhatWasRead(j) ==
  pc[j] \in Writing =>
    /\ DOMAIN edit[j] \subseteq DOMAIN want[j]
    /\ \A f \in DOMAIN edit[j] :
         /\ edit[j][f] = want[j][f]
         /\ base[j][f] = seen[j][f]
         /\ base[j][f] # edit[j][f]
    /\ \A f \in DOMAIN want[j] \ DOMAIN edit[j] :
         Since(j, start[j], f, want[j][f])

Outcome(j) ==
  /\ pc[j] = "done" =>
       \A f \in DOMAIN want[j] : WrittenSince(j, f, want[j][f])
  /\ pc[j] = "conflict" =>
       \E f \in DOMAIN want[j] : \E i \in start[j]+1 .. Len(log) :
         /\ log[i].by # j
         /\ f \in DOMAIN log[i].writes
         /\ log[i].writes[f] # want[j][f]

JobInv(j) ==
  /\ Heights(j)
  /\ TipExplained(j)
  /\ OnWhatWasRead(j)
  /\ Outcome(j)

IInv ==
  /\ CommitsAreDone
  /\ \A j \in Job : JobInv(j)

-----------------------------------------------------------------------------
(* Facts about the data. *)

LEMMA ChangesType ==
  \A w : w \in Changes <=> (DOMAIN w \subseteq File /\ w \in [DOMAIN w -> Content])
BY DEF Changes

LEMMA LogType ==
  ASSUME TypeOK
  PROVE  /\ Len(log) \in Nat
         /\ \A i \in 1 .. Len(log) :
              log[i] \in Commits /\ log[i].by \in Job /\ log[i].writes \in Changes
<1>1. log \in Seq(Commits)
  BY DEF TypeOK
<1>2. \A i \in 1 .. Len(log) : log[i] \in Commits
  BY <1>1
<1> QED BY <1>1, <1>2 DEF Commits

LEMMA NoWritesType == NoWrites \in Changes /\ DOMAIN NoWrites = {}
BY ChangesType DEF NoWrites

LEMMA EmptyTreeType == EmptyTree \in Trees
BY ContentAssumption DEF EmptyTree, Trees

LEMMA OverwriteType ==
  ASSUME NEW t \in Trees, NEW w \in Changes
  PROVE  Overwrite(t, w) \in Trees
BY ChangesType DEF Overwrite, Trees

-----------------------------------------------------------------------------
(* Type correctness. *)

LEMMA TypeInit == Init => TypeOK
<1> SUFFICES ASSUME Init PROVE TypeOK
  OBVIOUS
<1>1. <<>> \in Seq(Commits)
  OBVIOUS
<1> HIDE DEF Changes, Trees, NoWrites, EmptyTree
<1> QED BY <1>1, NoWritesType, EmptyTreeType DEF Init, TypeOK, Places

LEMMA TypeStep == TypeOK /\ [Next]_vars => TypeOK'
<1> SUFFICES ASSUME TypeOK, [Next]_vars PROVE TypeOK'
  OBVIOUS
<1> USE DEF TypeOK, Places, Ended, Failures, Goto, TakeSnapshot
<1>1. ASSUME NEW j \in Job, Clone(j) PROVE TypeOK'
  BY <1>1 DEF Clone
<1>2. ASSUME NEW j \in Job, ProbeMissing(j) PROVE TypeOK'
  BY <1>2 DEF ProbeMissing
<1>3. ASSUME NEW j \in Job, CreateBranch(j) PROVE TypeOK'
  BY <1>3 DEF CreateBranch
<1>4. ASSUME NEW j \in Job, LoseCreate(j) PROVE TypeOK'
  BY <1>4 DEF LoseCreate
<1>5. ASSUME NEW j \in Job, NEW w \in Changes, EditFiles(j, w) PROVE TypeOK'
  BY <1>5 DEF EditFiles
<1>6. ASSUME NEW j \in Job, RefuseEmpty(j) PROVE TypeOK'
  BY <1>6 DEF RefuseEmpty
<1>7. ASSUME NEW j \in Job, PushAccepted(j) PROVE TypeOK'
  <2>1. Overwrite(base[j], edit[j]) \in Trees
    BY OverwriteType
  <2>2. Append(log, [by |-> j, writes |-> edit[j]])
          \in Seq(Commits)
    BY DEF Commits
  <2> QED BY <1>7, <2>1, <2>2 DEF PushAccepted
<1>8. ASSUME NEW j \in Job, PushRejected(j) PROVE TypeOK'
  BY <1>8 DEF PushRejected
<1>9. ASSUME NEW j \in Job, Rebase(j) PROVE TypeOK'
  <2>1. Kept(j) \in Changes
    BY ChangesType DEF Kept
  <2> QED BY <1>9, <2>1 DEF Rebase
<1>10. ASSUME NEW j \in Job, RebaseConflict(j) PROVE TypeOK'
  BY <1>10 DEF RebaseConflict
<1>11. ASSUME NEW j \in Job, Die(j) PROVE TypeOK'
  BY <1>11 DEF Die
<1>12. CASE UNCHANGED vars
  BY <1>12 DEF vars
<1> QED
  BY <1>1, <1>2, <1>3, <1>4, <1>5, <1>6, <1>7, <1>8, <1>9, <1>10, <1>11, <1>12
  DEF Next, Run, Checkout, CasPush, Finished

\* Every variable of the state branch and of its writers keeps its type.
THEOREM TypeCorrect == Spec => []TypeOK
BY TypeInit, TypeStep, PTL DEF Spec

-----------------------------------------------------------------------------
(* The inductive invariant. *)

LEMMA InvInit == Init => IInv
<1> SUFFICES ASSUME Init PROVE IInv
  OBVIOUS
<1>1. log = <<>> /\ Len(log) = 0
  BY DEF Init
<1>2. \A j \in Job : pc[j] = "idle" /\ start[j] = 0
  BY DEF Init
<1> QED
  BY <1>1, <1>2 DEF IInv, CommitsAreDone, JobInv, Heights,
                    TipExplained, OnWhatWasRead, Outcome, Writing

\* Nothing that concerns job j changes when another job works in its own clone.
LEMMA Unaffected ==
  ASSUME NEW j \in Job, JobInv(j), tree' = tree, log' = log,
         pc'[j] = pc[j], start'[j] = start[j], seen'[j] = seen[j],
         want'[j] = want[j], at'[j] = at[j], base'[j] = base[j],
         edit'[j] = edit[j]
  PROVE  JobInv(j)'
BY DEF JobInv, Heights, TipExplained, OnWhatWasRead, Outcome, Since,
       WrittenSince, Writing

\* What a commit by k explains, and that it takes no explanation away.
LEMMA AppendSince ==
  ASSUME TypeOK, NEW j \in Job, NEW k \in Job, NEW w \in Changes, j # k,
         log' = Append(log, [by |-> k, writes |-> w]),
         NEW n \in Nat, n <= Len(log), NEW f, NEW c
  PROVE  /\ Since(j, n, f, c) => Since(j, n, f, c)'
         /\ (f \in DOMAIN w /\ w[f] = c) => Since(j, n, f, c)'
<1> DEFINE e == [by |-> k, writes |-> w]
<1>1. Len(log') = Len(log) + 1 /\ log'[Len(log) + 1] = e
  BY DEF TypeOK
<1>2. \A i \in 1 .. Len(log) : log'[i] = log[i]
  BY DEF TypeOK
<1>3. Len(log) \in Nat
  BY DEF TypeOK
<1>4. ASSUME Since(j, n, f, c) PROVE Since(j, n, f, c)'
  <2>1. PICK i \in n+1 .. Len(log) : /\ log[i].by # j
                                    /\ f \in DOMAIN log[i].writes
                                    /\ log[i].writes[f] = c
    BY <1>4 DEF Since
  <2>2. i \in 1 .. Len(log) /\ i \in n+1 .. Len(log')
    BY <1>1, <1>3, <2>1
  <2> QED BY <1>2, <2>1, <2>2 DEF Since
<1>5. ASSUME f \in DOMAIN w, w[f] = c PROVE Since(j, n, f, c)'
  <2>1. Len(log) + 1 \in n+1 .. Len(log')
    BY <1>1, <1>3
  <2> QED BY <1>1, <1>5, <2>1 DEF Since
<1> QED BY <1>4, <1>5

\* A job whose commit is based on as many commits as origin has, has origin's
\* tip as its base.
LEMMA BaseIsTip ==
  ASSUME TypeOK, NEW j \in Job, JobInv(j), pc[j] = "committed", at[j] = Len(log)
  PROVE  base[j] = tree
<1>1. \A f \in File : ~Since(j, at[j], f, tree[f])
  BY DEF TypeOK, Since
<1>2. \A f \in File : base[j][f] = tree[f]
  BY <1>1 DEF JobInv, TipExplained, Writing
<1> QED BY <1>2 DEF TypeOK, Trees

\* A successful push by k leaves the other jobs' invariants intact.
LEMMA PushKeepsOthers ==
  ASSUME TypeOK, NEW k \in Job, NEW j \in Job, j # k, JobInv(k), JobInv(j),
         PushAccepted(k)
  PROVE  JobInv(j)'
<1>0. /\ pc'[j] = pc[j] /\ start' = start /\ seen' = seen /\ want' = want
      /\ at' = at /\ base' = base /\ edit' = edit
  BY DEF PushAccepted, Goto, TypeOK
<1>1. CASE DOMAIN edit[k] = {}
  BY <1>0, <1>1, Unaffected DEF PushAccepted
<1>2. CASE DOMAIN edit[k] # {}
  <2>1. /\ log' = Append(log, [by |-> k, writes |-> edit[k]])
        /\ tree' = Overwrite(base[k], edit[k])
        /\ base[k] = tree
    BY <1>2, BaseIsTip DEF PushAccepted
  <2>2. edit[k] \in Changes /\ start[j] \in Nat /\ at[j] \in Nat /\ Len(log) \in Nat
    BY DEF TypeOK
  <2>3. start[j] <= Len(log) /\ (pc[j] \in Writing => at[j] <= Len(log))
    BY DEF JobInv, Heights
  <2>4. Len(log') = Len(log) + 1 /\ \A i \in 1 .. Len(log) : log'[i] = log[i]
    BY <2>1, <2>2 DEF TypeOK
  <2>5. ASSUME NEW n \in Nat, n <= Len(log), NEW f \in File, NEW c, NEW d,
               c = tree'[f], c # d, tree[f] # d => Since(j, n, f, tree[f])
        PROVE  Since(j, n, f, c)'
    <3>1. CASE f \in DOMAIN edit[k]
      <4>1. edit[k][f] = c
        BY <2>1, <2>5, <3>1 DEF Overwrite
      <4> QED BY <2>1, <2>2, <2>5, <3>1, <4>1, AppendSince
    <3>2. CASE f \notin DOMAIN edit[k]
      <4>1. tree[f] = c
        BY <2>1, <2>5, <3>2 DEF Overwrite
      <4>2. Since(j, n, f, c)
        BY <2>5, <4>1
      <4> QED BY <2>1, <2>2, <2>5, <4>2, AppendSince
    <3> QED BY <3>1, <3>2
  <2>6. Heights(j)'
    BY <1>0, <2>2, <2>3, <2>4 DEF JobInv, Heights
  <2>7. TipExplained(j)'
    <3>1. ASSUME pc[j] = "cloned", NEW f \in File, tree'[f] # seen[j][f]
          PROVE  Since(j, start[j], f, tree[f])'
      <4>1. tree[f] # seen[j][f] => Since(j, start[j], f, tree[f])
        BY <3>1 DEF JobInv, TipExplained
      <4>2. \E n, c, d : n = start[j] /\ c = tree'[f] /\ d = seen[j][f]
        OBVIOUS
      <4>3. PICK n, c, d : n = start[j] /\ c = tree'[f] /\ d = seen[j][f]
        BY <4>2
      <4>4. Since(j, n, f, c)'
        BY <2>2, <2>3, <2>5, <3>1, <4>1, <4>3
      <4> QED BY <1>0, <4>3, <4>4 DEF Since
    <3>2. ASSUME pc[j] \in Writing, NEW f \in File, tree'[f] # base[j][f]
          PROVE  Since(j, at[j], f, tree[f])'
      <4>1. tree[f] # base[j][f] => Since(j, at[j], f, tree[f])
        BY <3>2 DEF JobInv, TipExplained
      <4>2. \E n, c, d : n = at[j] /\ c = tree'[f] /\ d = base[j][f]
        OBVIOUS
      <4>3. PICK n, c, d : n = at[j] /\ c = tree'[f] /\ d = base[j][f]
        BY <4>2
      <4>4. Since(j, n, f, c)'
        BY <2>2, <2>3, <2>5, <3>2, <4>1, <4>3
      <4> QED BY <1>0, <4>3, <4>4 DEF Since
    <3> QED BY <1>0, <3>1, <3>2 DEF TipExplained
  <2>8. OnWhatWasRead(j)'
    BY <1>0, <2>1, <2>2, <2>3, AppendSince DEF JobInv, OnWhatWasRead, Since
  <2>9. Outcome(j)'
    BY <1>0, <2>2, <2>3, <2>4 DEF JobInv, Outcome, WrittenSince
  <2> QED BY <2>6, <2>7, <2>8, <2>9 DEF JobInv
<1> QED BY <1>1, <1>2

\* What holds of every step that only touches the clone of job k.
LocalStep(k) ==
  /\ UNCHANGED <<tree, log>>
  /\ pc[k] # "done"
  /\ \A j \in Job \ {k} :
       /\ pc'[j] = pc[j] /\ start'[j] = start[j] /\ seen'[j] = seen[j]
       /\ want'[j] = want[j] /\ at'[j] = at[j] /\ base'[j] = base[j]
       /\ edit'[j] = edit[j]

LEMMA LocalStepInv ==
  ASSUME TypeOK, IInv, NEW k \in Job, LocalStep(k), JobInv(k)'
  PROVE  IInv'
<1>1. CommitsAreDone'
  <2>1. \A i \in 1 .. Len(log) : log[i].by \in Job
    BY LogType
  <2>2. \A i \in 1 .. Len(log) : log[i].by \in Job /\ log[i].by # k
    BY <2>1 DEF IInv, CommitsAreDone, LocalStep
  <2> QED BY <2>2 DEF IInv, CommitsAreDone, LocalStep
<1>3. ASSUME NEW j \in Job PROVE JobInv(j)'
  <2>1. CASE j = k
    BY <2>1
  <2>2. CASE j # k
    BY <2>2, Unaffected DEF IInv, LocalStep
  <2> QED BY <2>1, <2>2
<1> QED BY <1>1, <1>3 DEF IInv

LEMMA CheckoutInv ==
  ASSUME TypeOK, IInv, NEW k \in Job, Checkout(k)
  PROVE  IInv'
<1>1. JobInv(k)
  BY DEF IInv
<1>2. ASSUME Clone(k) \/ CreateBranch(k) PROVE IInv'
  <2>1. /\ pc[k] # "done" /\ pc'[k] = "cloned"
        /\ start'[k] = Len(log) /\ seen'[k] = tree
    BY <1>2 DEF Clone, CreateBranch, TakeSnapshot, Goto, TypeOK
  <2>2. LocalStep(k)
    BY <1>2, <2>1 DEF LocalStep, Clone, CreateBranch, TakeSnapshot, Goto, TypeOK
  <2>3. Len(log) \in Nat
    BY DEF TypeOK
  <2>4. JobInv(k)'
    BY <2>1, <2>2, <2>3
    DEF LocalStep, JobInv, Heights, TipExplained, OnWhatWasRead, Outcome, Writing
  <2> QED BY <2>2, <2>4, LocalStepInv
<1>3. ASSUME ProbeMissing(k) \/ LoseCreate(k) PROVE IInv'
  <2>1. /\ pc[k] # "done" /\ pc'[k] \in {"creating", "lost_create"}
        /\ start'[k] = start[k]
    BY <1>3 DEF ProbeMissing, LoseCreate, Goto, TypeOK
  <2>2. LocalStep(k)
    BY <1>3, <2>1 DEF LocalStep, ProbeMissing, LoseCreate, Goto, TypeOK
  <2>3. JobInv(k)'
    BY <1>1, <2>1, <2>2
    DEF LocalStep, JobInv, Heights, TipExplained, OnWhatWasRead, Outcome, Writing
  <2> QED BY <2>2, <2>3, LocalStepInv
<1> QED BY <1>2, <1>3 DEF Checkout

LEMMA EditInv ==
  ASSUME TypeOK, IInv, NEW k \in Job, NEW w \in Changes, EditFiles(k, w)
  PROVE  IInv'
<1>1. JobInv(k) /\ CommitsAreDone
  BY DEF IInv
<1>2. /\ pc[k] = "cloned" /\ pc'[k] = "committed"
      /\ start' = start /\ seen' = seen /\ tree' = tree /\ log' = log
      /\ want'[k] = w /\ edit'[k] = w /\ base'[k] = seen[k] /\ at'[k] = start[k]
  BY DEF EditFiles, Goto, TypeOK
<1>3. LocalStep(k)
  BY <1>2 DEF LocalStep, EditFiles, Goto, TypeOK
<1>4. start[k] <= Len(log) /\ start[k] \in Nat
  BY <1>1 DEF JobInv, Heights, TypeOK
<1>5. \A f \in DOMAIN w : w[f] # seen[k][f]
  BY DEF EditFiles
<1>8. Heights(k)' /\ Outcome(k)'
  BY <1>2, <1>4 DEF Heights, Outcome, Writing
<1>9. OnWhatWasRead(k)'
  BY <1>2, <1>5 DEF OnWhatWasRead
<1>6. TipExplained(k)'
  BY <1>1, <1>2 DEF JobInv, TipExplained, Since, Writing
<1>7. JobInv(k)'
  BY <1>6, <1>8, <1>9 DEF JobInv
<1> QED BY <1>3, <1>7, LocalStepInv

LEMMA StopInv ==
  ASSUME TypeOK, IInv, NEW k \in Job,
         RefuseEmpty(k) \/ PushRejected(k) \/ Die(k)
  PROVE  IInv'
<1>1. JobInv(k)
  BY DEF IInv
<1>2. /\ pc[k] # "done" /\ start' = start /\ seen' = seen /\ want' = want
      /\ at' = at /\ base' = base /\ edit' = edit
      /\ \/ pc'[k] \in {"empty", "dead"}
         \/ pc[k] = "committed" /\ pc'[k] = "rejected"
  BY DEF RefuseEmpty, PushRejected, Die, Goto, TypeOK, Ended
<1>3. LocalStep(k)
  BY <1>2 DEF LocalStep, RefuseEmpty, PushRejected, Die, Goto, TypeOK
<1>4. JobInv(k)'
  BY <1>1, <1>2, <1>3
  DEF LocalStep, JobInv, Heights, TipExplained, OnWhatWasRead, Outcome, Writing,
      Since
<1> QED BY <1>3, <1>4, LocalStepInv

LEMMA RebaseInv ==
  ASSUME TypeOK, IInv, NEW k \in Job, Rebase(k) \/ RebaseConflict(k)
  PROVE  IInv'
<1>1. JobInv(k)
  BY DEF IInv
<1>2. /\ pc[k] = "rejected" /\ start' = start /\ seen' = seen /\ want' = want
      /\ tree' = tree /\ log' = log
  BY DEF Rebase, RebaseConflict
<1>3. LocalStep(k)
  BY <1>2 DEF LocalStep, Rebase, RebaseConflict, Goto, TypeOK
<1>4. /\ start[k] \in Nat /\ at[k] \in Nat /\ Len(log) \in Nat
      /\ start[k] <= at[k] /\ at[k] <= Len(log)
  BY <1>1, <1>2 DEF TypeOK, JobInv, Heights, Writing
<1>5. \A f \in DOMAIN edit[k] : f \in File /\ f \in DOMAIN want[k]
                               /\ edit[k][f] = want[k][f]
                               /\ base[k][f] = seen[k][f]
  <2>1. DOMAIN edit[k] \subseteq File
    BY ChangesType DEF TypeOK
  <2> QED BY <1>1, <1>2, <2>1 DEF JobInv, OnWhatWasRead, Writing
<1>6. \A f \in File : tree[f] # base[k][f] => Since(k, start[k], f, tree[f])
  BY <1>1, <1>2, <1>4 DEF JobInv, TipExplained, Writing, Since
<1>7. CASE Rebase(k)
  <2>1. pc'[k] = "committed" \/ pc'[k] = "exhausted"
    BY <1>7 DEF Rebase, Goto, TypeOK
  <2>2. base'[k] = tree /\ at'[k] = Len(log) /\ edit'[k] = Kept(k)
    BY <1>7 DEF Rebase, TypeOK
  <2>3. \A f \in DOMAIN edit[k] : tree[f] = base[k][f] \/ tree[f] = edit[k][f]
    BY <1>7 DEF Rebase, Conflicting
  <2>4. DOMAIN Kept(k) = {f \in DOMAIN edit[k] : tree[f] # edit[k][f]}
    BY DEF Kept
  <2>5. \A f \in DOMAIN Kept(k) :
          Kept(k)[f] = want[k][f] /\ tree[f] = seen[k][f] /\ tree[f] # Kept(k)[f]
    BY <1>5, <2>3, <2>4 DEF Kept
  <2>6. \A f \in DOMAIN want[k] \ DOMAIN Kept(k) : Since(k, start[k], f, want[k][f])
    <3>1. ASSUME NEW f \in DOMAIN want[k], f \notin DOMAIN edit[k]
          PROVE  Since(k, start[k], f, want[k][f])
      BY <1>1, <1>2, <3>1 DEF JobInv, OnWhatWasRead, Writing
    <3>2. ASSUME NEW f \in DOMAIN edit[k], tree[f] = edit[k][f]
          PROVE  Since(k, start[k], f, want[k][f])
      <4>1. tree[f] # base[k][f] => Since(k, start[k], f, want[k][f])
        BY <1>5, <1>6, <3>2
      <4>2. tree[f] # base[k][f]
        BY <1>1, <1>2, <3>2 DEF JobInv, OnWhatWasRead, Writing
      <4> QED BY <4>1, <4>2
    <3> QED BY <2>4, <3>1, <3>2
  <2>7. Heights(k)' /\ Outcome(k)'
    BY <1>2, <1>4, <2>1, <2>2 DEF Heights, Outcome, Writing
  <2>8. TipExplained(k)'
    BY <1>2, <2>1, <2>2 DEF TipExplained, Writing
  <2>9. OnWhatWasRead(k)'
    <3>1. DOMAIN Kept(k) \subseteq DOMAIN want[k]
      BY <1>5, <2>4
    <3>2. \A f \in DOMAIN want[k] \ DOMAIN Kept(k) :
            Since(k, start[k], f, want[k][f])'
      BY <1>2, <2>6 DEF Since
    <3> QED BY <1>2, <2>2, <2>5, <3>1, <3>2 DEF OnWhatWasRead
  <2> QED BY <1>3, <2>7, <2>8, <2>9, LocalStepInv DEF JobInv
<1>8. CASE RebaseConflict(k)
  <2>1. pc'[k] = "conflict"
    BY <1>8 DEF RebaseConflict, Goto, TypeOK
  <2>2. PICK f \in DOMAIN edit[k] : tree[f] # base[k][f] /\ tree[f] # edit[k][f]
    BY <1>8 DEF RebaseConflict, Conflicting
  <2>3. Since(k, start[k], f, tree[f]) /\ tree[f] # want[k][f] /\ f \in DOMAIN want[k]
    BY <1>5, <1>6, <2>2
  <2>4. Outcome(k)'
    BY <1>2, <2>1, <2>3 DEF Outcome, Since
  <2>5. Heights(k)' /\ TipExplained(k)' /\ OnWhatWasRead(k)'
    BY <1>2, <1>4, <2>1 DEF Heights, TipExplained, OnWhatWasRead, Writing
  <2> QED BY <1>3, <2>4, <2>5, LocalStepInv DEF JobInv
<1> QED BY <1>7, <1>8

LEMMA PushAcceptedInv ==
  ASSUME TypeOK, IInv, NEW k \in Job, PushAccepted(k)
  PROVE  IInv'
<1>1. JobInv(k) /\ CommitsAreDone
  BY DEF IInv
<1>2. /\ pc[k] = "committed" /\ at[k] = Len(log)
      /\ pc' = [pc EXCEPT ![k] = "done"]
      /\ start' = start /\ want' = want
  BY DEF PushAccepted, Goto
<1>3. pc'[k] = "done" /\ \A j \in Job \ {k} : pc'[j] = pc[j]
  BY <1>2 DEF TypeOK
<1>4. /\ start[k] \in Nat /\ Len(log) \in Nat /\ start[k] <= Len(log)
  BY <1>1 DEF TypeOK, JobInv, Heights
<1>5. /\ \A f \in DOMAIN edit[k] : edit[k][f] = want[k][f]
      /\ \A f \in DOMAIN want[k] \ DOMAIN edit[k] : Since(k, start[k], f, want[k][f])
  BY <1>1, <1>2 DEF JobInv, OnWhatWasRead, Writing
<1>6. /\ CommitsAreDone'
      /\ Len(log') \in Nat /\ Len(log) <= Len(log')
      /\ \A i \in 1 .. Len(log) : log'[i] = log[i]
      /\ DOMAIN edit[k] # {} => /\ Len(log') = Len(log) + 1
                               /\ log'[Len(log')].writes = edit[k]
  <2>1. CASE DOMAIN edit[k] = {}
    <3>1. log' = log
      BY <2>1 DEF PushAccepted
    <3>2. \A i \in 1 .. Len(log) : pc'[log[i].by] = "done"
      BY <1>1, <1>3, LogType DEF CommitsAreDone
    <3> QED BY <1>4, <2>1, <3>1, <3>2 DEF CommitsAreDone
  <2>2. CASE DOMAIN edit[k] # {}
    <3> DEFINE e == [by |-> k, writes |-> edit[k]]
    <3>1. log' = Append(log, e)
      BY <2>2 DEF PushAccepted
    <3>2. Len(log') = Len(log) + 1 /\ log'[Len(log')] = e
      BY <3>1 DEF TypeOK
    <3>3. \A i \in 1 .. Len(log) : log'[i] = log[i]
      BY <3>1 DEF TypeOK
    <3>4. \A i \in 1 .. Len(log) : pc'[log'[i].by] = "done"
      BY <1>1, <1>3, <3>3, LogType DEF CommitsAreDone
    <3>5. \A i \in 1 .. Len(log') : i \in 1 .. Len(log) \/ i = Len(log')
      BY <1>4, <3>2
    <3>6. CommitsAreDone'
      BY <1>3, <3>2, <3>4, <3>5 DEF CommitsAreDone
    <3> QED BY <1>4, <3>2, <3>3, <3>6
  <2> QED BY <2>1, <2>2
<1>8. JobInv(k)'
  <2>1. ASSUME NEW f \in DOMAIN want[k]
        PROVE  WrittenSince(k, f, want[k][f])'
    <3>1. CASE f \in DOMAIN edit[k]
      <4>1. Len(log') \in start[k]+1 .. Len(log')
        BY <1>4, <1>6, <3>1
      <4> QED BY <1>2, <1>5, <1>6, <3>1, <4>1 DEF WrittenSince
    <3>2. CASE f \notin DOMAIN edit[k]
      <4>1. PICK i \in start[k]+1 .. Len(log) :
              f \in DOMAIN log[i].writes /\ log[i].writes[f] = want[k][f]
        BY <1>5, <3>2 DEF Since
      <4>2. i \in 1 .. Len(log) /\ i \in start[k]+1 .. Len(log')
        BY <1>4, <1>6
      <4> QED BY <1>2, <1>6, <4>1, <4>2 DEF WrittenSince
    <3> QED BY <3>1, <3>2
  <2>2. Outcome(k)'
    BY <1>2, <1>3, <2>1 DEF Outcome
  <2>3. Heights(k)' /\ TipExplained(k)' /\ OnWhatWasRead(k)'
    BY <1>2, <1>3, <1>4, <1>6 DEF Heights, TipExplained, OnWhatWasRead, Writing
  <2> QED BY <2>2, <2>3 DEF JobInv
<1>9. ASSUME NEW j \in Job PROVE JobInv(j)'
  BY <1>1, <1>8, PushKeepsOthers DEF IInv
<1> QED BY <1>6, <1>9 DEF IInv

LEMMA InvStep == TypeOK /\ IInv /\ [Next]_vars => IInv'
<1> SUFFICES ASSUME TypeOK, IInv, [Next]_vars PROVE IInv'
  OBVIOUS
<1>1. ASSUME NEW k \in Job, Run(k) PROVE IInv'
  BY <1>1, CheckoutInv, EditInv, StopInv, RebaseInv, PushAcceptedInv
  DEF Run, CasPush
<1>2. ASSUME NEW k \in Job, Die(k) PROVE IInv'
  BY <1>2, StopInv
<1>3. CASE UNCHANGED vars
  <2>1. \A j \in Job : JobInv(j)'
    BY <1>3, Unaffected DEF vars, IInv
  <2> QED BY <1>3, <2>1 DEF vars, IInv, CommitsAreDone
<1> QED BY <1>1, <1>2, <1>3 DEF Next, Finished

\* In every reachable state of the cas_push loop each job's commit is its edits
\* rebased on a prefix of the log: the invariant the rest follows from.
THEOREM InvCorrect == Spec => [](TypeOK /\ IInv)
BY TypeInit, TypeStep, InvInit, InvStep, PTL DEF Spec

\* Success of cas_push means each change is on the branch.
THEOREM SuccessIsWritten == Spec => []SuccessMeansWritten
<1>1. IInv => SuccessMeansWritten
  BY DEF IInv, JobInv, Outcome, SuccessMeansWritten
<1> QED BY <1>1, InvCorrect, PTL

\* Every rebase conflict has a commit by another job to blame.
THEOREM ConflictIsCaused == Spec => []ConflictHasCause
<1>1. IInv => ConflictHasCause
  BY DEF IInv, JobInv, Outcome, ConflictHasCause
<1> QED BY <1>1, InvCorrect, PTL

\* Only its own accepted push takes a job from "committed" to "done".
LEMMA OnlyPushLands ==
  ASSUME TypeOK, [Next]_vars, NEW j \in Job, pc[j] # "done", pc'[j] = "done"
  PROVE  PushAccepted(j)
BY DEF TypeOK, Next, Run, Checkout, CasPush, Clone, ProbeMissing, CreateBranch,
       LoseCreate, EditFiles, RefuseEmpty, PushAccepted, PushRejected, Rebase,
       RebaseConflict, Die, Finished, Goto, vars

\* A push that lands replaces only content its job has read, by what the job
\* computed from it.
THEOREM NoLostUpdate == Spec => FirstCommitterWins
<1> DEFINE FCW(j) == pc[j] = "committed" /\ pc'[j] = "done" =>
                       \A f \in File : tree'[f] # tree[f] =>
                          /\ f \in DOMAIN want[j]
                          /\ tree[f] = seen[j][f]
                          /\ tree'[f] = want[j][f]
<1>1. ASSUME TypeOK, IInv, [Next]_vars, NEW j \in Job,
             pc[j] = "committed", pc'[j] = "done", NEW f \in File, tree'[f] # tree[f]
      PROVE  /\ f \in DOMAIN want[j]
             /\ tree[f] = seen[j][f]
             /\ tree'[f] = want[j][f]
  <2>1. PushAccepted(j) /\ JobInv(j)
    BY <1>1, OnlyPushLands DEF IInv
  <2>2. tree' = Overwrite(base[j], edit[j]) /\ base[j] = tree
    BY <1>1, <2>1, BaseIsTip DEF PushAccepted
  <2>3. f \in DOMAIN edit[j] /\ tree'[f] = edit[j][f]
    BY <1>1, <2>2 DEF Overwrite
  <2> QED BY <1>1, <2>1, <2>2, <2>3 DEF JobInv, OnWhatWasRead, Writing
<1>2. TypeOK /\ IInv /\ [Next]_vars => [\A j \in Job : FCW(j)]_vars
  BY <1>1
<1> HIDE DEF FCW
<1>3. Spec => [][\A j \in Job : FCW(j)]_vars
  BY <1>2, InvCorrect, PTL DEF Spec
<1> QED BY <1>3 DEF FirstCommitterWins, FCW

-----------------------------------------------------------------------------
(* How many rejections a job can see: each has a successful push behind it. *)

CountInv ==
  /\ Len(log) <= Cardinality(Done)
  /\ \A j \in Job :
       /\ pc[j] \in {"idle", "creating", "cloned"} => tries[j] = 0
       /\ pc[j] = "committed" => tries[j] <= at[j]
       /\ pc[j] = "rejected" => tries[j] <= Len(log)
       /\ pc[j] = "exhausted" => Cardinality(Done) >= Attempts

LEMMA DoneFinite == IsFiniteSet(Done) /\ Cardinality(Done) \in Nat
BY JobAssumption, FS_Subset, FS_CardinalityType DEF Done

LEMMA CountInit == Init => CountInv
BY DoneFinite DEF Init, CountInv

LEMMA CountPush ==
  ASSUME TypeOK, IInv, CountInv, NEW k \in Job, PushAccepted(k)
  PROVE  CountInv'
<1>1. pc[k] = "committed" /\ pc' = [pc EXCEPT ![k] = "done"]
      /\ tries' = tries /\ at' = at
  BY DEF PushAccepted, Goto
<1>2. Done' = Done \union {k} /\ k \notin Done
  BY <1>1 DEF Done, TypeOK
<1>3. Cardinality(Done') = Cardinality(Done) + 1
  BY <1>2, DoneFinite, FS_AddElement
<1>4. Len(log') \in Nat /\ Len(log) <= Len(log') /\ Len(log') <= Len(log) + 1
  BY DEF PushAccepted, TypeOK
<1>5. \A j \in Job : tries[j] \in Nat /\ at[j] \in Nat
  BY DEF TypeOK
<1>6. Len(log) \in Nat /\ Attempts \in Nat
  BY AttemptsAssumption DEF TypeOK
<1> QED BY <1>1, <1>3, <1>4, <1>5, <1>6, DoneFinite DEF CountInv, TypeOK

LEMMA CountLocal ==
  ASSUME TypeOK, IInv, CountInv, log' = log, Done' = Done, NEW k \in Job,
         \A j \in Job \ {k} : pc'[j] = pc[j] /\ tries'[j] = tries[j] /\ at'[j] = at[j],
         /\ pc'[k] \in {"idle", "creating", "cloned"} => tries'[k] = 0
         /\ pc'[k] = "committed" => tries'[k] <= at'[k]
         /\ pc'[k] = "rejected" => tries'[k] <= Len(log)
         /\ pc'[k] = "exhausted" => Cardinality(Done) >= Attempts
  PROVE  CountInv'
BY DEF CountInv

LEMMA CountStep == TypeOK /\ IInv /\ CountInv /\ [Next]_vars => CountInv'
<1> SUFFICES ASSUME TypeOK, IInv, CountInv, [Next]_vars PROVE CountInv'
  OBVIOUS
<1>0. /\ \A j \in Job : tries[j] \in Nat /\ at[j] \in Nat /\ start[j] \in Nat
      /\ Len(log) \in Nat /\ Attempts \in Nat /\ Cardinality(Done) \in Nat
  BY AttemptsAssumption, DoneFinite DEF TypeOK
<1>1. ASSUME NEW k \in Job, Checkout(k) \/ RefuseEmpty(k) \/ Die(k) \/ RebaseConflict(k)
      PROVE  CountInv'
  <2>1. /\ log' = log /\ tries' = tries /\ at' = at /\ pc[k] # "done"
        /\ \/ pc'[k] \in {"lost_create", "empty", "dead", "conflict"}
           \/ pc'[k] \in {"creating", "cloned"} /\ pc[k] \in {"idle", "creating"}
        /\ \A j \in Job \ {k} : pc'[j] = pc[j]
    BY <1>1 DEF Checkout, Clone, ProbeMissing, CreateBranch, LoseCreate, RefuseEmpty,
                Die, RebaseConflict, TakeSnapshot, Goto, TypeOK, Ended
  <2>2. Done' = Done
    BY <2>1 DEF Done
  <2> QED BY <2>1, <2>2, CountLocal DEF CountInv
<1>2. ASSUME NEW k \in Job, NEW w \in Changes, EditFiles(k, w) PROVE CountInv'
  <2>1. /\ log' = log /\ tries' = tries /\ pc[k] = "cloned" /\ pc'[k] = "committed"
        /\ at'[k] \in Nat
        /\ \A j \in Job \ {k} : pc'[j] = pc[j] /\ at'[j] = at[j]
    BY <1>0, <1>2 DEF EditFiles, Goto, TypeOK
  <2>2. Done' = Done
    BY <2>1 DEF Done
  <2> QED BY <2>1, <2>2, CountLocal DEF CountInv
<1>3. ASSUME NEW k \in Job, PushRejected(k) PROVE CountInv'
  <2>1. /\ log' = log /\ pc[k] = "committed" /\ pc'[k] = "rejected"
        /\ tries'[k] = tries[k] + 1 /\ at[k] # Len(log)
        /\ \A j \in Job \ {k} : pc'[j] = pc[j] /\ at'[j] = at[j] /\ tries'[j] = tries[j]
    BY <1>3 DEF PushRejected, Goto, TypeOK
  <2>2. Done' = Done
    BY <2>1 DEF Done
  <2>3. tries[k] <= at[k] /\ at[k] <= Len(log)
    BY <2>1 DEF CountInv, IInv, JobInv, Heights, Writing
  <2>4. tries'[k] <= Len(log)
    BY <1>0, <2>1, <2>3
  <2> QED BY <2>1, <2>2, <2>4, CountLocal
<1>4. ASSUME NEW k \in Job, Rebase(k) PROVE CountInv'
  <2>1. /\ log' = log /\ pc[k] = "rejected" /\ tries' = tries
        /\ pc'[k] \in {"committed", "exhausted"}
        /\ pc'[k] = "exhausted" => ~(tries[k] < Attempts)
        /\ at'[k] = Len(log)
        /\ \A j \in Job \ {k} : pc'[j] = pc[j] /\ at'[j] = at[j]
    BY <1>4 DEF Rebase, Goto, TypeOK
  <2>2. Done' = Done
    BY <2>1 DEF Done
  <2>3. tries[k] <= Len(log) /\ Len(log) <= Cardinality(Done)
    BY <2>1 DEF CountInv
  <2>4. pc'[k] = "exhausted" => Cardinality(Done) >= Attempts
    BY <1>0, <2>1, <2>3
  <2> QED BY <2>1, <2>2, <2>3, <2>4, CountLocal
<1>5. CASE UNCHANGED vars
  BY <1>5 DEF vars, CountInv, Done
<1> QED BY <1>1, <1>2, <1>3, <1>4, <1>5, CountPush DEF Next, Run, CasPush, Finished

\* cas_push gives up only after as many successful pushes by others as it has
\* attempts.
THEOREM ExhaustionIsCaused == Spec => []ExhaustionHasCause
<1>1. CountInv => ExhaustionHasCause
  BY DEF CountInv, ExhaustionHasCause
<1> QED BY <1>1, CountInit, CountStep, InvCorrect, PTL DEF Spec

-----------------------------------------------------------------------------
(* The branch implements the snapshot-isolated store. *)

Phase == [j \in Job |-> PhaseAt(pc[j])]

LEMMA PhaseStep ==
  ASSUME TypeOK, NEW k \in Job, NEW place, Goto(k, place)
  PROVE  Phase[k] = PhaseAt(pc[k]) /\ Phase' = [Phase EXCEPT ![k] = PhaseAt(place)]
BY DEF Phase, TypeOK, Goto

LEMMA PhaseValues ==
  /\ PhaseAt("idle") = "idle" /\ PhaseAt("creating") = "idle"
  /\ PhaseAt("cloned") = "reading"
  /\ PhaseAt("committed") = "writing" /\ PhaseAt("rejected") = "writing"
  /\ PhaseAt("done") = "committed"
  /\ \A p \in Failures : PhaseAt(p) = "aborted"
BY DEF PhaseAt, Failures

LEMMA StoreInit == Init => Store!Init
BY PhaseValues DEF Init, Store!Init, NoWrites, Store!NoWrites, EmptyTree

LEMMA StoreAbort ==
  ASSUME TypeOK, NEW k \in Job, NEW place \in Failures,
         pc[k] \notin Ended, Goto(k, place),
         UNCHANGED <<tree, log, start, seen, want>>
  PROVE  Store!Abort(k)
<1>1. Phase[k] \in {"idle", "reading", "writing"}
  BY PhaseValues DEF Phase, TypeOK, Places
<1>2. Phase' = [Phase EXCEPT ![k] = "aborted"]
  BY PhaseStep, PhaseValues
<1> QED BY <1>1, <1>2 DEF Store!Abort, Phase

LEMMA StoreStutter ==
  ASSUME TypeOK, NEW k \in Job, NEW place,
         Goto(k, place), PhaseAt(place) = PhaseAt(pc[k]),
         UNCHANGED <<tree, log, start, seen, want>>
  PROVE  UNCHANGED Store!vars
<1>1. Phase' = [Phase EXCEPT ![k] = PhaseAt(pc[k])]
  BY PhaseStep
<1>2. Phase' = Phase
  BY <1>1 DEF Phase
<1> QED BY <1>2 DEF Store!vars, Phase

LEMMA StoreCommit ==
  ASSUME TypeOK, IInv, NEW k \in Job, PushAccepted(k)
  PROVE  Store!Commit(k, DOMAIN edit[k])
<1> DEFINE F == DOMAIN edit[k]
           w == [f \in F |-> want[k][f]]
<1>1. JobInv(k) /\ pc[k] = "committed" /\ base[k] = tree
  BY BaseIsTip DEF IInv, PushAccepted
<1>2. Phase[k] = "writing" /\ Phase' = [Phase EXCEPT ![k] = "committed"]
  <2>1. pc[k] = "committed" /\ Goto(k, "done")
    BY DEF PushAccepted
  <2> QED BY <2>1, PhaseStep, PhaseValues
<1>3. /\ F \subseteq DOMAIN want[k]
      /\ \A f \in F : tree[f] = seen[k][f] /\ edit[k][f] = want[k][f]
      /\ \A f \in DOMAIN want[k] \ F : Since(k, start[k], f, want[k][f])
  BY <1>1 DEF JobInv, OnWhatWasRead, Writing
<1>4. \A f \in DOMAIN want[k] \ F : Store!MadeByOther(k, f)
  BY <1>3 DEF Since, Store!MadeByOther
<1>5. edit[k] = w
  BY <1>3, ChangesType DEF TypeOK
<1>6. Overwrite(tree, w) = Store!Overwrite(tree, w)
  BY DEF Overwrite, Store!Overwrite
<1>7. \/ F # {} /\ tree' = Store!Overwrite(tree, w)
                 /\ log' = Append(log, [by |-> k, writes |-> w])
      \/ F = {} /\ UNCHANGED <<tree, log>>
  BY <1>1, <1>5, <1>6 DEF PushAccepted
<1> QED BY <1>2, <1>3, <1>4, <1>7 DEF Store!Commit, Phase, PushAccepted

LEMMA StoreStep == TypeOK /\ IInv /\ [Next]_vars => [Store!Next]_(Store!vars)
<1> SUFFICES ASSUME TypeOK, IInv, [Next]_vars PROVE Store!Next \/ UNCHANGED Store!vars
  OBVIOUS
<1>1. ASSUME NEW k \in Job, Clone(k) \/ CreateBranch(k) PROVE Store!Begin(k)
  <2>1. Phase[k] = "idle" /\ Phase' = [Phase EXCEPT ![k] = "reading"]
    BY <1>1, PhaseStep, PhaseValues DEF Clone, CreateBranch
  <2> QED BY <1>1, <2>1 DEF Store!Begin, Clone, CreateBranch, TakeSnapshot, Phase
<1>2. ASSUME NEW k \in Job, ProbeMissing(k) PROVE UNCHANGED Store!vars
  BY <1>2, StoreStutter, PhaseValues DEF ProbeMissing
<1>3. ASSUME NEW k \in Job, LoseCreate(k) PROVE Store!Abort(k)
  BY <1>3, StoreAbort DEF LoseCreate, Failures, Ended
<1>4. ASSUME NEW k \in Job, NEW w \in Changes, EditFiles(k, w) PROVE Store!Settle(k, w)
  <2>1. Phase[k] = "reading" /\ Phase' = [Phase EXCEPT ![k] = "writing"]
    <3>1. pc[k] = "cloned" /\ Goto(k, "committed")
      BY <1>4 DEF EditFiles
    <3> QED BY <3>1, PhaseStep, PhaseValues
  <2> QED BY <1>4, <2>1 DEF Store!Settle, EditFiles, Phase
<1>5. ASSUME NEW k \in Job, RefuseEmpty(k) \/ RebaseConflict(k) \/ Die(k)
      PROVE  Store!Abort(k)
  BY <1>5, StoreAbort DEF RefuseEmpty, RebaseConflict, Die, Failures, Ended
<1>6. ASSUME NEW k \in Job, PushRejected(k) PROVE UNCHANGED Store!vars
  BY <1>6, StoreStutter, PhaseValues DEF PushRejected
<1>7. ASSUME NEW k \in Job, Rebase(k) PROVE Store!Abort(k) \/ UNCHANGED Store!vars
  <2>1. CASE tries[k] < Attempts
    BY <1>7, <2>1, StoreStutter, PhaseValues DEF Rebase
  <2>2. CASE ~(tries[k] < Attempts)
    BY <1>7, <2>2, StoreAbort DEF Rebase, Failures, Ended
  <2> QED BY <2>1, <2>2
<1>8. CASE UNCHANGED vars
  BY <1>8 DEF vars, Store!vars
<1>9. \A k \in Job : DOMAIN edit[k] \in SUBSET File
  BY ChangesType DEF TypeOK
<1>10. Changes = UNION {[F -> Content] : F \in SUBSET File}
  BY DEF Changes
<1> HIDE DEF Changes
<1>11. ASSUME NEW k \in Job,
              Store!Begin(k) \/ Store!Abort(k)
              \/ (\E w \in Changes : Store!Settle(k, w))
              \/ Store!Commit(k, DOMAIN edit[k])
       PROVE  Store!Next
  BY <1>9, <1>10, <1>11 DEF Store!Next
<1> QED
  BY <1>1, <1>2, <1>3, <1>4, <1>5, <1>6, <1>7, <1>8, <1>11, StoreCommit
  DEF Next, Run, Checkout, CasPush, Finished

\* Checkout and cas_push give their jobs snapshot isolation, first committer
\* wins, for any number of jobs and any edits.
THEOREM BranchImplementsStore == Spec => ImplementsStore
BY StoreInit, StoreStep, InvCorrect, PTL DEF Spec, ImplementsStore, Store!Spec
=============================================================================

----------------------------- MODULE StateBranch -----------------------------
(***************************************************************************)
(* The orphan branch `agentic-state` and the protocol its writers follow:  *)
(* lib.py's state_checkout (clone, or create the branch on origin) and     *)
(* cas_push (commit everything, push fast-forward-only, `pull --rebase` on *)
(* a rejection, give up after a fixed number of attempts).  A job is one   *)
(* execution of next.py, advance.py or join.py: it checks out once, edits  *)
(* files of its clone and pushes once.                                     *)
(*                                                                         *)
(* git works on lines; here a file is the unit of conflict.  The engine's  *)
(* files are a handful of adjacent YAML lines, so two different changes to *)
(* one file conflict, and two equal changes merge into nothing.            *)
(***************************************************************************)
EXTENDS Naturals, Sequences, FiniteSets

CONSTANTS
  Job,        \* the executions of engine scripts
  File,       \* the paths of the branch the jobs touch
  Content,    \* what a file may hold
  Absent,     \* the "content" of a path that is not in the tree
  MayWrite,   \* [Job -> SUBSET File]: the paths a job's edits stay within
  Attempts,   \* cas_push's attempts
  MayDie      \* whether a runner may be cancelled or time out between steps

ASSUME JobAssumption == IsFiniteSet(Job)
ASSUME ContentAssumption == Absent \in Content
ASSUME MayWriteAssumption == MayWrite \in [Job -> SUBSET File]
ASSUME AttemptsAssumption == Attempts \in Nat \ {0}
ASSUME MayDieAssumption == MayDie \in BOOLEAN

VARIABLES
  exists,  \* the branch exists on origin
  tree,    \* the tree of origin's tip
  log,     \* the commits above the empty root commit, oldest first
  pc,      \* where each job is
  start,   \* the number of commits in the job's clone
  seen,    \* the tree the job cloned, which its edits were computed from
  want,    \* the changes the job committed, as a partial function
  at,      \* the number of commits below the job's own, after its rebases
  base,    \* the tree below the job's own commit
  edit,    \* the changes left in the job's own commit
  tries    \* rejected pushes

vars == <<exists, tree, log, pc, start, seen, want, at, base, edit, tries>>

Trees == [File -> Content]
Changes == UNION {[F -> Content] : F \in SUBSET File}
Commits == [by : Job, writes : Changes]
NoWrites == [f \in {} |-> Absent]
EmptyTree == [f \in File |-> Absent]

Overwrite(t, w) == [f \in File |-> IF f \in DOMAIN w THEN w[f] ELSE t[f]]

\* Where a job can stop: its push landed, or the script exited with an error.
Failures == {"lost_create", "empty", "conflict", "exhausted", "dead"}
Ended == {"done"} \union Failures
Places == {"idle", "creating", "cloned", "committed", "rejected"} \union Ended

Init ==
  /\ exists = FALSE
  /\ tree = EmptyTree
  /\ log = <<>>
  /\ pc = [j \in Job |-> "idle"]
  /\ start = [j \in Job |-> 0]
  /\ seen = [j \in Job |-> EmptyTree]
  /\ want = [j \in Job |-> NoWrites]
  /\ at = [j \in Job |-> 0]
  /\ base = [j \in Job |-> EmptyTree]
  /\ edit = [j \in Job |-> NoWrites]
  /\ tries = [j \in Job |-> 0]

Goto(j, place) == pc' = [pc EXCEPT ![j] = place]

\* The job's clone is the tip of origin.
TakeSnapshot(j) ==
  /\ start' = [start EXCEPT ![j] = Len(log)]
  /\ seen' = [seen EXCEPT ![j] = tree]
  /\ UNCHANGED <<want, at, base, edit, tries>>

\* ls-remote finds the branch; clone it.
Clone(j) ==
  /\ pc[j] = "idle"
  /\ exists
  /\ TakeSnapshot(j)
  /\ Goto(j, "cloned")
  /\ UNCHANGED <<exists, tree, log>>

\* ls-remote finds no branch; `git init` and an empty root commit follow.
ProbeMissing(j) ==
  /\ pc[j] = "idle"
  /\ ~exists
  /\ Goto(j, "creating")
  /\ UNCHANGED <<exists, tree, log, start, seen, want, at, base, edit, tries>>

\* The push that creates the branch: rejected if another job created it first.
\* Two root commits made in the same second are one object, so the second
\* creator succeeds while the branch is still just that commit.
CreateBranch(j) ==
  /\ pc[j] = "creating"
  /\ ~exists \/ log = <<>>
  /\ exists' = TRUE
  /\ TakeSnapshot(j)
  /\ Goto(j, "cloned")
  /\ UNCHANGED <<tree, log>>

LoseCreate(j) ==
  /\ pc[j] = "creating"
  /\ exists
  /\ Goto(j, "lost_create")
  /\ UNCHANGED <<exists, tree, log, start, seen, want, at, base, edit, tries>>

\* The script rewrites files of its clone; `add -A` and the local commit keep
\* the ones that differ.
EditFiles(j, w) ==
  /\ pc[j] = "cloned"
  /\ DOMAIN w \subseteq MayWrite[j]
  /\ DOMAIN w # {}
  /\ \A f \in DOMAIN w : w[f] # seen[j][f]
  /\ want' = [want EXCEPT ![j] = w]
  /\ edit' = [edit EXCEPT ![j] = w]
  /\ base' = [base EXCEPT ![j] = seen[j]]
  /\ at' = [at EXCEPT ![j] = start[j]]
  /\ Goto(j, "committed")
  /\ UNCHANGED <<exists, tree, log, start, seen, tries>>

\* Nothing staged: cas_push refuses the empty commit and exits 1.
RefuseEmpty(j) ==
  /\ pc[j] = "cloned"
  /\ Goto(j, "empty")
  /\ UNCHANGED <<exists, tree, log, start, seen, want, at, base, edit, tries>>

\* Mutant: a push with --force.
PushAcceptedForced(j) ==
  /\ pc[j] = "committed"
  /\ tree' = Overwrite(base[j], edit[j])
  /\ log' = Append(log, [by |-> j, writes |-> edit[j]])
  /\ Goto(j, "done")
  /\ UNCHANGED <<exists, start, seen, want, at, base, edit, tries>>

\* The push is a fast-forward.  A rebase that dropped the whole commit leaves
\* nothing to push, and git reports success.
PushAccepted(j) ==
  /\ pc[j] = "committed"
  /\ at[j] = Len(log)
  /\ \/ /\ DOMAIN edit[j] # {}
        /\ tree' = Overwrite(base[j], edit[j])
        /\ log' = Append(log, [by |-> j, writes |-> edit[j]])
     \/ /\ DOMAIN edit[j] = {}
        /\ UNCHANGED <<tree, log>>
  /\ Goto(j, "done")
  /\ UNCHANGED <<exists, start, seen, want, at, base, edit, tries>>

\* Mutant: the push is retried with no pull in between.
PushRejectedNoPull(j) ==
  /\ pc[j] = "committed"
  /\ at[j] # Len(log)
  /\ UNCHANGED vars

PushRejected(j) ==
  /\ pc[j] = "committed"
  /\ at[j] # Len(log)
  /\ tries' = [tries EXCEPT ![j] = @ + 1]
  /\ Goto(j, "rejected")
  /\ UNCHANGED <<exists, tree, log, start, seen, want, at, base, edit>>

\* Mutants: `-X theirs`, which never conflicts; a rebase that refuses a change
\* origin has made already.
ConflictingNever(j) == {}
ConflictingEqual(j) == {f \in DOMAIN edit[j] : tree[f] # base[j][f]}

\* The files in which both the job and origin left the job's base, differently.
Conflicting(j) ==
  {f \in DOMAIN edit[j] : tree[f] # base[j][f] /\ tree[f] # edit[j][f]}

\* Mutant: `rebase --skip`.
KeptSkipped(j) == NoWrites

\* What is left of the job's commit on top of origin's tip.
Kept(j) ==
  [f \in {g \in DOMAIN edit[j] : tree[g] # edit[j][g]} |-> edit[j][f]]

\* Mutant: one attempt fewer than asked for.
RebaseEager(j) ==
  /\ pc[j] = "rejected"
  /\ Conflicting(j) = {}
  /\ base' = [base EXCEPT ![j] = tree]
  /\ at' = [at EXCEPT ![j] = Len(log)]
  /\ edit' = [edit EXCEPT ![j] = Kept(j)]
  /\ Goto(j, IF tries[j] < Attempts - 1 THEN "committed" ELSE "exhausted")
  /\ UNCHANGED <<exists, tree, log, start, seen, want, tries>>

\* `pull --rebase` replays the commit on the tip, dropping changes that are
\* already there; after the last attempt the script gives up all the same.
Rebase(j) ==
  /\ pc[j] = "rejected"
  /\ Conflicting(j) = {}
  /\ base' = [base EXCEPT ![j] = tree]
  /\ at' = [at EXCEPT ![j] = Len(log)]
  /\ edit' = [edit EXCEPT ![j] = Kept(j)]
  /\ Goto(j, IF tries[j] < Attempts THEN "committed" ELSE "exhausted")
  /\ UNCHANGED <<exists, tree, log, start, seen, want, tries>>

\* Mutant: a failed pull does not end the script.
RebaseConflictIgnored(j) ==
  /\ pc[j] = "rejected"
  /\ Conflicting(j) # {}
  /\ Goto(j, "rebasing")
  /\ UNCHANGED <<exists, tree, log, start, seen, want, at, base, edit, tries>>

RebaseConflict(j) ==
  /\ pc[j] = "rejected"
  /\ Conflicting(j) # {}
  /\ Goto(j, "conflict")
  /\ UNCHANGED <<exists, tree, log, start, seen, want, at, base, edit, tries>>

\* The runner is cancelled or times out between two git commands.
Die(j) ==
  /\ MayDie
  /\ pc[j] \notin Ended
  /\ Goto(j, "dead")
  /\ UNCHANGED <<exists, tree, log, start, seen, want, at, base, edit, tries>>

Checkout(j) == Clone(j) \/ ProbeMissing(j) \/ CreateBranch(j) \/ LoseCreate(j)
CasPush(j) ==
  PushAccepted(j) \/ PushRejected(j) \/ Rebase(j) \/ RebaseConflict(j)

Run(j) ==
  \/ Checkout(j)
  \/ \E w \in Changes : EditFiles(j, w)
  \/ RefuseEmpty(j)
  \/ CasPush(j)

AllEnded == \A j \in Job : pc[j] \in Ended

\* The jobs are over: nothing more happens in this model.
Finished == AllEnded /\ UNCHANGED vars

Next == (\E j \in Job : Run(j) \/ Die(j)) \/ Finished

Spec == Init /\ [][Next]_vars
FairSpec == Spec /\ \A j \in Job : WF_vars(Run(j))

-----------------------------------------------------------------------------
(* Properties. *)

TypeOK ==
  /\ exists \in BOOLEAN
  /\ tree \in Trees
  /\ log \in Seq(Commits)
  /\ pc \in [Job -> Places]
  /\ start \in [Job -> Nat]
  /\ seen \in [Job -> Trees]
  /\ want \in [Job -> Changes]
  /\ at \in [Job -> Nat]
  /\ base \in [Job -> Trees]
  /\ edit \in [Job -> Changes]
  /\ tries \in [Job -> Nat]

\* A push that lands never overwrites what its job has not read: every file it
\* changes still had the content the job cloned, and gets the content the job
\* computed from it.  (cas_push: "NEVER force-push", rebase, die on conflict.)
FirstCommitterWins ==
  [][\A j \in Job :
       pc[j] = "committed" /\ pc'[j] = "done" =>
         \A f \in File : tree'[f] # tree[f] =>
            /\ f \in DOMAIN want[j]
            /\ tree[f] = seen[j][f]
            /\ tree'[f] = want[j][f]]_vars

\* Since j's clone, a commit gave file f the content c.
WrittenSince(j, f, c) ==
  \E i \in start[j]+1 .. Len(log) :
    f \in DOMAIN log[i].writes /\ log[i].writes[f] = c

\* cas_push reports success only when each change the script made has been on
\* the branch since its clone, however many rebases dropped parts of it.
SuccessMeansWritten ==
  \A j \in Job : pc[j] = "done" =>
    \A f \in DOMAIN want[j] : WrittenSince(j, f, want[j][f])

\* A rebase dies only over a file that somebody else really set to something
\* else since the clone: jobs with disjoint files never conflict.
ConflictHasCause ==
  \A j \in Job : pc[j] = "conflict" =>
    \E f \in DOMAIN want[j] : \E i \in start[j]+1 .. Len(log) :
      /\ log[i].by # j
      /\ f \in DOMAIN log[i].writes
      /\ log[i].writes[f] # want[j][f]

Done == {j \in Job : pc[j] = "done"}

\* Giving up after `attempts` rejections takes that many successful pushes by
\* others meanwhile: up to `attempts` jobs at once can never exhaust anyone.
ExhaustionHasCause ==
  \A j \in Job : pc[j] = "exhausted" => Cardinality(Done) >= Attempts

\* A job's place as the phase of its transaction.
PhaseAt(place) ==
  CASE place \in {"idle", "creating"} -> "idle"
    [] place = "cloned" -> "reading"
    [] place \in {"committed", "rejected"} -> "writing"
    [] place = "done" -> "committed"
    [] OTHER -> "aborted"

Store == INSTANCE SnapshotStore WITH phase <- [j \in Job |-> PhaseAt(pc[j])]

\* The branch is a snapshot-isolated store to its jobs: each execution reads one
\* version and then changes it all at once or not at all, first committer wins.
ImplementsStore == Store!Spec

\* Every job's push loop ends, whatever the others do.
EveryJobEnds == \A j \in Job : <>(pc[j] \in Ended)
=============================================================================

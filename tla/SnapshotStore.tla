---------------------------- MODULE SnapshotStore ----------------------------
(***************************************************************************)
(* What the state branch promises the engine's jobs: a versioned store of  *)
(* files under snapshot isolation.  A transaction reads one snapshot,      *)
(* settles the files it wants to change, and then either commits once or   *)
(* aborts without a trace.  The first committer wins: a commit overwrites  *)
(* a file only when the file still has the content the transaction read.   *)
(*                                                                         *)
(* One allowance comes from three-way merging.  A change which somebody    *)
(* else has already made, with the very same content, need not be made     *)
(* again: it is dropped from the commit.                                   *)
(***************************************************************************)
EXTENDS Naturals, Sequences

CONSTANTS Job, File, Content, Absent

VARIABLES
  tree,   \* [File -> Content]: the newest version of every file
  log,    \* the commits, oldest first: [by |-> job, writes |-> partial function]
  phase,  \* [Job -> {"idle", "reading", "writing", "committed", "aborted"}]
  start,  \* [Job -> Nat]: the number of commits in the job's snapshot
  seen,   \* [Job -> [File -> Content]]: the job's snapshot
  want    \* [Job -> partial function]: the changes the job settled on

vars == <<tree, log, phase, start, seen, want>>

NoWrites == [f \in {} |-> Absent]

\* t with the files of w replaced.
Overwrite(t, w) == [f \in File |-> IF f \in DOMAIN w THEN w[f] ELSE t[f]]

Init ==
  /\ tree = [f \in File |-> Absent]
  /\ log = <<>>
  /\ phase = [j \in Job |-> "idle"]
  /\ start = [j \in Job |-> 0]
  /\ seen = [j \in Job |-> [f \in File |-> Absent]]
  /\ want = [j \in Job |-> NoWrites]

Begin(j) ==
  /\ phase[j] = "idle"
  /\ phase' = [phase EXCEPT ![j] = "reading"]
  /\ start' = [start EXCEPT ![j] = Len(log)]
  /\ seen' = [seen EXCEPT ![j] = tree]
  /\ UNCHANGED <<tree, log, want>>

\* A transaction settles on a change to at least one file of its snapshot.
Settle(j, w) ==
  /\ phase[j] = "reading"
  /\ DOMAIN w # {}
  /\ \A f \in DOMAIN w : w[f] # seen[j][f]
  /\ phase' = [phase EXCEPT ![j] = "writing"]
  /\ want' = [want EXCEPT ![j] = w]
  /\ UNCHANGED <<tree, log, start, seen>>

\* Somebody committed exactly the change j wants in f after j's snapshot.
MadeByOther(j, f) ==
  \E i \in start[j]+1 .. Len(log) :
    /\ log[i].by # j
    /\ f \in DOMAIN log[i].writes
    /\ log[i].writes[f] = want[j][f]

\* j commits its changes to the files F; the others were made by others.
Commit(j, F) ==
  /\ phase[j] = "writing"
  /\ F \subseteq DOMAIN want[j]
  /\ \A f \in F : tree[f] = seen[j][f]
  /\ \A f \in DOMAIN want[j] \ F : MadeByOther(j, f)
  /\ LET w == [f \in F |-> want[j][f]]
     IN  \/ F # {} /\ tree' = Overwrite(tree, w)
                   /\ log' = Append(log, [by |-> j, writes |-> w])
         \/ F = {} /\ UNCHANGED <<tree, log>>
  /\ phase' = [phase EXCEPT ![j] = "committed"]
  /\ UNCHANGED <<start, seen, want>>

Abort(j) ==
  /\ phase[j] \in {"idle", "reading", "writing"}
  /\ phase' = [phase EXCEPT ![j] = "aborted"]
  /\ UNCHANGED <<tree, log, start, seen, want>>

Next ==
  \E j \in Job :
    \/ Begin(j)
    \/ \E w \in UNION {[F -> Content] : F \in SUBSET File} : Settle(j, w)
    \/ \E F \in SUBSET File : Commit(j, F)
    \/ Abort(j)

Spec == Init /\ [][Next]_vars
=============================================================================

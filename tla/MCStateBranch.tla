---------------------------- MODULE MCStateBranch ----------------------------
(* Small instances of StateBranch for TLC. *)
EXTENDS StateBranch, TLC

\* Any job may touch any file: commands that reset a run, jobs of one leg.
AnyFile == [j \in Job |-> File]
=============================================================================

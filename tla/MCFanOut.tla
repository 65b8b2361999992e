------------------------------ MODULE MCFanOut -------------------------------
(* Small instances of FanOut for TLC. *)
EXTENDS FanOut, TLC

TwoOfThree == [kind |-> "quorum", n |-> 2]
=============================================================================

----------------------------- MODULE JoinPolicy ------------------------------
(* The policy of a join state: how many of a fan-out's legs must end `done`.  *)
EXTENDS Integers

\* [kind |-> "all"], [kind |-> "any"], [kind |-> "quorum", n |-> count] or
\* [kind |-> "percent", n |-> percentage]; an absent policy means "all".
JoinPolicySatisfied(policy, done, total) ==
  CASE policy.kind = "all" -> done = total
    [] policy.kind = "any" -> done >= 1
    [] policy.kind = "quorum" -> done >= policy.n
    [] policy.kind = "percent" -> 100 * done >= total * policy.n

Policies ==
  [kind : {"all", "any"}] \union [kind : {"quorum", "percent"}, n : Nat]
=============================================================================

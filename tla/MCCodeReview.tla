----------------------------- MODULE MCCodeReview ----------------------------
(* protocols/code-review: a gate that may block, two reviewers, an approval.  *)
(* Its max_iterations are 2, 3 and 3; here one reviewer may try twice.        *)
EXTENDS StatusView, TLC

Agent(max, halts) == [kind |-> "agent", max |-> max, halts |-> halts]

CodeReview(preflight, grumpy, security) ==
  <<>> :> [kind |-> "root", children |-> <<"preflight", "review", "join", "approval">>]
  @@ <<"preflight">> :> Agent(preflight, TRUE)
  @@ <<"review">> :> [kind |-> "fanout", dynamic |-> FALSE,
                      children |-> <<"grumpy", "security">>]
  @@ <<"review", "grumpy">> :> Agent(grumpy, FALSE)
  @@ <<"review", "security">> :> Agent(security, FALSE)
  @@ <<"join">> :> [kind |-> "join", of |-> "review", next |-> "approval",
                    policy |-> AllPolicy]
  @@ <<"approval">> :> [kind |-> "gate", excludesAuthor |-> TRUE, asks |-> {{}}]

OneRetry == CodeReview(1, 2, 1)
\* The tree the configuration names: TLC evaluates a definition that is named
\* there each time it is used, and what that one stands for once.
OneRetryTree == OneRetry

AllCommands == {"start", "override", "approve", "request-changes", "reject"}
OneRun == [start |-> 1, reply |-> 2, redelivery |-> 0, death |-> 1]
Restarted == [start |-> 2, reply |-> 0, redelivery |-> 0, death |-> 0]
=============================================================================

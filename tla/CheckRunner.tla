----------------------------- MODULE CheckRunner -----------------------------
(***************************************************************************)
(* What an attempt is judged by: run-checks.py runs the node's checks, the *)
(* advance job fetches what it printed, lib.decide folds the verdicts, and *)
(* advance.py asks the conclude hook of a root agent.                      *)
(*                                                                         *)
(* A check's file: [declared, exact, extensions, executable], `exact` and  *)
(* `extensions` counting what bears its name.  What running it gives:      *)
(* started, the exit code zero, a JSON verdict, its `pass`; a verdict may  *)
(* carry an `on_fail` of its own.                                          *)
(***************************************************************************)
EXTENDS Naturals, Sequences

\* resolve_executable: a declared file, or the only one of that name.
Resolves(file) ==
  IF file.declared # "no" THEN file.declared = "there"
  ELSE file.exact + file.extensions = 1

Runnable(file) == Resolves(file) /\ file.executable

FailVerdict(onFail) == [pass |-> FALSE, onFail |-> onFail]

\* Mutant: the verdict keeps the severity the check printed.
StampedNot(check) == [pass |-> check.run.pass, onFail |-> check.run.onFail]
Stamped(check) == [pass |-> check.run.pass, onFail |-> check.onFail]

\* A check that is missing, ambiguous, not executable, crashes or prints something
\* else gets a failing verdict of the severity the protocol declares.
Verdict(check) ==
  IF Runnable(check.file) /\ check.run.started /\ check.run.exitsZero /\ check.run.valid
  THEN Stamped(check) ELSE FailVerdict(check.onFail)

\* The runner exits with an error, and prints nothing, if the path leads nowhere.
RunChecks(node) ==
  [printed |-> node.found,
   results |-> IF node.found
               THEN [i \in DOMAIN node.checks |-> Verdict(node.checks[i])] ELSE <<>>]

Fails(results, severity) ==
  \E i \in DOMAIN results : ~results[i].pass /\ results[i].onFail = severity

\* Mutant: no verdict is no objection.
DecidePermissive(results, iterationsRemaining) ==
  [process |-> IF ~Fails(results, "iterate") THEN "done"
               ELSE IF iterationsRemaining THEN "iterate" ELSE "failed",
   blocking |-> Fails(results, "block")]
\* decide: an `iterate` failure, or no verdict at all, costs an attempt; a `block`
\* failure never does.
Decide(results, iterationsRemaining) ==
  [process |-> IF results # <<>> /\ ~Fails(results, "iterate") THEN "done"
               ELSE IF iterationsRemaining THEN "iterate" ELSE "failed",
   blocking |-> Fails(results, "block")]

\* The advance job fetches what was printed, as an artifact.  Without it the job
\* fails before it comes to a verdict of its own or to advance.py: nothing is decided.
Judge(node, iterationsRemaining) ==
  IF RunChecks(node).printed
  THEN Decide(RunChecks(node).results, iterationsRemaining)
  ELSE [process |-> "none", blocking |-> FALSE]

\* run_conclude_hook: the exit code does not matter, and `blocking` only tells
\* the hook.
Blocked(hook, blocking) ==
  /\ hook.declared
  /\ Runnable(hook.file)
  /\ hook.run.valid
  /\ hook.run.blocks \/ (hook.run.heeds /\ blocking)

-----------------------------------------------------------------------------
(* What the verdict of an attempt means. *)

\* What a check of the node really said: it ran to its end and passed.
Passed(check) ==
  /\ Resolves(check.file) /\ check.file.executable
  /\ check.run.started /\ check.run.exitsZero /\ check.run.valid /\ check.run.pass

Declared(node, severity) ==
  {check \in {node.checks[i] : i \in DOMAIN node.checks} : check.onFail = severity}

\* A unit is done exactly when its node has checks and every check that may send
\* it back really ran and passed, whatever severity a check claims for itself:
\* "one bad check never aborts the run", nor is it ever taken for a passing one,
\* and a failure that only blocks or advises costs no attempt.
DoneMeansChecked(node, iterationsRemaining) ==
  Judge(node, iterationsRemaining).process = "done" <=>
    /\ node.found
    /\ node.checks # <<>>
    /\ \A check \in Declared(node, "iterate") : Passed(check)

Repeats(hook) ==
  hook.declared /\ Runnable(hook.file) /\ hook.run.valid /\ hook.run.heeds /\ ~hook.run.blocks

\* A blocking check that does not pass, for whatever reason, is heard by the hook
\* of a unit that is done, and nothing else is: a hook that repeats what it is told
\* halts the run just then.
BlockHeard(node, hook, iterationsRemaining) ==
  LET judged == Judge(node, iterationsRemaining) IN
  judged.process = "done" /\ Repeats(hook) =>
    (Blocked(hook, judged.blocking) <=>
       \E check \in Declared(node, "block") : ~Passed(check))
=============================================================================

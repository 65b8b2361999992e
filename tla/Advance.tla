------------------------------ MODULE Advance --------------------------------
(***************************************************************************)
(* advance.py: what the end of an attempt at unit p makes of a clone S.    *)
(* `tag` is the engine run the agent ran in, `passed` the checks' verdict  *)
(* (lib.decide) and `blocked` that of a root agent's conclude hook.        *)
(***************************************************************************)
EXTENDS EngineState

\* A file that is missing is seeded; the protocol's node gives the bound.
UnitAt(S, p) == IF S[NodeFile(p)] = Missing THEN FreshUnit(p) ELSE S[NodeFile(p)]

Decide(passed, iterationsRemaining) ==
  CASE passed -> "done"
    [] ~passed /\ iterationsRemaining -> "iterate"
    [] ~passed /\ ~iterationsRemaining -> "failed"

CursorAt(S, p) == IF S[NodeFile(p)] = Missing THEN Cursor(None, None) ELSE S[NodeFile(p)]
InstanceAt(S) == IF S[InstanceFile] = Missing THEN NewInstance(None) ELSE S[InstanceFile]

\* The unit's file with this attempt in its history.
Attempted(S, p, tag) ==
  [UnitAt(S, p) EXCEPT !.history = @ + 1, !.last = tag]

WithState(S, p, tag, state) ==
  Write(S, NodeFile(p), [Attempted(S, p, tag) EXCEPT !.state = state])

\* What the gate after p may ask: the lists the evidence it reads may hold.
Asks(p) ==
  IF NextSibling(p) # None /\ Child(ParentPath(p), NextSibling(p)) \in LegGates
  THEN Tree[Child(ParentPath(p), NextSibling(p))].asks ELSE {{}}

\* A unit of a sub-pipeline opens the gate after it, moves the leg's cursor on, or
\* ends the leg.
AdvanceCursor(S, p, asked) ==
  LET leg == ParentPath(p)
      next == NextSibling(p)
      moved == Write(S, NodeFile(leg), Cursor(LifeState(p), next))
  IN
  IF next # None /\ Child(leg, next) \in LegGates
  THEN Tells(Pushes(Write(moved, NodeFile(Child(leg, next)),
                          OpenGate(Child(leg, next), asked)), {}))
  ELSE IF next # None
  THEN Pushes(moved, {Continue(Child(leg, next))})
  ELSE Tells(Pushes(Write(S, NodeFile(leg), [CursorAt(S, leg) EXCEPT !.state = "done"]),
                    {FireJoin(p)}))

\* A root agent moves the instance on, halts it, or completes it.
AdvanceRoot(S, p, blocked) ==
  LET next == NextSibling(p)
      inst == InstanceAt(S)
  IN
  IF blocked /\ Tree[p].halts
  THEN Concludes(
         Write(Write(S, NodeFile(p), [S[NodeFile(p)] EXCEPT !.state = "failed"]),
               InstanceFile, [inst EXCEPT !.halted = LastId(p), !.label = "blocked"]),
         "failure", {})
  ELSE IF next # None
  THEN Tells(Pushes(Write(S, InstanceFile, [inst EXCEPT !.phase = next, !.label = next]),
                    {Continue(<<next>>)}))
  ELSE Concludes(Write(S, InstanceFile, [inst EXCEPT !.label = "done"]), "success", {})

Done(S, p, tag, blocked, asked) ==
  LET T == WithState(S, p, tag, "done")
      parent == NodeKind(ParentPath(p))
  IN
  CASE parent = "fanout" -> Tells(Pushes(T, {FireJoin(p)}))
    [] parent = "sequence" -> AdvanceCursor(T, p, asked)
    [] OTHER -> AdvanceRoot(T, p, blocked)

Iterate(S, p, tag) ==
  Tells(Pushes(Write(S, NodeFile(p), [Attempted(S, p, tag) EXCEPT !.iteration = @ + 1]),
               {Continue(p)}))

\* Mutant: a failed leg does not wake the join.
FailedSilently(S, p, tag) == Pushes(WithState(S, p, tag, "failed"), {})

\* The last attempt failed: a leg fires its join, a root agent nothing.
Failed(S, p, tag) ==
  LET T == WithState(S, p, tag, "failed")
      parent == ParentPath(p)
  IN
  Tells(
  CASE NodeKind(parent) = "fanout" -> Pushes(T, {FireJoin(p)})
    [] NodeKind(parent) = "sequence" ->
         Pushes(Write(T, NodeFile(parent), [CursorAt(T, parent) EXCEPT !.state = "failed"]),
                {FireJoin(p)})
    [] OTHER ->
         Pushes(IF T[InstanceFile] = Missing THEN T
                ELSE Write(T, InstanceFile, [InstanceAt(T) EXCEPT !.label = "failed"]), {}))

\* Mutant: one attempt too many.
AdvanceResultOffByOne(S, p, tag, passed, blocked, asked) ==
  LET process == Decide(passed, UnitAt(S, p).iteration <= Tree[p].max) IN
  CASE process = "done" -> Done(S, p, tag, blocked, asked)
    [] process = "iterate" -> Iterate(S, p, tag)
    [] process = "failed" -> Failed(S, p, tag)

AdvanceResult(S, p, tag, passed, blocked, asked) ==
  LET process == Decide(passed, UnitAt(S, p).iteration < Tree[p].max) IN
  CASE process = "done" -> Done(S, p, tag, blocked, asked)
    [] process = "iterate" -> Iterate(S, p, tag)
    [] process = "failed" -> Failed(S, p, tag)

\* The outcomes of an attempt; only a root agent has a conclude hook.
AdvanceOutcomes(S, p, tag) ==
  {AdvanceResult(S, p, tag, passed, blocked, asked) :
     passed \in BOOLEAN, blocked \in IF IsRootChild(p) THEN BOOLEAN ELSE {FALSE},
     asked \in Asks(p)}
=============================================================================

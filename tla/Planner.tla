------------------------------ MODULE Planner --------------------------------
(***************************************************************************)
(* next.py: what each command makes of a clone S of the state branch.      *)
(* Every operator is a set of Results, one per outcome of what the script  *)
(* runs (the expander, the merge hook).  A script that refuses, halts or   *)
(* exits with an error leaves nothing: Quiet.                              *)
(***************************************************************************)
EXTENDS EngineState

SeededFiles(p, L) ==
  {NodeFile(Child(p, l)) : l \in L} \union
  {NodeFile(Child(Child(p, l), FirstChildId(Child(p, l)))) :
     l \in {k \in L : NodeKind(Child(p, k)) = "sequence"}}

\* _seed_child: a leg's file, or a sub-pipeline's cursor and first unit.
Seeded(q) ==
  IF NodeKind(q) = "sequence"
  THEN Cursor(EnclosingFanoutId(q), FirstChildId(q))
  ELSE FreshUnit(q)

\* The path of the unit an engine run dispatches for leg l.
LeafPath(p, l) ==
  IF NodeKind(Child(p, l)) = "sequence"
  THEN Child(Child(p, l), FirstChildId(Child(p, l)))
  ELSE Child(p, l)

\* What the expander may return if it succeeds: any set of items; a static fan-out has one.
LegSets(p) == IF IsDynamic(p) THEN SUBSET ChildIds(p) ELSE {ChildIds(p)}

EnterFanout(S, p, L) ==
  [f \in DOMAIN S |->
     CASE f \in SeededFiles(p, L) -> Seeded(f[2])
       [] f = JoinFile(p) -> Marker(FALSE, FALSE)
       [] f = ManifestFile(p) -> Manifest(L)
       [] OTHER -> S[f]]

\* Mutant: every `continue` seeds its unit afresh.
PreservedNever(S, p, command) == FALSE

\* A `continue` onto a unit that is in flight keeps its iteration and history.
Preserved(S, p, command) == command = "continue" /\ StateOf(S, p) = LifeState(p)

\* enter_node: the edited clone, whether it was edited, and the legs to run.
Entries(S, p, command) ==
  CASE NodeKind(p) = "fanout" ->
         {[store |-> EnterFanout(S, p, L), seeded |-> TRUE,
           legs |-> {LeafPath(p, l) : l \in L}] : L \in LegSets(p)}
    [] NodeKind(p) = "agent" ->
         {[store |-> IF Preserved(S, p, command) THEN S
                     ELSE Write(S, NodeFile(p), FreshUnit(p)),
           seeded |-> ~Preserved(S, p, command), legs |-> {p}]}
    [] NodeKind(p) = "gate" ->
         {[store |-> Write(S, RootGateFile(p), OpenGate(p, {})), seeded |-> TRUE,
           legs |-> {}]}
    [] OTHER -> {}

\* Opening a gate updates the comment.
Enter(S, p, command) ==
  IF NodeKind(p) = "gate"
  THEN {Tells(Pushes(e.store, {})) : e \in Entries(S, p, command)}
  ELSE {Result(e.store, e.seeded, None, {}, TRUE, e.legs) :
          e \in Entries(S, p, command)}

\* _reset_wipe: everything in the instance's directory.  The file of a lone root
\* agent lies beside the directory.
Wiped(S) ==
  [f \in DOMAIN S |->
     IF f[1] = "node" /\ Len(f[2]) = 1 /\ ~IsMultiphase /\ NodeKind(f[2]) = "agent"
     THEN S[f] ELSE Missing]

EnterRoot(S, command) ==
  LET first == RootIds[1] IN
  Enter(Write(Wiped(S), InstanceFile, NewInstance(first)), <<first>>, command)

\* Mutant: an override runs the phase that blocked once more.
OverrideRepeats(S) ==
  LET inst == Read(S, InstanceFile) IN
  IF inst = Missing \/ inst.halted = None THEN {Quiet(S)}
  ELSE {Pushes(Write(S, InstanceFile, [inst EXCEPT !.halted = None]),
               {Continue(<<inst.halted>>)})}

\* do_override: past a gate that blocked, and past nothing else.
Override(S) ==
  LET inst == Read(S, InstanceFile)
      next == NextSibling(<<inst.halted>>) IN
  IF inst = Missing \/ inst.halted = None \/ next = None THEN {Quiet(S)}
  ELSE {Pushes(Write(S, InstanceFile,
                 [inst EXCEPT !.phase = next, !.label = next, !.halted = None,
                              !.overrides = @ \union {inst.halted}]),
               {Continue(<<next>>)})}

GateDecided(S, p, gate, state, decision) ==
  Write(S, NodeFile(p),
        [S[NodeFile(p)] EXCEPT !.gate = gate, !.state = state, !.history = Append(@, decision)])

\* do_resolve_gate: the decision of a reviewer on the gate at the cursor.
ResolveGate(S, decision, said) ==
  LET inst == Read(S, InstanceFile)
      cursor == <<inst.phase>>
      file == Read(S, NodeFile(cursor))
      Decided(gate, state) == GateDecided(S, cursor, gate, state, decision)
      Moved(T, phase, label) ==
        Write(T, InstanceFile, [inst EXCEPT !.phase = phase, !.label = label])
      next == NextSibling(cursor)
  IN
  IF \/ inst = Missing
     \/ NodeKind(cursor) # "gate"
     \/ file = Missing
     \/ file.gate \notin {"open", "changes_requested"}
     \/ decision = "approve" /\ Tree[cursor].excludesAuthor /\ said.byAuthor
  THEN {Quiet(S)}
  ELSE CASE decision = "approve" /\ next # None ->
              {Pushes(Moved(Decided("approved", file.state), next, next),
                      {Continue(<<next>>)})}
         [] decision = "approve" /\ next = None ->
              {Concludes(Moved(Decided("approved", file.state), inst.phase, "done"),
                         "success", {})}
         [] decision = "request-changes" ->
              {Tells(Pushes(Decided("changes_requested", file.state), {}))}
         [] decision = "reject" ->
              {Concludes(Moved(Decided("rejected", "failed"), inst.phase, "failed"),
                         "failure", {})}

\* The cursors of the legs around p lead to it.
OnCursors(S, p) ==
  \A k \in 1 .. Len(p) - 1 : NodeKind(Prefix(p, k)) = "sequence" =>
    /\ Read(S, NodeFile(Prefix(p, k))) # Missing
    /\ S[NodeFile(Prefix(p, k))].sub_state = p[k + 1]

\* Mutant: the search does not go into the fan-out of a sub-pipeline.
OpenGatesTop(S, branch) ==
  {p \in LegGates : /\ Len(p) = 3
                    /\ OnCursors(S, p)
                    /\ Read(S, NodeFile(p)) # Missing
                    /\ S[NodeFile(p)].gate = "open"}

\* The open gates an answer may be for: below the current fan-out, in static
\* branches, at the cursors of their legs.
OpenGates(S, branch) ==
  LET phase == IF S[InstanceFile] = Missing THEN None ELSE S[InstanceFile].phase IN
  {p \in LegGates :
     /\ Prefix(p, 1) = CurrentFanout(phase)
     /\ \A k \in 1 .. Len(p) : ~IsDynamic(Prefix(p, k))
     /\ branch \in {None, p[2]}
     /\ OnCursors(S, p)
     /\ Read(S, NodeFile(p)) # Missing
     /\ S[NodeFile(p)].gate = "open"}

\* The branches are scanned in their order, each to its depth.
ScannedBefore(p, q) ==
  \E k \in DOMAIN p \cap DOMAIN q :
    Prefix(p, k - 1) = Prefix(q, k - 1) /\ Index(Prefix(p, k)) < Index(Prefix(q, k))

\* _find_open_gate: the first of them; <<>> if there is none.
FindOpenGate(S, branch) ==
  LET gates == OpenGates(S, branch)
      first == {p \in gates : \A q \in gates \ {p} : ScannedBefore(p, q)}
  IN IF first = {} THEN <<>> ELSE CHOOSE p \in first : TRUE

AnsweredAt(S, p) == IF S[AnswersFile(p)] = Missing THEN {} ELSE S[AnswersFile(p)].answered
AllAnswers(S, p, said) == AnsweredAt(S, p) \union said.answered

\* Mutant: one answer is enough.
CoversOne(questions, answered) == questions = {} \/ questions \cap answered # {}
\* The check answers-coverage.
Covers(questions, answered) == questions \subseteq answered

\* do_answer: record the answers at the gate; once they cover its questions, move
\* the leg on, or end it.
Answer(S, said) ==
  LET p == FindOpenGate(S, said.branch)
      leg == ParentPath(p)
      next == NextSibling(p)
      questions == S[NodeFile(p)].questions
      answered == AllAnswers(S, p, said)
      Recorded(gate) ==
        Write(Write(S, AnswersFile(p), Answers(questions, answered)), NodeFile(p),
              [S[NodeFile(p)] EXCEPT !.gate = gate, !.history = Append(@, said.answered)])
  IN
  IF p = <<>> THEN {Quiet(S)}
  ELSE IF ~Covers(questions, answered) THEN {Pushes(Recorded("open"), {})}
  ELSE IF next # None
  THEN {Pushes(Write(Recorded("answered"), NodeFile(leg), Cursor(LifeState(p), next)),
               {Continue(Child(leg, next))})}
  ELSE {Pushes(Write(Recorded("answered"), NodeFile(leg),
                     [S[NodeFile(leg)] EXCEPT !.state = "done"]),
               {FireJoin(p)})}

\* run_merge_hook: what the hook concludes.  It reads the manifest of the fan-out it
\* merges, and fails without it.
MergeConclusions(S, p) ==
  IF Tree[p].from # None /\ Read(S, ManifestFile(Child(ParentPath(p), Tree[p].from))) = Missing
  THEN {} ELSE {"success", "failure", "neutral"}

\* `continue` onto a merge: a nested one ends its leg, the root's the instance.
Merge(S, p) ==
  LET cursor == NodeFile(ParentPath(p))
      inst == IF S[InstanceFile] = Missing THEN NewInstance(None) ELSE S[InstanceFile]
      sub == IF S[cursor] = Missing THEN None ELSE S[cursor].sub_state
  IN
  IF MergeConclusions(S, p) = {} THEN {Quiet(S)}
  ELSE IF Len(p) > 1
  THEN {Pushes(Write(S, cursor, Cursor("done", sub)), {FireJoin(p)})}
  ELSE {Concludes(Write(S, InstanceFile,
                    [inst EXCEPT !.phase = LastId(p), !.joined = TRUE, !.label = "done"]),
                  conclusion, {}) : conclusion \in MergeConclusions(S, p)}

\* A `continue` onto anything else exits with an error.
ContinueAt(S, p) ==
  CASE NodeKind(p) \in {"fanout", "agent", "gate"} ->
         Enter(S, p, "continue")
    [] NodeKind(p) = "merge" -> Merge(S, p)
    [] OTHER -> {Quiet(S)}

Plan(S, command, p, said) ==
  CASE command \in {"start", "reset"} -> EnterRoot(S, command)
    [] command = "override" -> Override(S)
    [] command \in {"approve", "request-changes", "reject"} ->
         ResolveGate(S, command, said)
    [] command = "answer" -> Answer(S, said)
    [] command = "continue" -> ContinueAt(S, p)
=============================================================================

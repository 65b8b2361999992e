---------------------------- MODULE ControlProofs ----------------------------
(***************************************************************************)
(* Theorems about a run that is started once and whose events arrive once: *)
(* what the concurrency groups alone do not give.                          *)
(***************************************************************************)
EXTENDS EngineProofs

\* A lone root agent has no status comment, and a ref has none.
HasComment == PullRequest /\ (IsMultiphase \/ FanoutIds # {})

RootGroup == <<"engine", <<>>>>

\* The branch as EnterRoot leaves it when the first phase runs: nothing on it that
\* a reply moves on.
JustStarted(S) ==
  /\ S[InstanceFile] # Missing
  /\ S[InstanceFile].comment = 0
  /\ S[InstanceFile].halted = None
  /\ NodeKind(<<S[InstanceFile].phase>>) # "gate"
  /\ \A p \in LegGates : S[NodeFile(p)] = Missing

\* Until the comment is created, the start or a reply is the only run there is: a
\* start that runs its first phase and has not recorded the comment, or a reply
\* that finds nothing to do.
Untold ==
  /\ comments = 0
  /\ \A w \in waiting : Group(w) = RootGroup /\ w.command # "continue"
  /\ Started => JustStarted(store)
  /\ \A j \in jobs :
       /\ j.role = "plan" /\ j.group = RootGroup /\ j.command # "continue"
       /\ j.stage # "ready" /\ j.command # "start" => Inert(j.todo)
       /\ j.stage # "ready" /\ j.command = "start" =>
            j.todo.runs /\ j.todo.push /\ JustStarted(j.todo.store)
       /\ j.stage \in {"pushed", "marked"} => j.command = "start" /\ j.clone = store

\* Once it is, every instance anywhere knows its number, and nothing starts another.
Numbered(S) == S[InstanceFile] # Missing => S[InstanceFile].comment # 0
Told ==
  /\ comments = 1
  /\ used["start"] = 1
  /\ \A w \in waiting : w.command # "start"
  /\ Numbered(store)
  /\ \A j \in jobs :
       /\ j.command = "start" => j.stage # "ready"
       /\ j.stage # "ready" => Numbered(j.clone) /\ Numbered(j.todo.store)

CommentInv ==
  used["start"] <= 1 /\ used["redelivery"] = 0 =>
    IF HasComment THEN Untold \/ Told ELSE comments = 0

-----------------------------------------------------------------------------
(* No script but the start changes the number of the comment. *)

CommentKept(S, T) ==
  /\ InstanceFile \in DOMAIN T
  /\ T[InstanceFile].comment = S[InstanceFile].comment

\* What the writes of the scripts keep.
LEMMA WritesKeepComment ==
  ASSUME NEW S, InstanceFile \in DOMAIN S, S[InstanceFile] \in Instances
  PROVE  /\ CommentKept(S, S)
         /\ \A f, v : f # InstanceFile =>
              /\ InstanceFile \in DOMAIN Write(S, f, v)
              /\ Write(S, f, v)[InstanceFile] = S[InstanceFile]
              /\ CommentKept(S, Write(S, f, v))
         /\ \A i : i.comment = S[InstanceFile].comment =>
              CommentKept(S, Write(S, InstanceFile, i))
BY DEF CommentKept, Write

\* The fields a script sets, and not the number among them.
LEMMA InstanceEdits ==
  ASSUME NEW i \in Instances
  PROVE  /\ \A b : [i EXCEPT !.label = b].comment = i.comment
         /\ \A a, b : /\ [i EXCEPT !.phase = a, !.label = b].comment = i.comment
                      /\ [i EXCEPT !.joined = TRUE, !.phase = a, !.label = b].comment = i.comment
                      /\ [i EXCEPT !.phase = a, !.joined = TRUE, !.label = b].comment = i.comment
                      /\ [i EXCEPT !.halted = a, !.label = b].comment = i.comment
         /\ \A a, b, h, ids :
              [i EXCEPT !.phase = a, !.label = b, !.halted = h, !.overrides = ids].comment
                = i.comment
BY DEF Instances

LEMMA NotTheInstance ==
  \A p : /\ NodeFile(p) # InstanceFile /\ JoinFile(p) # InstanceFile
         /\ ManifestFile(p) # InstanceFile /\ AnswersFile(p) # InstanceFile
         /\ RootGateFile(p) # InstanceFile
BY DEF NodeFile, JoinFile, ManifestFile, AnswersFile, InstanceFile, RootGateFile

LEMMA StoresAre ==
  ASSUME NEW S, StoreOK(S), S[InstanceFile] # Missing
  PROVE  /\ InstanceFile \in DOMAIN S /\ S[InstanceFile] \in Instances
         /\ Read(S, InstanceFile) = S[InstanceFile]
BY FilesAre, InstanceValue DEF StoreOK, Read

LEMMA EnterComment ==
  ASSUME NEW S, StoreOK(S), S[InstanceFile] # Missing, NEW p \in DOMAIN Tree, p # <<>>,
         NEW command, NEW r \in Enter(S, p, command)
  PROVE  CommentKept(S, r.store)
<1>1. InstanceFile \in DOMAIN S /\ S[InstanceFile] \in Instances
  BY StoresAre
<1>2. PICK e \in Entries(S, p, command) : r.store = e.store
  <2>1. CASE NodeKind(p) = "gate"
    <3>1. PICK e \in Entries(S, p, command) : r = Tells(Pushes(e.store, {}))
      BY <2>1 DEF Enter
    <3> QED
      BY <3>1 DEF Tells, Pushes, Result
  <2>2. CASE NodeKind(p) # "gate"
    <3>1. PICK e \in Entries(S, p, command) : r = Result(e.store, e.seeded, None, {}, TRUE, e.legs)
      BY <2>2 DEF Enter
    <3> QED
      BY <3>1 DEF Result
  <2> QED
    BY <2>1, <2>2
<1>3. CASE NodeKind(p) = "fanout"
  <2>1. PICK L \in LegSets(p) : e.store = EnterFanout(S, p, L)
    BY <1>2, <1>3 DEF Entries
  <2>2. InstanceFile \notin SeededFiles(p, L)
    BY NotTheInstance DEF SeededFiles
  <2>3. InstanceFile # JoinFile(p) /\ InstanceFile # ManifestFile(p)
    BY NotTheInstance
  <2>4. EnterFanout(S, p, L)[InstanceFile] = S[InstanceFile]
        /\ InstanceFile \in DOMAIN EnterFanout(S, p, L)
    BY <1>1, <2>2, <2>3 DEF EnterFanout
  <2> QED
    BY <1>2, <2>1, <2>4 DEF CommentKept
<1>4. CASE NodeKind(p) = "agent"
  <2>1. e.store = S \/ e.store = Write(S, NodeFile(p), FreshUnit(p))
    BY <1>2, <1>4 DEF Entries
  <2> QED
    BY <1>1, <1>2, <2>1, WritesKeepComment, NotTheInstance
<1>5. CASE NodeKind(p) = "gate"
  <2>1. e.store = Write(S, RootGateFile(p), OpenGate(p, {}))
    BY <1>2, <1>5 DEF Entries
  <2> QED
    BY <1>1, <1>2, <2>1, WritesKeepComment, NotTheInstance
<1>6. NodeKind(p) \in {"fanout", "agent", "gate"}
  BY <1>2 DEF Entries
<1>7. QED
  BY <1>3, <1>4, <1>5, <1>6

LEMMA RepliesComment ==
  ASSUME NEW S, StoreOK(S), S[InstanceFile] # Missing, NEW said
  PROVE  /\ \A r \in Override(S) : CommentKept(S, r.store)
         /\ \A decision \in {"approve", "request-changes", "reject"} :
              \A r \in ResolveGate(S, decision, said) : CommentKept(S, r.store)
         /\ \A r \in Answer(S, said) : CommentKept(S, r.store)
<1> DEFINE i == S[InstanceFile]
<1>1. /\ InstanceFile \in DOMAIN S /\ i \in Instances /\ Read(S, InstanceFile) = i
  BY StoresAre
<1>2. /\ Quiet(S).store = S
      /\ \A T, E, c : /\ Pushes(T, E).store = T /\ Tells(Pushes(T, E)).store = T
                      /\ Concludes(T, c, E).store = T
  BY DEF Quiet, Pushes, Tells, Concludes, Result
<1>3. CommentKept(S, S)
  BY <1>1, WritesKeepComment
<1>4. ASSUME NEW r \in Override(S) PROVE CommentKept(S, r.store)
  <2> DEFINE next == NextSibling(<<i.halted>>)
             v == [i EXCEPT !.phase = next, !.label = next, !.halted = None,
                            !.overrides = @ \union {i.halted}]
  <2>1. r = Quiet(S) \/ r = Pushes(Write(S, InstanceFile, v), {Continue(<<next>>)})
    BY <1>1, <1>4 DEF Override
  <2>2. v.comment = i.comment
    BY <1>1, InstanceEdits
  <2> HIDE DEF v, i, next
  <2>3. CommentKept(S, Write(S, InstanceFile, v))
    BY <1>1, <2>2, WritesKeepComment DEF i
  <2> QED
    BY <1>2, <1>3, <2>1, <2>3
<1>5. ASSUME NEW decision \in {"approve", "request-changes", "reject"},
             NEW r \in ResolveGate(S, decision, said)
      PROVE  CommentKept(S, r.store)
  <2> DEFINE cursor == <<i.phase>>
             next == NextSibling(cursor)
             D(gate, state) == GateDecided(S, cursor, gate, state, decision)
             M(T, phase, label) == Write(T, InstanceFile, [i EXCEPT !.phase = phase, !.label = label])
             state == Read(S, NodeFile(cursor)).state
  <2>1. \/ r = Quiet(S)
        \/ r = Pushes(M(D("approved", state), next, next), {Continue(<<next>>)})
        \/ r = Concludes(M(D("approved", state), i.phase, "done"), "success", {})
        \/ r = Tells(Pushes(D("changes_requested", state), {}))
        \/ r = Concludes(M(D("rejected", "failed"), i.phase, "failed"), "failure", {})
    BY <1>1, <1>5 DEF ResolveGate
  <2>2. \A gate, st : /\ InstanceFile \in DOMAIN D(gate, st)
                      /\ D(gate, st)[InstanceFile] = i
                      /\ CommentKept(S, D(gate, st))
    BY <1>1, WritesKeepComment, NotTheInstance DEF GateDecided
  <2>3. ASSUME NEW gate, NEW st, NEW phase, NEW label
        PROVE  CommentKept(S, M(D(gate, st), phase, label))
    <3> DEFINE T == D(gate, st)
               v == [i EXCEPT !.phase = phase, !.label = label]
    <3>1. v.comment = i.comment
      BY <1>1, InstanceEdits
    <3>2. InstanceFile \in DOMAIN T /\ T[InstanceFile] = i
      BY <2>2
    <3> HIDE DEF T, v
    <3>3. CommentKept(S, Write(T, InstanceFile, v))
      BY <3>1, <3>2 DEF CommentKept, Write
    <3> QED
      BY <3>3 DEF T, v
  <2> HIDE DEF D, M, next, cursor, state, i
  <2> QED
    BY <1>2, <1>3, <2>1, <2>2, <2>3
<1>6. ASSUME NEW r \in Answer(S, said) PROVE CommentKept(S, r.store)
  <2> DEFINE p == FindOpenGate(S, said.branch)
  <2>1. \/ r.store = S
        \/ \E a, g : r.store = Write(Write(S, AnswersFile(p), a), NodeFile(p), g)
        \/ \E a, g, c : r.store = Write(Write(Write(S, AnswersFile(p), a), NodeFile(p), g),
                                        NodeFile(ParentPath(p)), c)
    <3> DEFINE questions == S[NodeFile(p)].questions
               answered == AllAnswers(S, p, said)
               next == NextSibling(p)
               leg == ParentPath(p)
               R(gate) ==
                 Write(Write(S, AnswersFile(p), Answers(questions, answered)), NodeFile(p),
                       [S[NodeFile(p)] EXCEPT !.gate = gate, !.history = Append(@, said.answered)])
    <3>1. \/ r = Quiet(S)
          \/ r = Pushes(R("open"), {})
          \/ r = Pushes(Write(R("answered"), NodeFile(leg), Cursor(LifeState(p), next)),
                        {Continue(Child(leg, next))})
          \/ r = Pushes(Write(R("answered"), NodeFile(leg), [S[NodeFile(leg)] EXCEPT !.state = "done"]),
                        {FireJoin(p)})
      BY <1>6 DEF Answer
    <3>2. \A gate : \E a, g : R(gate) = Write(Write(S, AnswersFile(p), a), NodeFile(p), g)
      OBVIOUS
    <3> HIDE DEF R, questions, answered, next, p
    <3> QED
      BY <1>2, <3>1, <3>2
  <2> HIDE DEF p
  <2>2. \A a : LET T == Write(S, AnswersFile(p), a) IN
                 InstanceFile \in DOMAIN T /\ T[InstanceFile] = i
    BY <1>1, WritesKeepComment, NotTheInstance
  <2>3. \A a, g : LET T == Write(Write(S, AnswersFile(p), a), NodeFile(p), g) IN
                 InstanceFile \in DOMAIN T /\ T[InstanceFile] = i
    BY <2>2, <1>1, WritesKeepComment, NotTheInstance
  <2>4. \A a, g, c : LET T == Write(Write(Write(S, AnswersFile(p), a), NodeFile(p), g),
                                    NodeFile(ParentPath(p)), c) IN
                 InstanceFile \in DOMAIN T /\ T[InstanceFile] = i
    BY <2>3, <1>1, WritesKeepComment, NotTheInstance
  <2> QED
    BY <1>3, <2>1, <2>3, <2>4 DEF CommentKept
<1>7. QED
  BY <1>4, <1>5, <1>6

LEMMA MergeComment ==
  ASSUME NEW S, StoreOK(S), S[InstanceFile] # Missing, NEW p, NEW r \in Merge(S, p)
  PROVE  CommentKept(S, r.store)
<1> DEFINE i == S[InstanceFile]
<1>1. InstanceFile \in DOMAIN S /\ i \in Instances
  BY StoresAre
<1>2. /\ Quiet(S).store = S
      /\ \A T, E, c : Pushes(T, E).store = T /\ Concludes(T, c, E).store = T
  BY DEF Quiet, Pushes, Tells, Concludes, Result
<1> DEFINE cursor == NodeFile(ParentPath(p))
           sub == IF S[cursor] = Missing THEN None ELSE S[cursor].sub_state
           v == [i EXCEPT !.phase = LastId(p), !.joined = TRUE, !.label = "done"]
<1>3. \/ r = Quiet(S)
      \/ r = Pushes(Write(S, cursor, Cursor("done", sub)), {FireJoin(p)})
      \/ \E c : r = Concludes(Write(S, InstanceFile, v), c, {})
  BY DEF Merge
<1>4. v.comment = i.comment
  BY <1>1, InstanceEdits
<1>5. cursor # InstanceFile
  BY NotTheInstance
<1> HIDE DEF v, sub, cursor
<1>6. /\ CommentKept(S, S) /\ CommentKept(S, Write(S, InstanceFile, v))
      /\ CommentKept(S, Write(S, cursor, Cursor("done", sub)))
  BY <1>1, <1>4, <1>5, WritesKeepComment
<1>7. QED
  BY <1>2, <1>3, <1>6

\* No command but the start changes it.
LEMMA PlanComment ==
  ASSUME NEW S, StoreOK(S), S[InstanceFile] # Missing, NEW p, NEW said,
         NEW command \in Replies \union {"continue"}, NEW r \in Plan(S, command, p, said)
  PROVE  CommentKept(S, r.store)
<1>1. CASE command = "override"
  <2>1. r \in Override(S)
    BY <1>1 DEF Plan
  <2> QED
    BY <2>1, RepliesComment
<1>2. CASE command \in {"approve", "request-changes", "reject"}
  <2>1. r \in ResolveGate(S, command, said)
    BY <1>2 DEF Plan
  <2> QED
    BY <1>2, <2>1, RepliesComment
<1>3. CASE command = "answer"
  <2>1. r \in Answer(S, said)
    BY <1>3 DEF Plan
  <2> QED
    BY <2>1, RepliesComment
<1>4. CASE command = "continue"
  <2>1. r \in ContinueAt(S, p)
    BY <1>4 DEF Plan
  <2>2. CASE NodeKind(p) \in {"fanout", "agent", "gate"}
    <3>1. p \in DOMAIN Tree /\ p # <<>>
      BY <2>2 DEF NodeKind, None
    <3>2. r \in Enter(S, p, "continue")
      BY <2>1, <2>2 DEF ContinueAt
    <3> QED
      BY <3>1, <3>2, EnterComment
  <2>3. CASE NodeKind(p) = "merge"
    BY <2>1, <2>3, MergeComment DEF ContinueAt
  <2>4. CASE NodeKind(p) \notin {"fanout", "agent", "gate", "merge"}
    <3>1. r = Quiet(S)
      BY <2>1, <2>4 DEF ContinueAt
    <3> QED
      BY <3>1, StoresAre, WritesKeepComment DEF Quiet, Result
  <2> QED
    BY <2>2, <2>3, <2>4
<1>5. QED
  BY <1>1, <1>2, <1>3, <1>4 DEF Replies

LEMMA JoinComment ==
  ASSUME NEW S, StoreOK(S), S[InstanceFile] # Missing, NEW p
  PROVE  CommentKept(S, Join(S, p).store)
<1> DEFINE i == S[InstanceFile]
<1>1. InstanceFile \in DOMAIN S /\ i \in Instances
  BY StoresAre
<1>2. /\ Quiet(S).store = S
      /\ \A T, E, c : Pushes(T, E).store = T /\ Concludes(T, c, E).store = T
  BY DEF Quiet, Pushes, Tells, Concludes, Result
<1>3. CommentKept(S, S)
  BY <1>1, WritesKeepComment
<1>4. \A m, c : CommentKept(S, Write(Write(S, JoinFile(p), m), NodeFile(ParentPath(p)), c))
  <2> SUFFICES ASSUME NEW m, NEW c
               PROVE  CommentKept(S, Write(Write(S, JoinFile(p), m), NodeFile(ParentPath(p)), c))
    OBVIOUS
  <2> DEFINE T == Write(S, JoinFile(p), m)
  <2>1. InstanceFile \in DOMAIN T /\ T[InstanceFile] = i
    BY <1>1, WritesKeepComment, NotTheInstance
  <2> HIDE DEF T
  <2>2. InstanceFile # NodeFile(ParentPath(p))
    BY NotTheInstance
  <2>3. CommentKept(S, Write(T, NodeFile(ParentPath(p)), c))
    BY <2>1, <2>2 DEF CommentKept, Write
  <2> QED
    BY <2>3 DEF T
<1>5. CommentKept(S, NestedJoin(S, p).store)
  <2>1. \/ NestedJoin(S, p) = Quiet(S)
        \/ \E m, c, E : NestedJoin(S, p) =
             Pushes(Write(Write(S, JoinFile(p), m), NodeFile(ParentPath(p)), c), E)
    <3> DEFINE leg == ParentPath(p)
               joins == JoinsOver(leg, LastId(p))
               policy == IF joins = <<>> THEN AllPolicy ELSE Tree[joins[1]].policy
               next == IF joins = <<>> THEN None ELSE Tree[joins[1]].next
               cursor == IF S[NodeFile(leg)] = Missing THEN Cursor(None, None) ELSE S[NodeFile(leg)]
               J(m, c) == Write(Write(S, JoinFile(p), m), NodeFile(leg), c)
    <3>1. \/ NestedJoin(S, p) = Quiet(S)
          \/ NestedJoin(S, p) = Pushes(J(Marker(TRUE, TRUE), [cursor EXCEPT !.state = "failed"]), {FireJoin(leg)})
          \/ NestedJoin(S, p) = Pushes(J(Marker(TRUE, FALSE), Cursor(EnclosingFanoutId(leg), next)),
                                       {Continue(Child(leg, next))})
          \/ NestedJoin(S, p) = Pushes(J(Marker(TRUE, FALSE), [cursor EXCEPT !.state = "done"]), {FireJoin(leg)})
      BY DEF NestedJoin
    <3> HIDE DEF cursor, next, policy, joins
    <3> QED
      BY <3>1
  <2> QED
    BY <1>2, <1>3, <1>4, <2>1
<1>6. CommentKept(S, TopJoin(S).store)
  <2>1. \/ TopJoin(S) = Quiet(S)
        \/ \E phase, label :
             TopJoin(S).store = Write(S, InstanceFile,
               [i EXCEPT !.joined = TRUE, !.phase = phase, !.label = label])
    <3> DEFINE C(phase, label) == Write(S, InstanceFile,
                 [i EXCEPT !.joined = TRUE, !.phase = phase, !.label = label])
    <3>1. \/ TopJoin(S) = Quiet(S)
          \/ \E next : TopJoin(S) = Pushes(C(next, next), {Continue(<<next>>)})
          \/ TopJoin(S) = Concludes(C(i.phase, "done"), "success", {})
          \/ TopJoin(S) = Concludes(C(i.phase, "failed"), "failure", {})
      BY DEF TopJoin
    <3>2. \/ TopJoin(S) = Quiet(S)
          \/ \E phase, label : TopJoin(S).store = C(phase, label)
      <4> HIDE DEF C, i
      <4>1. ASSUME NEW next, TopJoin(S) = Pushes(C(next, next), {Continue(<<next>>)})
            PROVE  TopJoin(S).store = C(next, next)
        BY <1>2, <4>1
      <4>2. ASSUME NEW phase, NEW label, NEW c, TopJoin(S) = Concludes(C(phase, label), c, {})
            PROVE  TopJoin(S).store = C(phase, label)
        BY <1>2, <4>2
      <4> QED
        BY <3>1, <4>1, <4>2
    <3> QED
      BY <3>2
  <2>2. \A phase, label :
          [i EXCEPT !.joined = TRUE, !.phase = phase, !.label = label].comment = i.comment
    BY <1>1, InstanceEdits
  <2> HIDE DEF i
  <2>3. \A phase, label : CommentKept(S, Write(S, InstanceFile,
          [i EXCEPT !.joined = TRUE, !.phase = phase, !.label = label]))
    BY <1>1, <2>2, WritesKeepComment DEF i
  <2> QED
    BY <1>2, <1>3, <2>1, <2>3 DEF i
<1>7. QED
  BY <1>5, <1>6 DEF Join

LEMMA AttemptComment ==
  ASSUME NEW S, StoreOK(S), S[InstanceFile] # Missing, NEW p, NEW tag, NEW blocked, NEW asked
  PROVE  /\ CommentKept(S, Done(S, p, tag, blocked, asked).store)
         /\ CommentKept(S, Failed(S, p, tag).store)
         /\ CommentKept(S, Iterate(S, p, tag).store)
<1> DEFINE i == S[InstanceFile]
           Same(T) == InstanceFile \in DOMAIN T /\ T[InstanceFile] = i
<1>1. Same(S) /\ i \in Instances /\ i # Missing
  BY StoresAre
<1>2. \A T, E, c : /\ Pushes(T, E).store = T /\ Tells(Pushes(T, E)).store = T
                   /\ Tells(Pushes(T, E)) = [Pushes(T, E) EXCEPT !.tells = TRUE]
                   /\ Concludes(T, c, E).store = T
  BY DEF Pushes, Tells, Concludes, Result
<1>3. \A T, q, v : Same(T) => Same(Write(T, NodeFile(q), v))
  BY NotTheInstance DEF Write
<1>4. \A T : Same(T) => CommentKept(S, T)
  BY DEF CommentKept
<1>5. \A T, v : Same(T) /\ v.comment = i.comment => CommentKept(S, Write(T, InstanceFile, v))
  BY DEF CommentKept, Write
<1>6. \A T : Same(T) => InstanceAt(T) = i
  BY <1>1 DEF InstanceAt
<1> HIDE DEF Same
<1>7. \A st : Same(WithState(S, p, tag, st))
  BY <1>1, <1>3 DEF WithState
<1>8. CommentKept(S, Iterate(S, p, tag).store)
  BY <1>1, <1>2, <1>3, <1>4 DEF Iterate
<1>9. ASSUME NEW T, Same(T)
      PROVE  CommentKept(S, AdvanceCursor(T, p, asked).store)
  <2> DEFINE leg == ParentPath(p)
             next == NextSibling(p)
             moved == Write(T, NodeFile(leg), Cursor(LifeState(p), next))
             opened == Write(moved, NodeFile(Child(leg, next)), OpenGate(Child(leg, next), asked))
             ended == Write(T, NodeFile(leg), [CursorAt(T, leg) EXCEPT !.state = "done"])
  <2>1. Same(moved) /\ Same(ended)
    BY <1>3, <1>9
  <2>2. Same(opened)
    BY <1>3, <2>1
  <2>3. \/ AdvanceCursor(T, p, asked) = Tells(Pushes(opened, {}))
        \/ AdvanceCursor(T, p, asked) = Pushes(moved, {Continue(Child(leg, next))})
        \/ AdvanceCursor(T, p, asked) = Tells(Pushes(ended, {FireJoin(p)}))
    BY DEF AdvanceCursor
  <2> HIDE DEF moved, ended, opened
  <2>4. AdvanceCursor(T, p, asked).store \in {moved, ended, opened}
    BY <1>2, <2>3
  <2> QED
    BY <1>4, <2>1, <2>2, <2>4
<1>10. ASSUME NEW T, Same(T)
       PROVE  CommentKept(S, AdvanceRoot(T, p, blocked).store)
  <2> DEFINE next == NextSibling(p)
             failed == Write(T, NodeFile(p), [T[NodeFile(p)] EXCEPT !.state = "failed"])
             halted == [i EXCEPT !.halted = LastId(p), !.label = "blocked"]
             moved == [i EXCEPT !.phase = next, !.label = next]
             ended == [i EXCEPT !.label = "done"]
  <2>1. InstanceAt(T) = i /\ Same(failed)
    BY <1>3, <1>6, <1>10
  <2>2. halted.comment = i.comment /\ moved.comment = i.comment /\ ended.comment = i.comment
    BY <1>1, InstanceEdits
  <2>3. \/ AdvanceRoot(T, p, blocked) = Concludes(Write(failed, InstanceFile, halted), "failure", {})
        \/ AdvanceRoot(T, p, blocked) =
             Tells(Pushes(Write(T, InstanceFile, moved), {Continue(<<next>>)}))
        \/ AdvanceRoot(T, p, blocked) = Concludes(Write(T, InstanceFile, ended), "success", {})
    BY <2>1 DEF AdvanceRoot
  <2> HIDE DEF failed, halted, moved, ended, i
  <2>4. AdvanceRoot(T, p, blocked).store \in
          {Write(failed, InstanceFile, halted), Write(T, InstanceFile, moved),
           Write(T, InstanceFile, ended)}
    BY <1>2, <2>3
  <2> QED
    BY <1>5, <1>10, <2>1, <2>2, <2>4
<1>11. CommentKept(S, Done(S, p, tag, blocked, asked).store)
  <2> DEFINE T == WithState(S, p, tag, "done")
  <2>1. \/ Done(S, p, tag, blocked, asked) = Tells(Pushes(T, {FireJoin(p)}))
        \/ Done(S, p, tag, blocked, asked) = AdvanceCursor(T, p, asked)
        \/ Done(S, p, tag, blocked, asked) = AdvanceRoot(T, p, blocked)
    BY DEF Done
  <2> HIDE DEF T
  <2>2. Same(T)
    BY <1>7 DEF T
  <2> QED
    BY <1>2, <1>4, <1>9, <1>10, <2>1, <2>2
<1>12. CommentKept(S, Failed(S, p, tag).store)
  <2> DEFINE T == WithState(S, p, tag, "failed")
             parent == ParentPath(p)
             ended == Write(T, NodeFile(parent), [CursorAt(T, parent) EXCEPT !.state = "failed"])
             stopped == Write(T, InstanceFile, [i EXCEPT !.label = "failed"])
  <2>1. Same(T) /\ Same(ended) /\ InstanceAt(T) = i /\ T[InstanceFile] # Missing
    BY <1>1, <1>3, <1>6, <1>7 DEF Same
  <2>2. [i EXCEPT !.label = "failed"].comment = i.comment
    BY <1>1, InstanceEdits
  <2>3. \/ Failed(S, p, tag) = Tells(Pushes(T, {FireJoin(p)}))
        \/ Failed(S, p, tag) = Tells(Pushes(ended, {FireJoin(p)}))
        \/ Failed(S, p, tag) = Tells(Pushes(stopped, {}))
    BY <2>1 DEF Failed
  <2>4. CommentKept(S, T) /\ CommentKept(S, ended) /\ CommentKept(S, stopped)
    BY <1>4, <1>5, <2>1, <2>2
  <2> HIDE DEF T, ended, stopped
  <2> QED
    BY <1>2, <2>3, <2>4
<1>13. QED
  BY <1>8, <1>11, <1>12

LEMMA AdvanceComment ==
  ASSUME NEW S, StoreOK(S), S[InstanceFile] # Missing, NEW p, NEW tag,
         NEW r \in AdvanceOutcomes(S, p, tag)
  PROVE  CommentKept(S, r.store)
<1>1. \/ \E blocked, asked : r = Done(S, p, tag, blocked, asked)
      \/ r = Iterate(S, p, tag)
      \/ r = Failed(S, p, tag)
  BY AttemptEnds
<1>2. QED
  BY <1>1, AttemptComment

LEMMA OutcomeComment ==
  ASSUME EngineInv, NEW j \in jobs, j.command # "start", Started, NEW r \in Outcomes(store, j)
  PROVE  CommentKept(store, r.store)
<1>1. StoreOK(store) /\ JobOK(j) /\ store[InstanceFile] # Missing
  BY DEF EngineInv, Started
<1>2. CASE j.role = "plan"
  <2>1. j.command \in Replies \union {"continue"} /\ r \in Plan(store, j.command, j.path, j.said)
    BY <1>1, <1>2 DEF JobOK, Outcomes
  <2> QED
    BY <1>1, <2>1, PlanComment
<1>3. CASE j.role = "leg"
  <2>1. r \in AdvanceOutcomes(store, j.path, j.group)
    BY <1>3 DEF Outcomes
  <2> QED
    BY <1>1, <2>1, AdvanceComment
<1>4. CASE j.role = "join"
  <2>1. r = Join(store, j.path)
    BY <1>4 DEF Outcomes
  <2> QED
    BY <1>1, <2>1, JoinComment
<1>5. QED
  BY <1>1, <1>2, <1>3, <1>4 DEF JobOK

-----------------------------------------------------------------------------
(* The start of a run. *)

\* What a start makes of a branch: it opens the gate that comes first, and tells it,
\* or runs the phase that does.
LEMMA StartOK ==
  ASSUME NEW S, StoreOK(S), NEW r \in EnterRoot(S, "start")
  PROVE  /\ r.push
         /\ r.store[InstanceFile].comment = 0 /\ InstanceFile \in DOMAIN r.store
         /\ r.tells \/ (r.runs /\ JustStarted(r.store))
<1> DEFINE first == RootIds[1]
           T == Write(Wiped(S), InstanceFile, NewInstance(first))
           p == <<first>>
<1>1. first \in ChildIds(<<>>) /\ p \in DOMAIN Tree /\ p # <<>> /\ IsRootChild(p)
  <2>1. RootIds # <<>> /\ RootIds \in Seq(STRING \ {None})
    BY NamesAssumption, TreeAssumption DEF RootIds, Children
  <2>2. 1 \in DOMAIN RootIds
    BY <2>1, EmptySeq, LenProperties
  <2>3. first \in ChildIds(<<>>)
    BY <2>2 DEF ChildIds, RootIds
  <2> QED
    BY <2>3, RootIdsAreNodes DEF IsRootChild
<1>2. /\ DOMAIN T = Files /\ InstanceFile \in Files
      /\ T[InstanceFile] = NewInstance(first)
      /\ NewInstance(first) # Missing
      /\ NewInstance(first).comment = 0 /\ NewInstance(first).halted = None
      /\ NewInstance(first).phase = first
  BY FilesAre DEF Write, Wiped, StoreOK, NewInstance, Missing
<1>3. \A g \in LegGates : /\ g \in DOMAIN Tree /\ NodeKind(g) = "gate" /\ g # p
                          /\ NodeFile(g) \in Files /\ T[NodeFile(g)] = Missing
  <2> SUFFICES ASSUME NEW g \in LegGates
               PROVE  /\ g \in DOMAIN Tree /\ NodeKind(g) = "gate" /\ g # p
                      /\ NodeFile(g) \in Files /\ T[NodeFile(g)] = Missing
    OBVIOUS
  <2>1. g \in DOMAIN Tree /\ NodeKind(g) = "gate" /\ g # p /\ NodeFile(g) \in Files
    BY <1>1, FilesAre DEF LegGates
  <2>2. Wiped(S)[NodeFile(g)] = Missing
    BY <2>1 DEF Wiped, StoreOK, NodeFile
  <2> QED
    BY <2>1, <2>2, NotTheInstance DEF Write, Wiped, StoreOK
<1>4. r \in Enter(T, p, "start")
  BY DEF EnterRoot
<1> HIDE DEF T, first, p
<1>5. CASE NodeKind(p) = "gate"
  <2>1. PICK e \in Entries(T, p, "start") : r = Tells(Pushes(e.store, {}))
    BY <1>4, <1>5 DEF Enter
  <2>2. r.store = e.store /\ r.push /\ r.tells
    BY <2>1 DEF Tells, Pushes, Result
  <2>3. e.store = Write(T, RootGateFile(p), OpenGate(p, {}))
    BY <1>5 DEF Entries
  <2>4. InstanceFile \in DOMAIN e.store /\ e.store[InstanceFile] = NewInstance(first)
    BY <1>2, <2>3, NotTheInstance DEF Write
  <2> QED
    BY <1>2, <2>2, <2>4
<1>6. CASE NodeKind(p) # "gate"
  <2>1. PICK e \in Entries(T, p, "start") : r = Result(e.store, e.seeded, None, {}, TRUE, e.legs)
    BY <1>4, <1>6 DEF Enter
  <2>2. r.store = e.store /\ r.push = e.seeded /\ r.runs
    BY <2>1 DEF Result
  <2>3. /\ e.seeded /\ InstanceFile \in DOMAIN e.store
        /\ e.store[InstanceFile] = NewInstance(first)
        /\ \A g \in LegGates : e.store[NodeFile(g)] = Missing
    <3>1. CASE NodeKind(p) = "fanout"
      <4>1. PICK L \in LegSets(p) : e.store = EnterFanout(T, p, L) /\ e.seeded
        BY <3>1 DEF Entries
      <4>2. L \subseteq ChildIds(p)
        BY DEF LegSets
      <4>3. \A q : NodeFile(q) \in SeededFiles(p, L) => NodeKind(q) \in {"agent", "sequence"}
        <5> SUFFICES ASSUME NEW q, NodeFile(q) \in SeededFiles(p, L)
                     PROVE  NodeKind(q) \in {"agent", "sequence"}
          OBVIOUS
        <5>1. PICK l \in L : \/ q = Child(p, l)
                            \/ /\ NodeKind(Child(p, l)) = "sequence"
                               /\ q = Child(Child(p, l), FirstChildId(Child(p, l)))
          BY DEF SeededFiles, NodeFile
        <5>2. Child(p, l) \in DOMAIN Tree /\ NodeKind(Child(p, l)) \in {"agent", "sequence"}
          BY <1>1, <3>1, <4>2, LegsAre
        <5>3. NodeKind(Child(p, l)) = "sequence" => Child(p, l) # <<>>
          BY DEF NodeKind, None
        <5> QED
          BY <5>1, <5>2, <5>3, LegAssumption
      <4>4. \A g \in LegGates : /\ NodeFile(g) \notin SeededFiles(p, L)
                                /\ NodeFile(g) # JoinFile(p) /\ NodeFile(g) # ManifestFile(p)
        BY <1>3, <4>3 DEF NodeFile, JoinFile, ManifestFile
      <4>5. InstanceFile \notin SeededFiles(p, L)
        BY NotTheInstance DEF SeededFiles
      <4> QED
        BY <1>2, <1>3, <4>1, <4>4, <4>5, NotTheInstance DEF EnterFanout
    <3>2. CASE NodeKind(p) = "agent"
      <4>1. e.store = Write(T, NodeFile(p), FreshUnit(p)) /\ e.seeded
        <5>1. Preserved(T, p, "start") = FALSE
          BY DEF Preserved
        <5>2. Entries(T, p, "start") =
                {[store |-> Write(T, NodeFile(p), FreshUnit(p)), seeded |-> TRUE, legs |-> {p}]}
          BY <3>2, <5>1 DEF Entries
        <5> QED
          BY <5>2
      <4>2. \A g \in LegGates : NodeFile(g) # NodeFile(p)
        BY <1>3 DEF NodeFile
      <4> QED
        BY <1>2, <1>3, <4>1, <4>2, NotTheInstance DEF Write
    <3>3. NodeKind(p) \in {"fanout", "agent"}
      BY <1>6 DEF Entries
    <3> QED
      BY <3>1, <3>2, <3>3
  <2>4. NodeKind(<<first>>) # "gate"
    BY <1>6 DEF p
  <2>5. JustStarted(r.store)
    BY <1>2, <2>2, <2>3, <2>4 DEF JustStarted
  <2> QED
    BY <1>2, <2>2, <2>3, <2>5
<1>7. QED
  BY <1>5, <1>6

\* A reply that comes before the first phase is over finds nothing to do.
LEMMA ReplyTooEarly ==
  ASSUME NEW S, StoreOK(S), JustStarted(S), NEW command \in Replies, NEW p, NEW said,
         NEW r \in Plan(S, command, p, said)
  PROVE  r = Quiet(S)
<1>1. InstanceFile \in DOMAIN S /\ Read(S, InstanceFile) = S[InstanceFile]
  BY StoresAre DEF JustStarted
<1>2. CASE command = "override"
  BY <1>1, <1>2 DEF Plan, Override, JustStarted
<1>3. CASE command \in {"approve", "request-changes", "reject"}
  BY <1>1, <1>3 DEF Plan, ResolveGate, JustStarted
<1>4. CASE command = "answer"
  <2>1. OpenGates(S, said.branch) = {}
    BY FilesAre DEF OpenGates, JustStarted, Read, LegGates, StoreOK
  <2>2. FindOpenGate(S, said.branch) = <<>>
    BY <2>1 DEF FindOpenGate
  <2> QED
    BY <1>4, <2>2 DEF Plan, Answer
<1>5. QED
  BY <1>2, <1>3, <1>4 DEF Replies

-----------------------------------------------------------------------------
(* The comment is created once. *)

\* In a regime of one start and no redelivery every step comes from it.
LEMMA RegimeBefore ==
  ASSUME EngineInv, [Next]_vars, used'["start"] <= 1, used'["redelivery"] = 0
  PROVE  used["start"] <= 1 /\ used["redelivery"] = 0
<1>1. "redelivery" \in Bounds
  BY DEF Bounds
<1>2. /\ used["redelivery"] \in Nat /\ used'["redelivery"] \in Nat
      /\ used["redelivery"] <= used'["redelivery"]
  BY <1>1, UsedGrows
<1>3. QED
  BY <1>2, StartsGrow

LEMMA OnlyJob ==
  ASSUME EngineInv, Untold, NEW j \in jobs
  PROVE  jobs = {j}
BY DEF EngineInv, GroupsExclusive, Untold

\* Events come, jobs leave: what is new has not begun.
LEMMA UntoldArrives ==
  ASSUME EngineInv, Untold, NEW J \in SUBSET jobs, NEW E, Schedule(J, E),
         \A e \in E : EventOK(e) /\ Group(e) = RootGroup /\ e.command # "continue",
         \A d, e \in E : d = e, UNCHANGED <<store, comments>>
  PROVE  Untold'
<1> DEFINE X == waiting \union E
<1>1. /\ \A j \in J : JobOK(j)
      /\ Exclusive(J)
      /\ \A w \in waiting : EventOK(w)
      /\ \A v, w \in waiting : Group(v) = Group(w) => v = w
  BY DEF EngineInv, GroupsExclusive, Exclusive
<1>2. /\ \A k \in jobs' : k \in J \/ \E w \in X : k = Queued(w) /\ w \notin waiting'
      /\ waiting' \subseteq X
  BY <1>1, ScheduleOK
<1>3. \A w \in X : EventOK(w) /\ Group(w) = RootGroup /\ w.command # "continue"
  BY <1>1 DEF Untold
<1>4. \A w \in X : /\ Queued(w).role = "plan" /\ Queued(w).stage = "ready"
                   /\ Queued(w).group = RootGroup /\ Queued(w).command # "continue"
  BY <1>3, QueuedOK DEF Group, RootGroup
<1>5. \A k \in jobs' : k \in jobs \/ (/\ k.role = "plan" /\ k.stage = "ready"
                                     /\ k.group = RootGroup /\ k.command # "continue")
  BY <1>2, <1>4
<1>6. \A w \in waiting' : Group(w) = RootGroup /\ w.command # "continue"
  BY <1>2, <1>3
<1>7. QED
  BY <1>5, <1>6 DEF Untold, Started, Group, JustStarted, Inert

\* The one job goes on.
LEMMA UntoldBecomes ==
  ASSUME EngineInv, Untold, NEW j \in jobs, NEW k, Becomes(j, k), UNCHANGED waiting,
         k.role = j.role, k.group = j.group, k.command = j.command, k.stage # "ready",
         comments' = 0, Started' => JustStarted(store'),
         k.command # "start" => Inert(k.todo),
         k.command = "start" => k.todo.runs /\ k.todo.push /\ JustStarted(k.todo.store),
         k.stage \in {"pushed", "marked"} => k.command = "start" /\ k.clone = store'
  PROVE  Untold'
<1>1. jobs' = {k}
  BY OnlyJob DEF Becomes
<1>2. QED
  BY <1>1 DEF Untold, Started, Group, JustStarted, Inert

LEMMA ToldBecomes ==
  ASSUME Told, NEW j \in jobs, NEW k, Becomes(j, k), UNCHANGED <<waiting, used, comments>>,
         k.command = j.command, k.stage # "ready",
         Numbered(store'), Numbered(k.clone), Numbered(k.todo.store)
  PROVE  Told'
<1>1. \A i \in jobs' : i \in jobs \/ i = k
  BY DEF Becomes
<1>2. QED
  BY <1>1 DEF Told, Numbered

LEMMA ToldArrives ==
  ASSUME EngineInv, Told, NEW J, NEW E, Schedule(J, E), \A j \in J : JobOK(j), Exclusive(J),
         \A j \in J : j \in jobs \/ (j.stage = "ready" /\ j.command # "start"),
         \A e \in E : EventOK(e) /\ e.command # "start", \A d, e \in E : d = e,
         used'["start"] = used["start"], comments' = comments, Numbered(store')
  PROVE  Told'
<1> DEFINE X == waiting \union E
<1>1. /\ \A w \in waiting : EventOK(w)
      /\ \A v, w \in waiting : Group(v) = Group(w) => v = w
  BY DEF EngineInv, GroupsExclusive
<1>2. /\ \A k \in jobs' : k \in J \/ \E w \in X : k = Queued(w) /\ w \notin waiting'
      /\ waiting' \subseteq X
  BY <1>1, ScheduleOK
<1>3. \A w \in X : w.command # "start" /\ EventOK(w)
  BY <1>1 DEF Told
<1>4. \A w \in X : Queued(w).stage = "ready" /\ Queued(w).command # "start"
  BY <1>3, QueuedOK
<1>5. \A k \in jobs' : k \in jobs \/ (k.stage = "ready" /\ k.command # "start")
  BY <1>2, <1>4
<1>6. QED
  BY <1>2, <1>3, <1>5 DEF Told, Numbered

LEMMA ToldLeaves ==
  ASSUME EngineInv, Told, NEW j \in jobs, NEW E, Leave(j, E), EmitOK(E),
         used'["start"] = used["start"], UNCHANGED <<comments, store>>
  PROVE  Told'
<1>1. Schedule(jobs \ {j}, E)
  BY DEF Leave
<1>2. \A i \in jobs \ {j} : JobOK(i) /\ i \in jobs
  BY DEF EngineInv
<1>3. Exclusive(jobs \ {j})
  BY DEF EngineInv, GroupsExclusive, Exclusive
<1>4. (\A e \in E : EventOK(e) /\ e.command # "start") /\ (\A d, e \in E : d = e)
  BY DEF EmitOK
<1>5. Numbered(store')
  BY DEF Told, Numbered
<1>6. QED
  BY <1>1, <1>2, <1>3, <1>4, <1>5, ToldArrives

LEMMA UntoldLeaves ==
  ASSUME EngineInv, Untold, NEW j \in jobs, Leave(j, {}), UNCHANGED <<comments, store>>
  PROVE  Untold'
<1>1. Schedule(jobs \ {j}, {})
  BY DEF Leave
<1>2. QED
  BY <1>1, UntoldArrives

\* What a script leaves in its job.
Executed(j, r, k) ==
  /\ Becomes(j, k)
  /\ k.role = j.role /\ k.group = j.group /\ k.command = j.command /\ k.path = j.path
  /\ k.said = j.said /\ k.stage = "edited" /\ k.clone = store
  /\ IF r.tells /\ NeedsComment(r.store)
     THEN /\ k.todo = [r EXCEPT !.store[InstanceFile].comment = comments + 1]
          /\ comments' = comments + 1
     ELSE k.todo = r /\ comments' = comments

LEMMA ExecuteIs ==
  ASSUME EngineInv, NEW j \in jobs, Execute(j)
  PROVE  \E r \in Outcomes(store, j) : \E k : Executed(j, r, k)
<1>1. PICK r \in Outcomes(store, j) :
        LET creates == r.tells /\ NeedsComment(r.store)
            todo == IF creates
                    THEN [r EXCEPT !.store[InstanceFile].comment = comments + 1]
                    ELSE r
        IN /\ Becomes(j, [j EXCEPT !.stage = "edited", !.clone = store, !.todo = todo])
           /\ comments' = IF creates THEN comments + 1 ELSE comments
  BY DEF Execute
<1> DEFINE creates == r.tells /\ NeedsComment(r.store)
           todo == IF creates THEN [r EXCEPT !.store[InstanceFile].comment = comments + 1] ELSE r
           k == [j EXCEPT !.stage = "edited", !.clone = store, !.todo = todo]
<1>2. DOMAIN j = JobFields
  BY DEF EngineInv, JobOK
<1>3. IF creates
      THEN /\ todo = [r EXCEPT !.store[InstanceFile].comment = comments + 1]
           /\ comments' = comments + 1
      ELSE todo = r /\ comments' = comments
  BY <1>1
<1>4. Becomes(j, k)
  BY <1>1
<1> HIDE DEF todo
<1>5. /\ k.role = j.role /\ k.group = j.group /\ k.command = j.command /\ k.path = j.path
      /\ k.said = j.said /\ k.stage = "edited" /\ k.clone = store /\ k.todo = todo
  BY <1>2 DEF JobFields
<1>6. Executed(j, r, k)
  <2> HIDE DEF k
  <2> QED
    BY <1>3, <1>4, <1>5 DEF Executed
<1> HIDE DEF k
<1>7. QED
  BY <1>6

\* The number that a result records, in a result of that form.
LEMMA NumberRecorded ==
  ASSUME NEW S, NEW r, ResultOK(S, r), r.store[InstanceFile] # Missing, NEW n \in Nat, n # 0
  PROVE  Numbered([r EXCEPT !.store[InstanceFile].comment = n].store)
<1>1. DOMAIN r = ResultFields /\ StoreOK(r.store)
  BY DEF ResultOK
<1>2. InstanceFile \in DOMAIN r.store /\ r.store[InstanceFile] \in Instances
  BY <1>1, StoresAre
<1>3. [r EXCEPT !.store[InstanceFile].comment = n].store =
        [r.store EXCEPT ![InstanceFile].comment = n]
  BY <1>1 DEF ResultFields
<1>4. [r.store EXCEPT ![InstanceFile].comment = n][InstanceFile].comment = n
  BY <1>2 DEF Instances
<1>5. QED
  BY <1>3, <1>4 DEF Numbered

LEMMA UntoldExecute ==
  ASSUME EngineInv, OneStart, used["start"] <= 1, HasComment, Untold, NEW j \in jobs, Execute(j)
  PROVE  Untold' \/ Told'
<1>0. PICK r \in Outcomes(store, j) : \E k : Executed(j, r, k)
  BY ExecuteIs
<1>1. PICK k : Executed(j, r, k)
  BY <1>0
<1>2. UNCHANGED <<store, waiting, check, used>> /\ j.stage = "ready"
  BY DEF Execute
<1>3. /\ StoreOK(store) /\ JobOK(j) /\ UntilStarted /\ j.role = "plan" /\ j.command # "continue"
      /\ comments = 0
      /\ StartsOnce /\ (used["start"] = 0 => \A i \in jobs : i.command # "start")
      /\ used["start"] \in Nat
  BY DEF EngineInv, Untold, OneStart, Bounds
<1>4. r \in Plan(store, j.command, j.path, j.said)
  BY <1>3 DEF Outcomes
<1>5. CASE j.command = "start"
  <2>1. ~Started /\ r \in EnterRoot(store, "start")
    BY <1>2, <1>3, <1>4, <1>5 DEF StartsOnce, Plan
  <2>2. /\ r.push /\ r.store[InstanceFile].comment = 0
        /\ r.tells \/ (r.runs /\ JustStarted(r.store))
        /\ ResultOK(store, r) /\ r.store[InstanceFile] # Missing
    BY <1>3, <2>1, StartOK, EnterRootOK
  <2>3. CASE r.tells
    <3>1. NeedsComment(r.store)
      BY <2>2 DEF HasComment, NeedsComment
    <3>2. k.todo = [r EXCEPT !.store[InstanceFile].comment = 1] /\ comments' = 1
      BY <1>1, <1>3, <2>3, <3>1 DEF Executed
    <3>3. Numbered(k.todo.store)
      BY <2>2, <3>2, NumberRecorded
    <3>4. jobs' = {k}
      BY <1>1, OnlyJob DEF Executed, Becomes
    <3>5. Numbered(store') /\ Numbered(k.clone)
      BY <1>1, <1>2, <2>1 DEF Executed, Numbered, Started
    <3>6. used'["start"] = 1 /\ \A w \in waiting' : w.command # "start"
      BY <1>2, <1>3, <1>5 DEF StartsOnce
    <3> QED
      BY <1>1, <3>2, <3>3, <3>4, <3>5, <3>6 DEF Executed, Told
  <2>4. CASE ~r.tells
    <3>1. k.todo = r /\ comments' = 0 /\ ~Started'
      BY <1>1, <1>2, <1>3, <2>1, <2>4 DEF Executed, Started
    <3> QED
      BY <1>1, <1>2, <1>5, <2>2, <2>4, <3>1, UntoldBecomes DEF Executed
  <2> QED
    BY <2>3, <2>4
<1>6. CASE j.command # "start"
  <2>1. j.command \in Replies
    BY <1>3, <1>6 DEF JobOK
  <2>2. r = Quiet(store)
    <3>1. CASE Started
      BY <1>3, <1>4, <2>1, <3>1, ReplyTooEarly DEF Untold
    <3>2. CASE ~Started
      BY <1>3, <1>4, <2>1, <3>2, BlankPlan DEF UntilStarted
    <3> QED
      BY <3>1, <3>2
  <2>3. ~r.tells /\ Inert(r)
    BY <2>2 DEF Quiet, Result, Inert
  <2>4. k.todo = r /\ comments' = 0 /\ (Started' => JustStarted(store'))
    BY <1>1, <1>2, <1>3, <2>3 DEF Executed, Untold, Started
  <2> QED
    BY <1>1, <1>2, <1>6, <2>3, <2>4, UntoldBecomes DEF Executed
<1>7. QED
  BY <1>5, <1>6

LEMMA ToldExecute ==
  ASSUME EngineInv, Told, NEW j \in jobs, Execute(j)
  PROVE  Told'
<1>0. PICK r \in Outcomes(store, j) : \E k : Executed(j, r, k)
  BY ExecuteIs
<1>1. PICK k : Executed(j, r, k)
  BY <1>0
<1>2. UNCHANGED <<store, waiting, check, used>> /\ j.stage = "ready"
  BY DEF Execute
<1>3. StoreOK(store) /\ JobOK(j) /\ UntilStarted /\ Numbered(store) /\ j.command # "start"
  BY <1>2 DEF EngineInv, Told
<1>4. Numbered(r.store)
  <2>1. CASE Started
    <3>1. CommentKept(store, r.store)
      BY <1>3, <2>1, OutcomeComment
    <3> QED
      BY <1>3, <2>1, <3>1 DEF CommentKept, Numbered, Started
  <2>2. CASE ~Started
    <3>1. j.role = "plan" /\ j.command \in Replies /\ \A f \in Files : store[f] = Missing
      BY <1>3, <2>2 DEF UntilStarted
    <3>2. r \in Plan(store, j.command, j.path, j.said)
      BY <3>1 DEF Outcomes
    <3>3. r = Quiet(store)
      BY <1>3, <3>1, <3>2, BlankPlan
    <3> QED
      BY <1>3, <3>3 DEF Quiet, Result
  <2> QED
    BY <2>1, <2>2
<1>5. ~NeedsComment(r.store)
  BY <1>4 DEF NeedsComment, Numbered
<1>6. k.todo = r /\ comments' = comments
  BY <1>1, <1>5 DEF Executed
<1>7. Numbered(store') /\ Numbered(k.clone) /\ Numbered(k.todo.store)
  BY <1>1, <1>2, <1>3, <1>4, <1>6 DEF Executed, Numbered
<1>8. QED
  BY <1>1, <1>2, <1>6, <1>7, ToldBecomes DEF Executed

LEMMA CommentReport ==
  ASSUME EngineInv, Untold \/ Told, NEW j \in jobs, Report(j)
  PROVE  Untold' \/ Told'
<1>1. PICK k : /\ Becomes(j, k)
               /\ JobOK(k) /\ k.group = j.group /\ k.role = j.role /\ k.command = j.command
               /\ k.path = j.path /\ k.said = j.said
               /\ k.stage = "edited" /\ k.clone = j.clone
               /\ k.todo.store = j.todo.store /\ k.todo.push = j.todo.push
               /\ k.todo.emit = j.todo.emit /\ k.todo.runs = j.todo.runs
               /\ k.todo.legs = j.todo.legs
  BY ReportOK
<1>2. UNCHANGED <<store, waiting, comments, used>> /\ j.stage = "edited"
  BY DEF Report
<1>3. CASE Untold
  BY <1>1, <1>2, <1>3, UntoldBecomes DEF Untold, Inert, Started, JustStarted
<1>4. CASE Told
  BY <1>1, <1>2, <1>4, ToldBecomes DEF Told, Numbered
<1>5. QED
  BY <1>3, <1>4

LEMMA CommentPush ==
  ASSUME EngineInv, OneStart, used["start"] <= 1, Untold \/ Told, NEW j \in jobs, Push(j)
  PROVE  Untold' \/ Told'
<1>1. PICK k : /\ Becomes(j, k)
               /\ JobOK(k) /\ k.group = j.group /\ k.role = j.role /\ k.command = j.command
               /\ k.path = j.path /\ k.said = j.said
               /\ k.stage = "pushed" /\ k.clone = Rebased(j) /\ k.todo = j.todo
  BY PushOK
<1>2. /\ UNCHANGED <<waiting, comments, used>> /\ store' = Rebased(j)
      /\ j.stage = "edited" /\ j.todo.push
  BY DEF Push, Pushing
<1>3. \A f \in Files : store'[f] = IF f \in Edited(j) THEN j.todo.store[f] ELSE store[f]
  BY <1>2, RebasedIs
<1>4. InstanceFile \in Files /\ \A g \in LegGates : NodeFile(g) \in Files
  BY FilesAre DEF LegGates
<1>5. CASE Untold
  <2>1. j.command = "start"
    BY <1>2, <1>5 DEF Untold, Inert
  <2>2. ~Started /\ \A f \in Files : j.clone[f] = Missing
    BY <1>2, <2>1 DEF OneStart, StartsOnce, ClonesKept
  <2>3. \A f \in Files : store[f] = Missing
    BY <2>2 DEF EngineInv, UntilStarted
  <2>4. \A f \in Files : store'[f] = j.todo.store[f]
    BY <1>3, <2>2, <2>3 DEF Edited
  <2>5. j.todo.runs /\ j.todo.push /\ JustStarted(j.todo.store) /\ comments' = 0
    BY <1>2, <1>5, <2>1 DEF Untold
  <2>6. JustStarted(store')
    BY <1>4, <2>4, <2>5 DEF JustStarted
  <2> QED
    BY <1>1, <1>2, <1>5, <2>1, <2>5, <2>6, UntoldBecomes
<1>6. CASE Told
  <2>1. Numbered(store) /\ Numbered(j.todo.store)
    BY <1>2, <1>6 DEF Told
  <2>2. Numbered(store')
    BY <1>3, <1>4, <2>1 DEF Numbered
  <2> QED
    BY <1>1, <1>2, <1>6, <2>1, <2>2, ToldBecomes
<1>7. QED
  BY <1>5, <1>6

LEMMA CommentMark ==
  ASSUME EngineInv, Untold \/ Told, NEW j \in jobs, MarkInProgress(j)
  PROVE  Untold' \/ Told'
<1>1. PICK k : /\ Becomes(j, k)
               /\ JobOK(k) /\ k.group = j.group /\ k.role = j.role /\ k.command = j.command
               /\ k.path = j.path /\ k.said = j.said
               /\ k.stage = "marked" /\ k.clone = j.clone /\ k.todo = j.todo
  BY MarkOK
<1>2. UNCHANGED <<store, waiting, comments, used>> /\ Landed(j) /\ j.todo.runs
  BY DEF MarkInProgress
<1>3. CASE Untold
  <2>1. j.command = "start"
    BY <1>2, <1>3 DEF Untold, Landed, Inert
  <2>2. j.todo.runs /\ j.todo.push /\ JustStarted(j.todo.store) /\ comments' = 0
    BY <1>2, <1>3, <2>1 DEF Untold, Landed
  <2>3. j.clone = store' /\ (Started' => JustStarted(store'))
    BY <1>2, <1>3, <2>2 DEF Untold, Landed, Started
  <2> QED
    BY <1>1, <1>2, <1>3, <2>1, <2>2, <2>3, UntoldBecomes
<1>4. CASE Told
  <2>1. Numbered(store') /\ Numbered(j.clone) /\ Numbered(j.todo.store)
    BY <1>2, <1>4 DEF Told, Landed, Numbered
  <2> QED
    BY <1>1, <1>2, <1>4, <2>1, ToldBecomes
<1>5. QED
  BY <1>3, <1>4

\* A marked start records the comment on the branch it pushed; another job knows of it.
LEMMA CommentLegs ==
  ASSUME EngineInv, OneStart, used["start"] <= 1, HasComment, Untold \/ Told, NEW j \in jobs,
         StartLegs(j) \/ StartLegsWithComment(j)
  PROVE  Untold' \/ Told'
<1>1. j.stage = "marked" /\ Schedule(Dispatched(j), {}) /\ UNCHANGED used
  BY DEF StartLegs, StartLegsWithComment
<1>2. /\ \A k \in Dispatched(j) : JobOK(k)
      /\ \A k \in Dispatched(j) :
           k \in jobs \ {j} \/ (k.stage = "ready" /\ k.role = "leg" /\ k.command = None)
      /\ Exclusive(Dispatched(j)) /\ Started
  BY <1>1, DispatchedOK
<1>3. StoreOK(store) /\ store[InstanceFile] # Missing /\ comments \in Nat /\ used["start"] \in Nat
  BY <1>2 DEF EngineInv, Started, Bounds
<1>4. CASE Untold
  <2>1. /\ j.command = "start" /\ j.clone = store /\ JustStarted(store) /\ comments = 0
        /\ jobs = {j}
    BY <1>1, <1>2, <1>4, OnlyJob DEF Untold
  <2>2. NeedsComment(j.clone)
    BY <2>1 DEF NeedsComment, HasComment, JustStarted
  <2>3. comments' = 1 /\ store' = [store EXCEPT ![InstanceFile].comment = 1]
    BY <2>1, <2>2 DEF StartLegs, StartLegsWithComment
  <2>4. store'[InstanceFile].comment = 1
    BY <1>3, <2>3, StoresAre DEF Instances
  <2>5. used'["start"] = 1 /\ \A w \in waiting : w.command # "start"
    BY <1>1, <1>3, <2>1 DEF OneStart, StartsOnce
  <2>6. \A k \in Dispatched(j) : k.stage = "ready" /\ k.command # "start"
    BY <1>2, <2>1 DEF None
  <2>7. /\ \A w \in waiting : EventOK(w)
        /\ \A v, w \in waiting : Group(v) = Group(w) => v = w
    BY DEF EngineInv, GroupsExclusive
  <2>8. /\ \A k \in jobs' : \/ k \in Dispatched(j)
                            \/ \E w \in waiting : k = Queued(w)
        /\ waiting' \subseteq waiting
    BY <1>1, <1>2, <2>7, ScheduleOK
  <2>9. \A k \in jobs' : k.stage = "ready" /\ k.command # "start"
    BY <2>5, <2>6, <2>7, <2>8, QueuedOK
  <2> QED
    BY <2>3, <2>4, <2>5, <2>8, <2>9 DEF Told, Numbered
<1>5. CASE Told
  <2>1. ~NeedsComment(j.clone)
    BY <1>1, <1>5 DEF Told, NeedsComment, Numbered
  <2>2. UNCHANGED <<store, comments>>
    BY <2>1 DEF StartLegs, StartLegsWithComment
  <2>3. Numbered(store') /\ used'["start"] = used["start"]
    BY <1>1, <1>5, <2>2 DEF Told, Numbered
  <2>4. \A k \in Dispatched(j) : k \in jobs \/ (k.stage = "ready" /\ k.command # "start")
    BY <1>2 DEF None
  <2> QED
    BY <1>1, <1>2, <1>5, <2>2, <2>3, <2>4, ToldArrives
<1>6. QED
  BY <1>4, <1>5

LEMMA CommentEnds ==
  ASSUME EngineInv, HasComment, Untold \/ Told, NEW j \in jobs,
         FailPush(j) \/ Finish(j) \/ FailComment(j) \/ Die(j)
  PROVE  Untold' \/ Told'
<1>1. CASE FailPush(j)
  <2>1. Leave(j, {}) /\ UNCHANGED <<store, comments, used>>
    BY <1>1 DEF FailPush
  <2> QED
    BY <2>1, UntoldLeaves, ToldLeaves, NothingIsEmitted
<1>2. CASE Finish(j)
  <2>1. Landed(j) /\ ~j.todo.runs /\ Leave(j, j.todo.emit) /\ UNCHANGED <<store, comments, used>>
    BY <1>2 DEF Finish
  <2>2. EmitOK(j.todo.emit)
    BY <2>1, LandedStarted DEF TodoOK
  <2>3. CASE Untold
    <3>1. j.todo.emit = {}
      BY <2>1, <2>3 DEF Untold, Landed, Inert
    <3> QED
      BY <2>1, <2>3, <3>1, UntoldLeaves
  <2>4. CASE Told
    BY <2>1, <2>2, <2>4, ToldLeaves
  <2> QED
    BY <2>3, <2>4
<1>3. CASE FailComment(j)
  <2>1. j.stage = "marked" /\ NeedsComment(j.clone) /\ store[InstanceFile] # j.clone[InstanceFile]
    BY <1>3 DEF FailComment
  <2> QED
    BY <2>1 DEF Untold, Told, NeedsComment, Numbered
<1>4. CASE Die(j)
  <2>1. Leave(j, {}) /\ UNCHANGED <<store, comments>> /\ Use("death")
    BY <1>4 DEF Die
  <2>2. used'["start"] = used["start"]
    BY <2>1, UseOK DEF Bounds
  <2> QED
    BY <2>1, <2>2, UntoldLeaves, ToldLeaves, NothingIsEmitted
<1>5. QED
  BY <1>1, <1>2, <1>3, <1>4

LEMMA CommentReply ==
  ASSUME EngineInv, HasComment, Untold \/ Told, NEW command, NEW said, Comment(command, said),
         used'["start"] <= 1
  PROVE  Untold' \/ Told'
<1> DEFINE e == Event("engine", command, <<>>, said)
<1>1. /\ Schedule(jobs, {e}) /\ UNCHANGED <<store, comments>>
      /\ Use(IF command = "start" THEN "start" ELSE "reply")
      /\ command \in Replies \union {"start"}
  BY CommandsAssumption DEF HasComment, Comment
<1>2. EventOK(e) /\ Group(e) = RootGroup /\ e.command = command
  BY <1>1, EmptySeq DEF Event, EventOK, Workflows, Paths, Group, RootGroup
<1>3. command # "continue"
  BY <1>1 DEF Replies
<1>4. (\A k \in jobs : JobOK(k)) /\ Exclusive(jobs) /\ used["start"] \in Nat
  BY DEF EngineInv, GroupsExclusive, Exclusive, Bounds
<1> HIDE DEF e
<1>5. CASE Untold
  BY <1>1, <1>2, <1>3, <1>5, UntoldArrives
<1>6. CASE Told
  <2>1. command # "start" /\ used'["start"] = used["start"]
    BY <1>1, <1>4, <1>6, UseOK DEF Bounds, Told
  <2>2. Numbered(store')
    BY <1>1, <1>6 DEF Told, Numbered
  <2> QED
    BY <1>1, <1>2, <1>4, <1>6, <2>1, <2>2, ToldArrives
<1>7. QED
  BY <1>5, <1>6

\* Where there is no comment none is created.
LEMMA NoComment ==
  ASSUME ~HasComment, [Next]_vars
  PROVE  UNCHANGED comments
<1>1. \A S : ~NeedsComment(S)
  BY DEF NeedsComment, HasComment
<1>2. QED
  BY <1>1 DEF Next, Work, Step, Execute, Report, Push, FailPush, Finish, MarkInProgress,
     StartLegs, StartLegsWithComment, FailComment, Comment, Redeliver, Die, vars

LEMMA CommentNext == EngineInv /\ OneStart /\ CommentInv /\ [Next]_vars => CommentInv'
<1> SUFFICES ASSUME EngineInv, OneStart, CommentInv, [Next]_vars,
                    used'["start"] <= 1, used'["redelivery"] = 0
             PROVE  IF HasComment THEN Untold' \/ Told' ELSE comments' = 0
  BY DEF CommentInv, HasComment
<1>1. used["start"] <= 1 /\ used["redelivery"] = 0
  BY RegimeBefore
<1>2. CASE ~HasComment
  BY <1>1, <1>2, NoComment DEF CommentInv
<1>3. CASE HasComment
  <2>1. Untold \/ Told
    BY <1>1, <1>3 DEF CommentInv
  <2>2. CASE Work
    <3>1. PICK j \in jobs : Step(j)
      BY <2>2 DEF Work
    <3> QED
      BY <1>1, <1>3, <2>1, <3>1, UntoldExecute, ToldExecute, CommentReport, CommentPush,
         CommentMark, CommentLegs, CommentEnds DEF Step
  <2>3. CASE \E command \in Commands : \E said \in SaidWith(command) : Comment(command, said)
    BY <1>3, <2>1, <2>3, CommentReply
  <2>4. CASE \E p \in DOMAIN Tree \ {<<>>} : Redeliver(p)
    <3>1. Use("redelivery")
      BY <2>4 DEF Redeliver
    <3> QED
      BY <1>1, <3>1, UseOK DEF Bounds
  <2>5. CASE \E j \in jobs : Die(j)
    BY <1>3, <2>1, <2>5, CommentEnds
  <2>6. CASE UNCHANGED vars
    <3>1. UNCHANGED <<store, jobs, waiting, check, comments, used>>
      BY <2>6 DEF vars
    <3>2. (Started <=> Started') /\ \A S : JustStarted(S) <=> JustStarted(S)'
      BY <3>1 DEF Started, JustStarted
    <3>3. Untold => Untold'
      BY <3>1, <3>2 DEF Untold, Inert, Group
    <3>4. Told => Told'
      BY <3>1 DEF Told, Numbered
    <3> QED
      BY <1>3, <2>1, <3>3, <3>4
  <2> QED
    BY <2>2, <2>3, <2>4, <2>5, <2>6 DEF Next
<1>4. QED
  BY <1>2, <1>3

LEMMA InitComment == Init => CommentInv
<1> SUFFICES ASSUME Init PROVE CommentInv
  OBVIOUS
<1>1. ~Started
  BY FilesAre DEF Init, Started
<1>2. QED
  BY <1>1 DEF Init, CommentInv, Untold

\* ensure_status_comment is a create-once guard: a run that is started once, and whose
\* events are not sent again by hand, has at most one status comment, whatever dies and
\* whoever comments meanwhile.
THEOREM CommentOnce ==
  Spec => [](used["start"] <= 1 /\ used["redelivery"] = 0 => CommentCreatedOnce)
<1>1. EngineInv /\ OneStart /\ CommentInv =>
        (used["start"] <= 1 /\ used["redelivery"] = 0 => CommentCreatedOnce)
  <2> SUFFICES ASSUME EngineInv, CommentInv, used["start"] <= 1, used["redelivery"] = 0
               PROVE  comments <= used["start"]
    BY DEF CommentCreatedOnce
  <2>1. used["start"] \in Nat
    BY DEF EngineInv, Bounds
  <2>2. comments = 0 \/ (comments = 1 /\ used["start"] = 1)
    BY DEF CommentInv, Untold, Told
  <2> QED
    BY <2>1, <2>2
<1>2. QED
  BY <1>1, CommentNext, InitComment, InitOneStart, OneStartNext, EngineInvariant, PTL DEF Spec
=============================================================================

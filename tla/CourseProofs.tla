---------------------------- MODULE CourseProofs -----------------------------
(***************************************************************************)
(* The order in which the threads of an instance pass their nodes, for     *)
(* every protocol that leads on: what a thread has passed is finished,     *)
(* what is ahead of it untouched, and a barrier in between is closed with  *)
(* the outcome of its legs.                                                *)
(***************************************************************************)
EXTENDS ThreadProofs
-----------------------------------------------------------------------------
(* The order of a protocol. *)

\* What a thread has to have finished before it goes on.
Stations == {"agent", "fanout", "gate"}
Sequential(t) == t = <<>> \/ (t \in DOMAIN Tree /\ NodeKind(t) = "sequence")
Nth(t, k) == Child(t, Children(t)[k])
Station(t, k) == NodeKind(Nth(t, k)) \in Stations

\* From the k-th child of t to `id`, or to the end if t has no such child: forwards,
\* and past nothing that is to be done.
LeadsOn(t, k, id) ==
  IF id \in ChildIds(t)
  THEN \E i \in DOMAIN Children(t) :
         k < i /\ Children(t)[i] = id /\ \A m \in k + 1 .. i - 1 : ~Station(t, m)
  ELSE \A m \in DOMAIN Children(t) : k < m => ~Station(t, m)

\* Where the join over fan-out p leads.
NextOver(p) ==
  LET joins == JoinsOver(ParentPath(p), LastId(p)) IN
  IF joins = <<>> THEN None ELSE Tree[joins[1]].next

\* The nodes of a sequence have different names, the joins in it lead on, a fan-out of
\* the root has a join, and a merge comes last.
Straight == \A t \in DOMAIN Tree : Sequential(t) =>
  \A k \in DOMAIN Children(t) :
    /\ \A i \in DOMAIN Children(t) : Children(t)[i] = Children(t)[k] => i = k
    /\ NodeKind(Nth(t, k)) = "fanout" =>
         /\ LeadsOn(t, k, NextOver(Nth(t, k)))
         /\ t = <<>> => JoinsOver(<<>>, Children(t)[k]) # <<>>
    /\ NodeKind(Nth(t, k)) = "merge" => LeadsOn(t, k, None)

-----------------------------------------------------------------------------
(* Where a thread is on its course. *)

\* The file a thread is recorded in, where it is, and whether it has come to its end.
ThreadFile(t) == IF t = <<>> THEN InstanceFile ELSE NodeFile(t)
Stage(S, t) == IF t = <<>> THEN S[InstanceFile].phase ELSE S[NodeFile(t)].sub_state
Complete(S, t) ==
  IF t = <<>> THEN S[InstanceFile].label = "done" ELSE S[NodeFile(t)].state = "done"

\* The k-th child of t is before the one the thread is at; after it.
Passed(S, t, k) == \E i \in DOMAIN Children(t) : k < i /\ Children(t)[i] = Stage(S, t)
Ahead(S, t, k) == \E i \in DOMAIN Children(t) : i < k /\ Children(t)[i] = Stage(S, t)

\* Nothing has been written at c or below it.
Untouched(S, c) == \A f \in Files \ Strays : Above(c, f[2]) => S[f] = Missing

Closed(S, c) == AllTerminal(S, c, c)
Clears(S, c) == PolicyMet(S, c, c, PolicyOver(c))

Finished(S, c) ==
  CASE NodeKind(c) = "agent" ->
         StateOf(S, c) = "done" \/ (Len(c) = 1 /\ LastId(c) \in S[InstanceFile].overrides)
    [] NodeKind(c) = "fanout" -> Closed(S, c) /\ Clears(S, c)
    [] NodeKind(c) = "gate" ->
         /\ S[NodeFile(c)] # Missing
         /\ IF Len(c) = 1 THEN S[NodeFile(c)].gate = "approved"
            ELSE /\ S[NodeFile(c)].gate = "answered"
                 /\ S[NodeFile(c)].questions \subseteq AnsweredAt(S, c)
    [] OTHER -> TRUE

\* The barrier of a fan-out in leg t: closed with its outcome once the legs are over,
\* and then the leg has gone on or is over; open, it holds the leg.
Barred(S, t, k) ==
  LET c == Nth(t, k)
      cursor == S[NodeFile(t)] IN
  IF S[JoinFile(c)].joined
  THEN /\ Closed(S, c)
       /\ S[JoinFile(c)].failed = ~Clears(S, c)
       /\ IF S[JoinFile(c)].failed THEN cursor.state = "failed"
          ELSE cursor.state = "done" \/ Passed(S, t, k)
  ELSE cursor.state \notin Terminal => cursor.sub_state = LastId(c)

\* What thread t has passed is finished, what is ahead of it untouched.
InOrder(S, t, k) ==
  /\ Passed(S, t, k) \/ Complete(S, t) => Finished(S, Nth(t, k))
  /\ Ahead(S, t, k) => Untouched(S, Nth(t, k))
  /\ Nth(t, k) \in NestedFanouts /\ S[JoinFile(Nth(t, k))] # Missing => Barred(S, t, k)

OnCourse(S, t) ==
  IF S[ThreadFile(t)] = Missing THEN Untouched(S, t)
  ELSE /\ Children(t) # <<>> => Stage(S, t) \in ChildIds(t)
       /\ \A k \in DOMAIN Children(t) : InOrder(S, t, k)

Course(S) == \A t \in DOMAIN Tree : IsThread(t) => OnCourse(S, t)

\* A thread that is at q has come to q, and has not been there before.
Arrived(S, q) ==
  /\ Thread(q) = <<>> => S[InstanceFile].label # "done"
  /\ Thread(q) \notin {<<>>, q} => S[NodeFile(Thread(q))].sub_state = LastId(q)
  /\ IF q \in Units THEN StateOf(S, q) \notin Terminal ELSE Untouched(S, q)

\* A unit that is over stays as it is.
Steady(S, T) == \A p \in Units : StateOf(S, p) \in Terminal => StateOf(T, p) = StateOf(S, p)

\* The result r of a script on S keeps the order.
InCourse(S, r) ==
  /\ Course(r.store)
  /\ Steady(S, r.store)
  /\ \A q \in Hands(r) : Arrived(r.store, q)

Courses ==
  /\ Course(store)
  /\ \A q \in AtAll : Arrived(store, q)
  /\ \A j \in jobs : Editing(j) => InCourse(j.clone, j.todo)

CourseInv == Calm /\ Straight => Courses

-----------------------------------------------------------------------------
(* The children of a thread. *)

LEMMA NthIs ==
  ASSUME NEW t, IsThread(t), NEW k \in DOMAIN Children(t)
  PROVE  LET c == Nth(t, k) IN
         /\ c \in DOMAIN Tree \ {<<>>} /\ c \in Seq(STRING)
         /\ ParentPath(c) = t /\ LastId(c) = Children(t)[k] /\ Children(t)[k] \in ChildIds(t)
         /\ Len(c) = Len(t) + 1 /\ (Len(c) = 1 <=> t = <<>>)
         /\ Above(t, c) /\ ~Above(c, t) /\ c # t
         /\ ~IsLeg(c) /\ Thread(c) = t
         /\ NodeKind(c) # "sequence" /\ Sequential(t)
         /\ c \in NestedFanouts <=> NodeKind(c) = "fanout" /\ t # <<>>
<1> DEFINE c == Nth(t, k)
<1>1. t \in DOMAIN Tree /\ t \in Seq(STRING) /\ (t # <<>> => IsLeg(t))
  BY ThreadsAre
<1>2. Children(t)[k] \in ChildIds(t)
  BY DEF ChildIds
<1>3. /\ c \in DOMAIN Tree \ {<<>>} /\ c \in Seq(STRING) /\ ParentPath(c) = t
      /\ LastId(c) = Children(t)[k] /\ Len(c) = Len(t) + 1
  BY <1>1, <1>2, ChildrenAreNodes DEF Nth
<1>4. Above(t, c) /\ ~Above(c, t) /\ c # t
  BY <1>1, <1>3, AboveParent
<1>5. Sequential(t) /\ NodeKind(t) # "fanout"
  <2>1. CASE t = <<>>
    BY <2>1 DEF Sequential, NodeKind, None
  <2>2. CASE t # <<>>
    <3>1. NodeKind(t) \in {"agent", "sequence"} /\ t \in DOMAIN Tree \ {<<>>}
      BY <1>1, <2>2, LegsKind
    <3>2. Tree[t].kind \in Containers
      BY <1>1, <1>2, ChildrenAreNodes
    <3> QED
      BY <3>1, <3>2 DEF Sequential, NodeKind, Containers
  <2> QED
    BY <2>1, <2>2
<1>6. ~IsLeg(c)
  BY <1>3, <1>5 DEF IsLeg
<1>7. Thread(c) = t
  BY <1>3, <1>6, ThreadIs
<1>8. NodeKind(c) # "sequence"
  BY <1>3, <1>5, LegAssumption
<1>9. Len(c) = 1 <=> t = <<>>
  BY <1>3, <1>7, ThreadIs
<1>10. c \in NestedFanouts <=> NodeKind(c) = "fanout" /\ t # <<>>
  BY <1>3, <1>9 DEF NestedFanouts, IsRootChild
<1>11. QED
  BY <1>2, <1>3, <1>4, <1>5, <1>6, <1>7, <1>8, <1>9, <1>10

\* Two children of a node have nothing below both.
LEMMA ChildrenApart ==
  ASSUME NEW a \in Seq(STRING), NEW b \in Seq(STRING), NEW x \in Seq(STRING),
         Len(a) = Len(b), Above(a, x), Above(b, x)
  PROVE  a = b
<1>1. Above(a, b) \/ Above(b, a)
  BY AboveOrder
<1>2. Above(a, b) /\ Above(b, a)
  BY <1>1, AboveIs
<1>3. QED
  BY <1>2, AboveOrder

\* A thread below t is not t's child, nor above one of t's children.
LEMMA ThreadsBelow ==
  ASSUME NEW t, IsThread(t), NEW u, IsThread(u), u # t, Above(t, u),
         NEW x \in Seq(STRING), Above(u, x)
  PROVE  /\ x # t
         /\ \A k \in DOMAIN Children(t) : x # Nth(t, k)
         /\ u \in DOMAIN Tree \ {<<>>} /\ IsLeg(u)
<1>1. t \in Seq(STRING) /\ u \in Seq(STRING) /\ u \in DOMAIN Tree
  BY ThreadsAre
<1>2. u # <<>>
  <2> SUFFICES ASSUME u = <<>> PROVE FALSE
    OBVIOUS
  <2>1. Above(<<>>, t)
    BY <1>1, AboveOrder
  <2> QED
    BY <1>1, <2>1, AboveOrder
<1>3. x # t
  BY <1>1, AboveOrder
<1>4. IsLeg(u)
  BY <1>2 DEF IsThread
<1>5. ASSUME NEW k \in DOMAIN Children(t), x = Nth(t, k) PROVE FALSE
  <2>1. x \in DOMAIN Tree \ {<<>>} /\ ParentPath(x) = t /\ ~IsLeg(x)
    BY <1>5, NthIs
  <2>2. u # x
    BY <1>4, <2>1
  <2>3. Above(u, t)
    BY <1>1, <2>1, <2>2, AboveParent
  <2> QED
    BY <1>1, <2>3, AboveOrder
<1>6. QED
  BY <1>1, <1>2, <1>3, <1>4, <1>5

(* What the order of a thread reads. *)

LEMMA SameState ==
  ASSUME GatesApart, NEW S, NEW T, DOMAIN S = Files, DOMAIN T = Files,
         NEW c, Agree(S, T, c), NEW x \in DOMAIN Tree \ {<<>>}, HasFile(x), Above(c, x)
  PROVE  T[NodeFile(x)] = S[NodeFile(x)] /\ StateOf(T, x) = StateOf(S, x)
<1>1. NodeFile(x) \in Files \ Strays /\ NodeFile(x)[2] = x
  BY NotStray, FilePaths
<1>2. T[NodeFile(x)] = S[NodeFile(x)]
  BY <1>1 DEF Agree
<1>3. QED
  BY <1>1, <1>2 DEF StateOf, Read

LEMMA SameBarrier ==
  ASSUME GatesApart, NEW S, StoreOK(S), NEW T, DOMAIN T = Files,
         NEW c \in DOMAIN Tree \ {<<>>}, NodeKind(c) = "fanout", Agree(S, T, c)
  PROVE  /\ LegIds(T, c) = LegIds(S, c)
         /\ Closed(T, c) <=> Closed(S, c)
         /\ Clears(T, c) <=> Clears(S, c)
         /\ c \in NestedFanouts => T[JoinFile(c)] = S[JoinFile(c)]
<1>1. DOMAIN S = Files /\ c \in Seq(STRING)
  BY NodesAreChildren DEF StoreOK
<1>2. Above(c, c)
  BY <1>1, AboveOrder
<1>3. LegIds(T, c) = LegIds(S, c)
  <2>1. IsDynamic(c) => T[ManifestFile(c)] = S[ManifestFile(c)] /\ ManifestFile(c) \in Files
    BY <1>2, NotStray, FilePaths DEF Agree
  <2> QED
    BY <1>1, <2>1 DEF LegIds, Read
<1>4. \A l \in LegIds(S, c) : StateOf(T, Child(c, l)) = StateOf(S, Child(c, l))
  <2> SUFFICES ASSUME NEW l \in LegIds(S, c) PROVE StateOf(T, Child(c, l)) = StateOf(S, Child(c, l))
    OBVIOUS
  <2>1. l \in ChildIds(c)
    BY LegIdsAreChildren
  <2>2. /\ Child(c, l) \in DOMAIN Tree \ {<<>>} /\ Above(c, Child(c, l))
        /\ NodeKind(Child(c, l)) \in {"agent", "sequence"}
    BY <2>1, LeafIs
  <2> QED
    BY <1>1, <2>2, SameState DEF HasFile
<1>5. Closed(T, c) <=> Closed(S, c)
  BY <1>3, <1>4 DEF Closed, AllTerminal
<1>6. {l \in LegIds(T, c) : StateOf(T, Child(c, l)) = "done"}
        = {l \in LegIds(S, c) : StateOf(S, Child(c, l)) = "done"}
  BY <1>3, <1>4
<1>7. Clears(T, c) <=> Clears(S, c)
  BY <1>3, <1>6 DEF Clears, PolicyMet
<1>8. c \in NestedFanouts => T[JoinFile(c)] = S[JoinFile(c)]
  BY <1>2, NotStray, FilePaths DEF Agree
<1>9. QED
  BY <1>3, <1>5, <1>7, <1>8

LEMMA SameAnswers ==
  ASSUME GatesApart, NEW S, NEW T, DOMAIN S = Files, DOMAIN T = Files,
         NEW c \in LegGates, Agree(S, T, c)
  PROVE  AnsweredAt(T, c) = AnsweredAt(S, c)
<1>1. c \in DOMAIN Tree /\ c # <<>>
  BY DEF LegGates, NodeKind, None
<1>2. Above(c, c)
  BY <1>1, NodesAreChildren, AboveOrder
<1>3. AnswersFile(c) \in Files \ Strays /\ AnswersFile(c)[2] = c
  BY FilesAre, NoStrays, FilePaths
<1>4. T[AnswersFile(c)] = S[AnswersFile(c)]
  BY <1>2, <1>3 DEF Agree
<1>5. QED
  BY <1>4 DEF AnsweredAt

\* What is finished stays so while nothing is written at it or below.
LEMMA FinishedSame ==
  ASSUME GatesApart, NEW S, StoreOK(S), NEW T, DOMAIN T = Files,
         NEW c \in DOMAIN Tree \ {<<>>}, Agree(S, T, c), Finished(S, c),
         Len(c) = 1 => S[InstanceFile].overrides \subseteq T[InstanceFile].overrides
  PROVE  Finished(T, c)
<1>1. DOMAIN S = Files /\ Above(c, c)
  BY NodesAreChildren, AboveOrder DEF StoreOK
<1>2. CASE NodeKind(c) = "agent"
  <2>1. StateOf(T, c) = StateOf(S, c)
    BY <1>1, <1>2, SameState DEF HasFile
  <2> QED
    BY <1>2, <2>1 DEF Finished
<1>3. CASE NodeKind(c) = "fanout"
  BY <1>3, SameBarrier DEF Finished
<1>4. CASE NodeKind(c) = "gate"
  <2>1. T[NodeFile(c)] = S[NodeFile(c)]
    BY <1>1, <1>4, SameState DEF HasFile
  <2>2. Len(c) # 1 => AnsweredAt(T, c) = AnsweredAt(S, c)
    BY <1>1, <1>4, SameAnswers DEF LegGates, IsRootChild
  <2> QED
    BY <1>4, <2>1, <2>2 DEF Finished
<1>5. CASE NodeKind(c) \notin Stations
  BY <1>5 DEF Finished, Stations
<1>6. QED
  BY <1>2, <1>3, <1>4, <1>5 DEF Stations

LEMMA UntouchedSame ==
  ASSUME NEW S, NEW T, NEW c, Agree(S, T, c)
  PROVE  Untouched(S, c) => Untouched(T, c)
BY DEF Agree, Untouched

\* What is untouched above is untouched below.
LEMMA UntouchedBelow ==
  ASSUME NEW S, NEW c \in Seq(STRING), NEW x \in Seq(STRING), Above(c, x), Untouched(S, c)
  PROVE  Untouched(S, x)
BY FilesAt, AboveOrder DEF Untouched

LEMMA AgreeBelow ==
  ASSUME NEW S, NEW T, NEW c \in Seq(STRING), NEW x \in Seq(STRING), Above(c, x), Agree(S, T, c)
  PROVE  Agree(S, T, x)
BY FilesAt, AboveOrder DEF Agree

\* A child's place in the order, where nothing changes at it or below, and the thread
\* stays where it is.
LEMMA ChildSame ==
  ASSUME GatesApart, NEW S, StoreOK(S), NEW T, DOMAIN T = Files,
         NEW t, IsThread(t), NEW k \in DOMAIN Children(t), Agree(S, T, Nth(t, k)),
         Stage(T, t) = Stage(S, t), Complete(T, t) => Complete(S, t),
         t # <<>> => T[NodeFile(t)] = S[NodeFile(t)],
         t = <<>> => S[InstanceFile].overrides \subseteq T[InstanceFile].overrides,
         InOrder(S, t, k)
  PROVE  InOrder(T, t, k)
<1> DEFINE c == Nth(t, k)
<1>1. /\ c \in DOMAIN Tree \ {<<>>} /\ (Len(c) = 1 <=> t = <<>>)
      /\ c \in NestedFanouts <=> NodeKind(c) = "fanout" /\ t # <<>>
  BY NthIs
<1>2. (Passed(T, t, k) <=> Passed(S, t, k)) /\ (Ahead(T, t, k) <=> Ahead(S, t, k))
  BY DEF Passed, Ahead
<1>3. Passed(T, t, k) \/ Complete(T, t) => Finished(T, c)
  <2> SUFFICES ASSUME Passed(T, t, k) \/ Complete(T, t) PROVE Finished(T, c)
    OBVIOUS
  <2>1. Finished(S, c)
    BY <1>2 DEF InOrder
  <2> QED
    BY <1>1, <2>1, FinishedSame
<1>4. Ahead(T, t, k) => Untouched(T, c)
  BY <1>2, UntouchedSame DEF InOrder
<1>5. c \in NestedFanouts /\ T[JoinFile(c)] # Missing => Barred(T, t, k)
  <2> SUFFICES ASSUME c \in NestedFanouts, T[JoinFile(c)] # Missing PROVE Barred(T, t, k)
    OBVIOUS
  <2>1. /\ T[JoinFile(c)] = S[JoinFile(c)] /\ (Closed(T, c) <=> Closed(S, c))
        /\ Clears(T, c) <=> Clears(S, c)
    BY <1>1, SameBarrier
  <2>2. Barred(S, t, k) /\ T[NodeFile(t)] = S[NodeFile(t)]
    BY <1>1, <2>1 DEF InOrder
  <2> QED
    BY <1>2, <2>1, <2>2 DEF Barred
<1>6. QED
  BY <1>3, <1>4, <1>5 DEF InOrder

\* So for a thread at and below which nothing changes; of the root, nothing but the
\* number of its comment.
LEMMA CourseSame ==
  ASSUME GatesApart, NEW S, StoreOK(S), NEW T, DOMAIN T = Files,
         NEW t, IsThread(t), OnCourse(S, t),
         IF t = <<>>
         THEN /\ \A f \in Files \ (Strays \union {InstanceFile}) : T[f] = S[f]
              /\ (T[InstanceFile] = Missing <=> S[InstanceFile] = Missing)
              /\ S[InstanceFile] # Missing =>
                   /\ T[InstanceFile].phase = S[InstanceFile].phase
                   /\ T[InstanceFile].label = S[InstanceFile].label
                   /\ T[InstanceFile].overrides = S[InstanceFile].overrides
         ELSE Agree(S, T, t)
  PROVE  OnCourse(T, t)
<1>1. t \in Seq(STRING) /\ Above(t, t) /\ (t # <<>> => t \in DOMAIN Tree \ {<<>>} /\ HasFile(t))
  BY ThreadsAre
<1>2. t # <<>> => T[NodeFile(t)] = S[NodeFile(t)]
  BY <1>1, SameState DEF StoreOK
<1>3. T[ThreadFile(t)] = Missing <=> S[ThreadFile(t)] = Missing
  BY <1>2 DEF ThreadFile
<1>4. CASE S[ThreadFile(t)] = Missing
  <2>1. Untouched(S, t)
    BY <1>4 DEF OnCourse
  <2>2. Untouched(T, t)
    <3>1. CASE t = <<>>
      <4>1. T[InstanceFile] = Missing
        BY <1>3, <1>4, <3>1 DEF ThreadFile
      <4> QED
        BY <2>1, <3>1, <4>1 DEF Untouched
    <3>2. CASE t # <<>>
      BY <2>1, <3>2, UntouchedSame
    <3> QED
      BY <3>1, <3>2
  <2> QED
    BY <1>3, <1>4, <2>2 DEF OnCourse
<1>5. CASE S[ThreadFile(t)] # Missing
  <2>1. Stage(T, t) = Stage(S, t) /\ (Complete(T, t) <=> Complete(S, t))
    BY <1>2, <1>5 DEF Stage, Complete, ThreadFile
  <2>2. t = <<>> => S[InstanceFile].overrides \subseteq T[InstanceFile].overrides
    BY <1>5 DEF ThreadFile
  <2>3. ASSUME NEW k \in DOMAIN Children(t) PROVE InOrder(T, t, k)
    <3> DEFINE c == Nth(t, k)
    <3>1. c \in Seq(STRING) /\ Above(t, c) /\ ~Above(c, t)
      BY NthIs
    <3>2. Agree(S, T, c)
      <4>1. CASE t = <<>>
        <5>1. ~Above(c, InstanceFile[2])
          BY <3>1, <4>1, FilePaths
        <5> QED
          BY <4>1, <5>1 DEF Agree
      <4>2. CASE t # <<>>
        BY <1>1, <3>1, <4>2, AgreeBelow
      <4> QED
        BY <4>1, <4>2
    <3>3. InOrder(S, t, k)
      BY <1>5 DEF OnCourse
    <3> QED
      BY <1>2, <2>1, <2>2, <3>2, <3>3, ChildSame
  <2> QED
    BY <1>3, <1>5, <2>1, <2>3 DEF OnCourse
<1>6. QED
  BY <1>4, <1>5

\* A fan-out with a leg that is expected and going is neither closed nor untouched.
LEMMA LegHolds ==
  ASSUME GatesApart, NEW S, DOMAIN S = Files, NEW x, IsLeg(x), Expected(S, x), Going(S, x)
  PROVE  LET c == ParentPath(x) IN
         ~Closed(S, c) /\ ~Finished(S, c) /\ ~Untouched(S, c) /\ NodeKind(c) = "fanout"
<1> DEFINE c == ParentPath(x)
<1>1. /\ x \in DOMAIN Tree \ {<<>>} /\ HasFile(x) /\ NodeKind(c) = "fanout" /\ Above(c, x)
      /\ x = Child(c, LastId(x))
  BY LegsParent
<1>2. NodeFile(x) \in Files \ Strays /\ NodeFile(x)[2] = x
  BY <1>1, NotStray, FilePaths
<1>3. S[NodeFile(x)] # Missing /\ S[NodeFile(x)].state \notin Terminal /\ LastId(x) \in LegIds(S, c)
  BY DEF Going, Present, Expected
<1>4. StateOf(S, Child(c, LastId(x))) \notin Terminal
  BY <1>1, <1>2, <1>3 DEF StateOf, Read
<1>5. ~Closed(S, c)
  BY <1>3, <1>4 DEF Closed, AllTerminal
<1>6. ~Untouched(S, c)
  BY <1>1, <1>2, <1>3 DEF Untouched
<1>7. ~Finished(S, c)
  BY <1>1, <1>5 DEF Finished
<1>8. QED
  BY <1>1, <1>5, <1>6, <1>7

\* What a leg writes does not put another thread off its course: a thread around it is
\* at the fan-out that waits for it.
LEMMA CourseAside ==
  ASSUME GatesApart, NEW S, StoreOK(S), NEW T, DOMAIN T = Files,
         NEW t, IsLeg(t), AgreeOutside(S, T, t), S[InstanceFile] # Missing, Inside(S, t),
         NEW u, IsThread(u), ~Above(t, u), OnCourse(S, u)
  PROVE  OnCourse(T, u)
<1>1. /\ t \in Seq(STRING) /\ t \in DOMAIN Tree \ {<<>>} /\ IsThread(t)
      /\ u \in Seq(STRING) /\ Above(u, u)
      /\ (u # <<>> => u \in DOMAIN Tree \ {<<>>} /\ HasFile(u) /\ IsLeg(u))
      /\ ~Above(t, <<>>)
  BY ThreadsAre DEF IsThread, IsLeg
<1>2. DOMAIN S = Files /\ Above(<<>>, t) /\ ~Above(t, <<>>)
  BY <1>1, AboveOrder, TreeAssumption DEF StoreOK
<1>3. CASE ~Above(u, t)
  <2>1. u # <<>>
    BY <1>2, <1>3
  <2>2. Agree(S, T, u)
    BY <1>1, <1>3, FilesAt, AboveOrder DEF Agree, AgreeOutside
  <2> QED
    BY <2>1, <2>2, CourseSame
<1>4. CASE Above(u, t)
  <2>1. T[InstanceFile] = S[InstanceFile]
    BY <1>2, NotStray, FilePaths DEF AgreeOutside
  <2>2. u # <<>> => T[NodeFile(u)] = S[NodeFile(u)]
    BY <1>1, NotStray, FilePaths DEF AgreeOutside
  <2>3. S[ThreadFile(u)] # Missing /\ T[ThreadFile(u)] # Missing
    <3>1. u # <<>> => S[NodeFile(u)] # Missing
      BY <1>1, <1>4 DEF Inside, Going, Present
    <3> QED
      BY <2>1, <2>2, <3>1 DEF ThreadFile
  <2>4. Stage(T, u) = Stage(S, u) /\ (Complete(T, u) <=> Complete(S, u))
    BY <2>1, <2>2 DEF Stage, Complete
  <2>5. ASSUME NEW k \in DOMAIN Children(u) PROVE InOrder(T, u, k)
    <3> DEFINE c == Nth(u, k)
    <3>1. /\ c \in DOMAIN Tree \ {<<>>} /\ c \in Seq(STRING) /\ ~IsLeg(c) /\ ParentPath(c) = u
          /\ NodeKind(c) # "sequence"
          /\ c \in NestedFanouts <=> NodeKind(c) = "fanout" /\ u # <<>>
      BY NthIs
    <3>2. InOrder(S, u, k)
      BY <2>3 DEF OnCourse
    <3>3. ~Above(t, c)
      <4>1. Above(t, c) => Above(t, u)
        BY <1>1, <3>1, AboveParent
      <4> QED
        BY <4>1
    <3>4. CASE Above(c, t)
      <4>1. Over(c, t)
        <5>1. c # t /\ Len(c) \in 0 .. Len(t)
          BY <1>1, <3>1, <3>4, AboveIs
        <5>2. Len(c) < Len(t)
          <6>1. Len(c) = Len(t) => Above(t, c)
            BY <1>1, <3>1, <3>4, AboveIs
          <6> QED
            BY <1>1, <3>1, <3>3, <5>1, <6>1
        <5>3. Tree[Prefix(t, Len(c))].kind \in Containers
          BY <1>1, <5>1, <5>2, PrefixesAreNodes
        <5>4. c = Prefix(t, Len(c))
          BY <3>4 DEF Above
        <5>5. Tree[c].kind \in Containers
          BY <5>3, <5>4
        <5>6. NodeKind(c) = "fanout"
          BY <3>1, <5>5, TreeAssumption DEF NodeKind, Containers
        <5> QED
          BY <3>4, <5>1, <5>6 DEF Over
      <4>2. PICK x : IsLeg(x) /\ ParentPath(x) = c /\ Above(x, t) /\ x \in DOMAIN Tree
        BY <1>1, <3>1, <4>1, LegBetween
      <4>3. Expected(S, x) /\ Going(S, x)
        BY <4>2 DEF Inside
      <4>4. ~Closed(S, c) /\ ~Finished(S, c) /\ ~Untouched(S, c)
        BY <1>2, <4>2, <4>3, LegHolds
      <4>5. ~Passed(T, u, k) /\ ~Complete(T, u) /\ ~Ahead(T, u, k)
        BY <2>4, <3>2, <4>4 DEF InOrder, Passed, Ahead
      <4>6. c \in NestedFanouts /\ T[JoinFile(c)] # Missing => Barred(T, u, k)
        <5> SUFFICES ASSUME c \in NestedFanouts, T[JoinFile(c)] # Missing PROVE Barred(T, u, k)
          OBVIOUS
        <5>1. T[JoinFile(c)] = S[JoinFile(c)]
          BY <3>3, NotStray, FilePaths DEF AgreeOutside
        <5>2. Barred(S, u, k) /\ T[NodeFile(u)] = S[NodeFile(u)]
          BY <2>2, <3>1, <3>2, <5>1 DEF InOrder
        <5> QED
          BY <4>4, <5>1, <5>2 DEF Barred
      <4> QED
        BY <4>5, <4>6 DEF InOrder
    <3>5. CASE ~Above(c, t)
      <4>1. Agree(S, T, c)
        BY <1>1, <3>1, <3>3, <3>5, FilesAt, AboveOrder DEF Agree, AgreeOutside
      <4> QED
        BY <2>1, <2>2, <2>4, <3>2, <4>1, ChildSame
    <3> QED
      BY <3>4, <3>5
  <2>6. Children(u) # <<>> => Stage(T, u) \in ChildIds(u)
    BY <2>3, <2>4 DEF OnCourse
  <2> QED
    BY <2>3, <2>5, <2>6 DEF OnCourse
<1>5. QED
  BY <1>3, <1>4

LEMMA InsideThread ==
  ASSUME NEW S, NEW a \in DOMAIN Tree \ {<<>>}, Inside(S, a), Thread(a) # <<>>
  PROVE  Inside(S, Thread(a)) /\ Going(S, Thread(a)) /\ IsLeg(Thread(a))
<1> DEFINE t == Thread(a)
<1>1. /\ t \in DOMAIN Tree /\ t \in Seq(STRING) /\ IsThread(t) /\ Above(t, a) /\ a \in Seq(STRING)
  BY ThreadIs, NodesAreChildren
<1>2. IsLeg(t)
  BY <1>1 DEF IsThread
<1>3. t[1] = a[1]
  BY <1>1, AboveFirst
<1>4. \A x \in DOMAIN Tree : IsLeg(x) /\ Above(x, t) => Above(x, a)
  BY <1>1, NodesAreChildren, AboveOrder, TreeAssumption
<1>5. Inside(S, t)
  BY <1>3, <1>4 DEF Inside
<1>6. Going(S, t)
  BY <1>1, <1>2 DEF Inside
<1>7. QED
  BY <1>2, <1>5, <1>6

\* A script that writes at a thread and below it is on course if it is so there.
LEMMA CourseKept ==
  ASSUME GatesApart, NEW S, NEW a, StandsAt(S, a), Course(S), NEW T, DOMAIN T = Files,
         NEW t, t = Thread(a), \A f \in Files \ Strays : T[f] # S[f] => Above(t, f[2]),
         \A u \in DOMAIN Tree : IsThread(u) /\ Above(t, u) => OnCourse(T, u)
  PROVE  Course(T)
<1> SUFFICES ASSUME NEW u \in DOMAIN Tree, IsThread(u), ~Above(t, u) PROVE OnCourse(T, u)
  BY DEF Course
<1>1. StoreOK(S) /\ S[InstanceFile] # Missing /\ a \in DOMAIN Tree \ {<<>>} /\ Inside(S, a)
  BY DEF StandsAt
<1>2. t # <<>>
  BY TreeAssumption, AboveOrder
<1>3. Inside(S, t) /\ IsLeg(t)
  BY <1>1, <1>2, InsideThread
<1>4. AgreeOutside(S, T, t)
  BY DEF AgreeOutside
<1>5. OnCourse(S, u)
  BY DEF Course
<1>6. QED
  BY <1>1, <1>3, <1>4, <1>5, CourseAside

-----------------------------------------------------------------------------
(* A step of a thread. *)

\* A thread that was at its k-th child stays there, goes on to another that the child
\* leads to, or stops, since nothing is left to be done after it.
Stays(S, T, t) == Stage(T, t) = Stage(S, t) /\ ~Complete(T, t)
Proceeds(T, t, k) ==
  /\ ~Complete(T, t) /\ Stage(T, t) \in ChildIds(t)
  /\ LeadsOn(t, k, Stage(T, t)) /\ Finished(T, Nth(t, k))
Stops(S, T, t, k) ==
  /\ Stage(T, t) = Stage(S, t)
  /\ LeadsOn(t, k, None) /\ Finished(T, Nth(t, k))

\* It writes its own file, at the child and below, and opens the gate it goes on to.
Stepping(S, T, t, k) ==
  /\ T[ThreadFile(t)] # Missing
  /\ \A f \in Files \ Strays : T[f] # S[f] =>
       \/ f[2] = t \/ Above(Nth(t, k), f[2])
       \/ f = NodeFile(Child(t, Stage(T, t)))
  /\ t = <<>> => S[InstanceFile].overrides \subseteq T[InstanceFile].overrides
  /\ Stays(S, T, t) \/ Proceeds(T, t, k) \/ Stops(S, T, t, k)
  /\ Nth(t, k) \in NestedFanouts /\ T[JoinFile(Nth(t, k))] # Missing => Barred(T, t, k)

LEMMA Distinct ==
  ASSUME Straight, NEW t, IsThread(t), NEW i \in DOMAIN Children(t), NEW k \in DOMAIN Children(t)
  PROVE  /\ Children(t)[i] = Children(t)[k] => i = k
         /\ Nth(t, i) = Nth(t, k) => i = k
         /\ i \in Nat /\ k \in Nat
<1>1. t \in DOMAIN Tree /\ Sequential(t)
  BY ThreadsAre, NthIs
<1>2. Children(t)[i] = Children(t)[k] => i = k
  BY <1>1 DEF Straight
<1>3. Nth(t, i) = Nth(t, k) => Children(t)[i] = Children(t)[k]
  BY NthIs
<1>4. Children(t) \in Seq(STRING \ {None})
  BY <1>1, TreeAssumption, EmptySeq DEF Children
<1>5. QED
  BY <1>2, <1>3, <1>4

LEMMA LeadsToEnd ==
  ASSUME NEW t, IsThread(t), NEW k \in DOMAIN Children(t), NEW id, id \notin ChildIds(t)
  PROVE  /\ None \notin ChildIds(t)
         /\ LeadsOn(t, k, id) <=> LeadsOn(t, k, None)
         /\ LeadsOn(t, k, None) => \A m \in DOMAIN Children(t) : k < m => ~Station(t, m)
<1>1. None \notin ChildIds(t)
  BY ThreadsAre, ChildrenAreNodes
<1>2. QED
  BY <1>1 DEF LeadsOn

LEMMA StepCourse ==
  ASSUME GatesApart, Straight, NEW S, StoreOK(S), NEW T, DOMAIN T = Files,
         NEW t, IsThread(t), NEW k \in DOMAIN Children(t), Children(t)[k] = Stage(S, t),
         S[ThreadFile(t)] # Missing, t # <<>> => Going(S, t), OnCourse(S, t),
         Stepping(S, T, t, k)
  PROVE  OnCourse(T, t)
<1> DEFINE a == Nth(t, k)
<1>1. /\ t \in Seq(STRING) /\ t \in DOMAIN Tree /\ DOMAIN S = Files /\ k \in Nat
      /\ DOMAIN Children(t) \subseteq Nat
  BY ThreadsAre, Distinct DEF StoreOK
<1>2. PICK h \in DOMAIN Children(t) :
        /\ Children(t)[h] = Stage(T, t) /\ k <= h
        /\ \/ h = k /\ (Stays(S, T, t) \/ Stops(S, T, t, k))
           \/ k < h /\ Proceeds(T, t, k) /\ \A m \in k + 1 .. h - 1 : ~Station(t, m)
  <2>1. CASE Stays(S, T, t) \/ Stops(S, T, t, k)
    BY <1>1, <2>1 DEF Stays, Stops
  <2>2. CASE Proceeds(T, t, k)
    <3>1. PICK i \in DOMAIN Children(t) :
            k < i /\ Children(t)[i] = Stage(T, t) /\ \A m \in k + 1 .. i - 1 : ~Station(t, m)
      BY <2>2 DEF Proceeds, LeadsOn
    <3> QED
      BY <1>1, <2>2, <3>1
  <2> QED
    BY <2>1, <2>2 DEF Stepping
<1>3. \A m \in DOMAIN Children(t) :
        /\ Passed(S, t, m) <=> m < k
        /\ Ahead(S, t, m) <=> k < m
        /\ Passed(T, t, m) <=> m < h
        /\ Ahead(T, t, m) <=> h < m
  BY <1>2, Distinct DEF Passed, Ahead
<1>4. Children(t)[h] \in ChildIds(t) /\ NodeFile(Child(t, Stage(T, t)))[2] = Nth(t, h)
  BY <1>2, FilePaths DEF ChildIds, Nth
<1>5. ASSUME NEW m \in DOMAIN Children(t), m # k, NEW f \in Files \ Strays, T[f] # S[f],
             Above(Nth(t, m), f[2])
      PROVE  m = h /\ f = NodeFile(Nth(t, h))
  <2>1. /\ Nth(t, m) \in Seq(STRING) /\ ~Above(Nth(t, m), t)
        /\ a \in Seq(STRING) /\ Nth(t, h) \in Seq(STRING) /\ f[2] \in Seq(STRING)
        /\ Len(Nth(t, m)) = Len(a) /\ Len(Nth(t, m)) = Len(Nth(t, h))
    BY NthIs, FilesAt
  <2>2. ~Above(a, f[2])
    BY <1>5, <2>1, ChildrenApart, Distinct
  <2>3. f = NodeFile(Nth(t, h)) /\ f[2] = Nth(t, h)
    <3>1. f = NodeFile(Child(t, Stage(T, t)))
      BY <1>5, <2>1, <2>2 DEF Stepping
    <3> QED
      BY <1>2, <1>4, <3>1 DEF Nth
  <2>4. Above(Nth(t, h), f[2])
    BY <2>1, <2>3, AboveOrder
  <2>5. Nth(t, m) = Nth(t, h)
    BY <1>5, <2>1, <2>4, ChildrenApart
  <2> QED
    BY <2>3, <2>5, Distinct
<1>6. ASSUME NEW m \in DOMAIN Children(t) PROVE InOrder(T, t, m)
  <2> DEFINE c == Nth(t, m)
  <2>1. /\ c \in DOMAIN Tree \ {<<>>} /\ c \in Seq(STRING) /\ m \in Nat /\ h \in Nat
        /\ (Len(c) = 1 <=> t = <<>>) /\ LastId(c) = Children(t)[m]
        /\ c \in NestedFanouts <=> NodeKind(c) = "fanout" /\ t # <<>>
        /\ Above(c, c)
    BY <1>1, NthIs, AboveOrder
  <2>2. InOrder(S, t, m)
    BY DEF OnCourse
  <2>3. CASE m < k
    <3>1. Agree(S, T, c)
      BY <1>1, <1>2, <1>5, <2>1, <2>3 DEF Agree
    <3>2. Finished(S, c)
      BY <1>3, <2>2, <2>3 DEF InOrder
    <3>3. Finished(T, c)
      BY <2>1, <3>1, <3>2, FinishedSame DEF Stepping
    <3>4. ~Ahead(T, t, m) /\ Passed(T, t, m)
      BY <1>1, <1>2, <1>3, <2>1, <2>3
    <3>5. c \in NestedFanouts /\ T[JoinFile(c)] # Missing => Barred(T, t, m)
      <4> SUFFICES ASSUME c \in NestedFanouts, T[JoinFile(c)] # Missing PROVE Barred(T, t, m)
        OBVIOUS
      <4>1. /\ T[JoinFile(c)] = S[JoinFile(c)] /\ (Closed(T, c) <=> Closed(S, c))
            /\ (Clears(T, c) <=> Clears(S, c)) /\ t # <<>>
        BY <2>1, <3>1, SameBarrier
      <4>2. Barred(S, t, m) /\ S[NodeFile(t)].state \notin Terminal
        BY <2>2, <4>1 DEF InOrder, Going
      <4>3. S[NodeFile(t)].sub_state # LastId(c)
        <5>1. S[NodeFile(t)].sub_state = Children(t)[k]
          BY <4>1 DEF Stage
        <5> QED
          BY <1>1, <2>1, <2>3, <5>1, Distinct
      <4>4. /\ S[JoinFile(c)].joined /\ Closed(S, c)
            /\ S[JoinFile(c)].failed = ~Clears(S, c)
            /\ ~S[JoinFile(c)].failed
        BY <4>2, <4>3 DEF Barred, Terminal
      <4> QED
        BY <3>4, <4>1, <4>4 DEF Barred
    <3> QED
      BY <3>3, <3>4, <3>5 DEF InOrder
  <2>4. CASE m = k
    <3>1. Passed(T, t, m) \/ Complete(T, t) => Finished(T, c)
      <4>1. CASE h = k
        BY <1>1, <1>2, <1>3, <2>1, <2>4, <4>1 DEF Stays, Stops
      <4>2. CASE k < h
        BY <1>1, <1>2, <2>1, <2>4, <4>2 DEF Proceeds
      <4> QED
        BY <1>2, <4>1, <4>2
    <3>2. ~Ahead(T, t, m)
      BY <1>1, <1>2, <1>3, <2>1, <2>4
    <3> QED
      BY <2>4, <3>1, <3>2 DEF InOrder, Stepping
  <2>5. CASE k < m
    <3>1. Untouched(S, c)
      BY <1>3, <2>2, <2>5 DEF InOrder
    <3>2. Passed(T, t, m) \/ Complete(T, t) => Finished(T, c)
      <4>1. ASSUME Passed(T, t, m) \/ Complete(T, t) PROVE ~Station(t, m)
        <5>1. CASE h = k
          <6>1. Stops(S, T, t, k)
            BY <1>1, <1>2, <1>3, <2>1, <2>5, <4>1, <5>1 DEF Stays
          <6>2. None \notin ChildIds(t)
            BY <1>1, ChildrenAreNodes
          <6> QED
            BY <2>5, <6>1, <6>2, LeadsToEnd DEF Stops
        <5>2. CASE k < h
          <6>1. m < h
            BY <1>1, <1>2, <1>3, <4>1, <5>2 DEF Proceeds
          <6> QED
            BY <1>1, <1>2, <2>1, <2>5, <5>2, <6>1
        <5> QED
          BY <1>2, <5>1, <5>2
      <4> QED
        BY <4>1 DEF Finished, Station, Stations
    <3>3. Ahead(T, t, m) => Untouched(T, c)
      <4> SUFFICES ASSUME Ahead(T, t, m) PROVE Untouched(T, c)
        OBVIOUS
      <4>1. Agree(S, T, c)
        BY <1>1, <1>3, <1>5, <2>1, <2>5 DEF Agree
      <4> QED
        BY <3>1, <4>1, UntouchedSame
    <3>4. c \in NestedFanouts => T[JoinFile(c)] = Missing
      <4> SUFFICES ASSUME c \in NestedFanouts PROVE T[JoinFile(c)] = Missing
        OBVIOUS
      <4>1. JoinFile(c) \in Files \ Strays /\ JoinFile(c)[2] = c /\ JoinFile(c)[1] = "join"
        BY NotStray, FilePaths
      <4>2. S[JoinFile(c)] = Missing
        BY <2>1, <3>1, <4>1 DEF Untouched
      <4>3. JoinFile(c) # NodeFile(Nth(t, h))
        BY <4>1, FilePaths
      <4> QED
        BY <1>1, <1>5, <2>1, <2>5, <4>1, <4>2, <4>3
    <3> QED
      BY <3>2, <3>3, <3>4 DEF InOrder
  <2> QED
    BY <1>1, <2>1, <2>3, <2>4, <2>5
<1>7. QED
  BY <1>2, <1>4, <1>6 DEF OnCourse, Stepping

\* Node a, the k-th child of its thread, is where the thread is.
Standing(S, a, k) ==
  LET t == Thread(a) IN
  /\ a # t
  /\ k \in DOMAIN Children(t)
  /\ a = Nth(t, k)
  /\ Children(t)[k] = Stage(S, t)

LEMMA StandsAsNth ==
  ASSUME NEW S, NEW a, StandsAt(S, a), Thread(a) # a,
         Thread(a) # <<>> => S[NodeFile(Thread(a))].sub_state = LastId(a)
  PROVE  \E k : Standing(S, a, k)
<1> DEFINE t == Thread(a)
<1>1. a \in DOMAIN Tree \ {<<>>}
  BY DEF StandsAt
<1>2. t = ParentPath(a)
  BY <1>1, ThreadIs
<1>3. LastId(a) \in ChildIds(t) /\ a = Child(t, LastId(a))
  BY <1>1, <1>2, NodesAreChildren
<1>4. PICK k \in DOMAIN Children(t) : Children(t)[k] = LastId(a)
  BY <1>3 DEF ChildIds
<1>5. Stage(S, t) = LastId(a)
  BY StandsIs DEF Stage
<1>6. QED
  BY <1>3, <1>4, <1>5 DEF Standing, Nth

LEMMA StandingIs ==
  ASSUME NEW S, NEW a, StandsAt(S, a), NEW k, Standing(S, a, k)
  PROVE  LET t == Thread(a) IN
         /\ IsThread(t) /\ a \in DOMAIN Tree \ {<<>>} /\ k \in DOMAIN Children(t)
         /\ a = Nth(t, k) /\ Children(t)[k] = Stage(S, t)
         /\ S[ThreadFile(t)] # Missing
         /\ t # <<>> => Going(S, t) /\ IsLeg(t) /\ NodeKind(t) = "sequence"
         /\ LastId(a) = Stage(S, t) /\ ParentPath(a) = t
         /\ Len(a) = 1 <=> t = <<>>
         /\ a \in NestedFanouts <=> NodeKind(a) = "fanout" /\ t # <<>>
         /\ StoreOK(S) /\ S[InstanceFile] # Missing /\ DOMAIN S = Files
<1> DEFINE t == Thread(a)
<1>1. IsThread(t) /\ StoreOK(S) /\ S[InstanceFile] # Missing /\ DOMAIN S = Files
  BY StandsIs DEF StandsAt
<1>2. a \in DOMAIN Tree \ {<<>>} /\ k \in DOMAIN Children(t) /\ a = Nth(t, k) /\ Children(t)[k] = Stage(S, t)
  BY DEF Standing, StandsAt
<1>3. t # <<>> => Going(S, t) /\ IsLeg(t)
  BY StandsIs
<1>4. /\ Sequential(t) /\ LastId(a) = Children(t)[k] /\ ParentPath(a) = t
      /\ Len(a) = 1 <=> t = <<>>
      /\ a \in NestedFanouts <=> NodeKind(a) = "fanout" /\ t # <<>>
  BY <1>1, <1>2, NthIs
<1>5. S[ThreadFile(t)] # Missing
  BY <1>1, <1>3 DEF ThreadFile, Going, Present
<1>6. QED
  BY <1>1, <1>2, <1>3, <1>4, <1>5 DEF Sequential

\* A step that writes at no more than the thread, the child it is at and the one it
\* goes on to.
Flat(S, T, a) == LET t == Thread(a) IN
  \A f \in Files \ Strays : T[f] # S[f] =>
    f[2] = t \/ f[2] = a \/ f = NodeFile(Child(t, Stage(T, t)))

LEMMA StepsOn ==
  ASSUME GatesApart, Straight, NEW S, NEW a, StandsAt(S, a), Course(S), NEW k, Standing(S, a, k),
         NEW T, DOMAIN T = Files, Flat(S, T, a), T[ThreadFile(Thread(a))] # Missing,
         Thread(a) = <<>> => S[InstanceFile].overrides \subseteq T[InstanceFile].overrides,
         \/ Stays(S, T, Thread(a)) \/ Proceeds(T, Thread(a), k) \/ Stops(S, T, Thread(a), k),
         a \in NestedFanouts /\ T[JoinFile(a)] # Missing => Barred(T, Thread(a), k),
         a \in Units => StateOf(S, a) \notin Terminal \/ T[NodeFile(a)] = S[NodeFile(a)]
  PROVE  Course(T) /\ Steady(S, T)
<1> DEFINE t == Thread(a)
<1>1. /\ IsThread(t) /\ a \in DOMAIN Tree \ {<<>>} /\ k \in DOMAIN Children(t)
      /\ a = Nth(t, k) /\ Children(t)[k] = Stage(S, t) /\ S[ThreadFile(t)] # Missing
      /\ t # <<>> => Going(S, t) /\ NodeKind(t) = "sequence"
      /\ StoreOK(S) /\ DOMAIN S = Files
  BY StandingIs
<1>2. /\ t \in Seq(STRING) /\ t \in DOMAIN Tree /\ a \in Seq(STRING) /\ Above(t, t) /\ Above(a, a)
      /\ Above(t, a)
  BY <1>1, ThreadsAre, NthIs, AboveOrder
<1>3. Stepping(S, T, t, k)
  BY <1>1, <1>2 DEF Stepping, Flat
<1>4. OnCourse(S, t)
  BY <1>1, <1>2 DEF Course
<1>5. OnCourse(T, t)
  BY <1>1, <1>3, <1>4, StepCourse
<1>6. Stage(T, t) \in ChildIds(t) /\ Children(t) # <<>>
  BY <1>1, <1>5 DEF OnCourse
<1>7. PICK h \in DOMAIN Children(t) : Children(t)[h] = Stage(T, t)
  BY <1>6 DEF ChildIds
<1>8. Nth(t, h) = Child(t, Stage(T, t)) /\ Nth(t, h) \in DOMAIN Tree \ {<<>>} /\ Above(t, Nth(t, h))
  BY <1>1, <1>7, NthIs DEF Nth
<1>9. \A f \in Files \ Strays : T[f] # S[f] => f[2] = t \/ f[2] = a \/ f[2] = Nth(t, h)
  BY <1>8, FilePaths DEF Flat
<1>10. \A f \in Files \ Strays : T[f] # S[f] => Above(t, f[2])
  BY <1>2, <1>8, <1>9
<1>11. ASSUME NEW u \in DOMAIN Tree, IsThread(u), Above(t, u) PROVE OnCourse(T, u)
  <2>1. CASE u = t
    BY <1>5, <2>1
  <2>2. CASE u # t
    <3>1. u # <<>>
      BY <1>1, <1>2, <1>11, <2>2, ThreadsBelow, ThreadsAre
    <3>2. Agree(S, T, u)
      BY <1>1, <1>9, <1>11, <2>2, ThreadsBelow, FilesAt DEF Agree
    <3>3. OnCourse(S, u)
      BY <1>11 DEF Course
    <3> QED
      BY <1>1, <1>11, <3>1, <3>2, <3>3, CourseSame
  <2> QED
    BY <2>1, <2>2
<1>12. Course(T)
  BY <1>10, <1>11, CourseKept
<1>13. ASSUME NEW p \in Units, StateOf(S, p) \in Terminal PROVE StateOf(T, p) = StateOf(S, p)
  <2>1. /\ p \in DOMAIN Tree \ {<<>>} /\ NodeKind(p) = "agent" /\ NodeFile(p) \in Files \ Strays
        /\ NodeFile(p)[2] = p
    BY UnitsAreAgents, NotStray, FilePaths DEF HasFile
  <2>2. T[NodeFile(p)] = S[NodeFile(p)]
    <3> SUFFICES ASSUME T[NodeFile(p)] # S[NodeFile(p)] PROVE FALSE
      OBVIOUS
    <3>1. p # a
      BY <1>13
    <3>2. p # t
      BY <1>1, <2>1
    <3>3. p = Nth(t, h)
      BY <1>9, <2>1, <3>1, <3>2
    <3>4. h # k
      BY <1>1, <3>1, <3>3
    <3>5. k < h
      <4>1. Proceeds(T, t, k)
        BY <1>1, <1>7, <3>4, Distinct DEF Stays, Stops
      <4>2. PICK i \in DOMAIN Children(t) : k < i /\ Children(t)[i] = Stage(T, t)
        BY <4>1 DEF Proceeds, LeadsOn
      <4> QED
        BY <1>1, <1>7, <4>2, Distinct
    <3>6. Untouched(S, p)
      <4>1. Ahead(S, t, h)
        BY <1>1, <3>5 DEF Ahead
      <4>2. InOrder(S, t, h)
        BY <1>1, <1>4 DEF OnCourse
      <4> QED
        BY <3>3, <4>1, <4>2 DEF InOrder
    <3>7. S[NodeFile(p)] = Missing
      BY <2>1, <3>6, NodesAreChildren, AboveOrder DEF Untouched
    <3> QED
      BY <1>1, <1>13, <2>1, <3>7 DEF StateOf, Read, Terminal, None
  <2> QED
    BY <1>1, <2>1, <2>2 DEF StateOf, Read
<1>14. QED
  BY <1>12, <1>13 DEF Steady

\* A step that opens nothing at the node it goes on to has come there.
LEMMA StepsTo ==
  ASSUME GatesApart, Straight, NEW S, NEW a, StandsAt(S, a), Course(S), NEW k, Standing(S, a, k),
         NEW T, DOMAIN T = Files, Proceeds(T, Thread(a), k),
         \A f \in Files \ Strays : T[f] # S[f] => f[2] = Thread(a) \/ f[2] = a
  PROVE  /\ Arrived(T, Child(Thread(a), Stage(T, Thread(a))))
         /\ Stage(T, Thread(a)) \in ChildIds(Thread(a))
<1> DEFINE t == Thread(a)
<1>1. /\ IsThread(t) /\ a \in DOMAIN Tree \ {<<>>} /\ k \in DOMAIN Children(t)
      /\ a = Nth(t, k) /\ Children(t)[k] = Stage(S, t) /\ S[ThreadFile(t)] # Missing
      /\ t # <<>> => Going(S, t) /\ NodeKind(t) = "sequence"
      /\ StoreOK(S) /\ DOMAIN S = Files
  BY StandingIs
<1>2. PICK h \in DOMAIN Children(t) : k < h /\ Children(t)[h] = Stage(T, t)
  BY DEF Proceeds, LeadsOn
<1>3. h # k /\ t \in DOMAIN Tree
  BY <1>1, <1>2, Distinct, ThreadsAre
<1> DEFINE q == Nth(t, h)
<1>4. /\ q = Child(t, Stage(T, t)) /\ q \in DOMAIN Tree \ {<<>>} /\ q \in Seq(STRING)
      /\ Thread(q) = t /\ LastId(q) = Stage(T, t) /\ ~Above(q, t)
      /\ a \in Seq(STRING) /\ Len(q) = Len(a) /\ Above(q, q)
  BY <1>1, <1>2, NthIs, AboveOrder DEF Nth
<1>5. Untouched(S, q)
  <2>1. Ahead(S, t, h)
    BY <1>1, <1>2 DEF Ahead
  <2>2. OnCourse(S, t)
    BY <1>1, <1>3 DEF Course
  <2> QED
    BY <1>1, <2>1, <2>2 DEF OnCourse, InOrder
<1>6. ~Above(q, a)
  <2>1. Above(a, a)
    BY <1>4, AboveOrder
  <2>2. q # a
    BY <1>1, <1>3, Distinct
  <2> QED
    BY <1>4, <2>1, <2>2, ChildrenApart
<1>7. Untouched(T, q)
  BY <1>4, <1>5, <1>6 DEF Untouched
<1>8. q \in Units => StateOf(T, q) \notin Terminal
  <2> SUFFICES ASSUME q \in Units PROVE StateOf(T, q) \notin Terminal
    OBVIOUS
  <2>1. NodeFile(q) \in Files \ Strays /\ NodeFile(q)[2] = q
    BY UnitsAreAgents, NotStray, FilePaths DEF HasFile
  <2>2. T[NodeFile(q)] = Missing
    BY <1>4, <1>7, <2>1 DEF Untouched
  <2> QED
    BY <2>1, <2>2 DEF StateOf, Read, Terminal, None
<1>9. t = <<>> => T[InstanceFile].label # "done"
  BY DEF Proceeds, Complete
<1>10. t # <<>> => T[NodeFile(t)].sub_state = LastId(q)
  BY <1>4 DEF Stage
<1>11. Arrived(T, q)
  BY <1>4, <1>7, <1>8, <1>9, <1>10 DEF Arrived
<1>12. QED
  BY <1>4, <1>11 DEF Proceeds

\* What the thread at a writes in its own file, where no node is a thread below it: a
\* leg that is one agent.
LEMMA LeafStep ==
  ASSUME GatesApart, NEW S, NEW a, StandsAt(S, a), Course(S), a \in Units, Thread(a) = a,
         NEW T, DOMAIN T = Files, T[NodeFile(a)] # Missing, StateOf(S, a) \notin Terminal,
         \A f \in Files \ Strays : T[f] # S[f] => f = NodeFile(a)
  PROVE  Course(T) /\ Steady(S, T)
<1>1. /\ StoreOK(S) /\ DOMAIN S = Files /\ a \in DOMAIN Tree \ {<<>>} /\ NodeKind(a) = "agent"
      /\ a \in Seq(STRING) /\ Above(a, a)
  BY UnitsAreAgents, AboveOrder DEF StandsAt, StoreOK
<1>2. \A f \in Files \ Strays : T[f] # S[f] => Above(a, f[2]) /\ f[2] = a
  BY <1>1, FilePaths
<1>3. Children(a) = <<>>
  BY <1>1 DEF Children, NodeKind, Containers
<1>4. ASSUME NEW u \in DOMAIN Tree, IsThread(u), Above(a, u) PROVE OnCourse(T, u)
  <2>1. CASE u = a
    BY <1>1, <1>3, <2>1 DEF OnCourse, ThreadFile
  <2>2. CASE u # a
    <3>1. IsThread(a)
      BY StandsIs
    <3>2. u # <<>> /\ u \in DOMAIN Tree \ {<<>>}
      BY <1>1, <1>4, <2>2, <3>1, ThreadsAre, ThreadsBelow
    <3>3. Agree(S, T, u)
      BY <1>2, <1>4, <2>2, <3>1, ThreadsBelow, FilesAt DEF Agree
    <3>4. OnCourse(S, u)
      BY <1>4 DEF Course
    <3> QED
      BY <1>1, <1>4, <3>2, <3>3, <3>4, CourseSame
  <2> QED
    BY <2>1, <2>2
<1>5. Course(T)
  BY <1>2, <1>4, CourseKept
<1>6. ASSUME NEW p \in Units, StateOf(S, p) \in Terminal PROVE StateOf(T, p) = StateOf(S, p)
  <2>1. /\ NodeFile(p) \in Files \ Strays /\ NodeFile(p)[2] = p
    BY UnitsAreAgents, NotStray, FilePaths DEF HasFile
  <2>2. p # a
    BY <1>6
  <2>3. T[NodeFile(p)] = S[NodeFile(p)]
    BY <1>2, <2>1, <2>2
  <2> QED
    BY <1>1, <2>1, <2>3 DEF StateOf, Read
<1>7. QED
  BY <1>5, <1>6 DEF Steady

-----------------------------------------------------------------------------
(* The scripts keep the order. *)

LEMMA StateIs ==
  ASSUME NEW S, DOMAIN S = Files, NEW p \in DOMAIN Tree, HasFile(p)
  PROVE  /\ S[NodeFile(p)] # Missing => StateOf(S, p) = S[NodeFile(p)].state
         /\ S[NodeFile(p)] = Missing => StateOf(S, p) = None
BY FilesAre DEF HasFile, StateOf, Read

\* The next sibling of the k-th child is the child the thread goes on to.
LEMMA NextLeads ==
  ASSUME Straight, NEW S, NEW a, StandsAt(S, a), NEW k, Standing(S, a, k)
  PROVE  LET t == Thread(a) IN
         /\ NextSibling(a) # None => NextSibling(a) \in ChildIds(t) /\ LeadsOn(t, k, NextSibling(a))
         /\ NextSibling(a) = None => LeadsOn(t, k, None)
<1> DEFINE t == Thread(a)
           next == NextSibling(a)
<1>1. /\ IsThread(t) /\ a \in DOMAIN Tree \ {<<>>} /\ k \in DOMAIN Children(t)
      /\ Children(t)[k] = LastId(a) /\ ParentPath(a) = t /\ Sequential(t)
  BY StandingIs, NthIs
<1>2. \A i \in DOMAIN Children(t) : Children(t)[i] = LastId(a) => i = k
  BY <1>1, Distinct
<1>3. Index(a) = k
  BY <1>1, <1>2 DEF Index
<1>4. /\ Children(t) \in Seq(STRING \ {None}) /\ DOMAIN Children(t) = 1 .. Len(Children(t))
      /\ Len(Children(t)) \in Nat
  BY <1>1, ThreadsAre, TreeAssumption, EmptySeq DEF Children
<1>5. NodeKind(t) # "fanout"
  BY <1>1 DEF Sequential, NodeKind, None
<1>6. CASE k < Len(Children(t))
  <2>1. next = Children(t)[1 + k] /\ 1 + k \in DOMAIN Children(t)
    BY <1>1, <1>3, <1>4, <1>5, <1>6 DEF NextSibling
  <2>2. next \in ChildIds(t) /\ next # None
    BY <1>4, <2>1 DEF ChildIds
  <2>3. LeadsOn(t, k, next)
    <3>1. k \in Nat /\ k < 1 + k /\ \A m \in k + 1 .. (1 + k) - 1 : FALSE
      BY <1>1, <1>4
    <3> QED
      BY <2>1, <2>2, <3>1 DEF LeadsOn
  <2> QED
    BY <2>2, <2>3
<1>7. CASE ~(k < Len(Children(t)))
  <2>1. next = None
    BY <1>1, <1>3, <1>7 DEF NextSibling
  <2>2. None \notin ChildIds(t)
    BY <1>1, ThreadsAre, ChildrenAreNodes
  <2>3. LeadsOn(t, k, None)
    BY <1>1, <1>4, <1>7, <2>2 DEF LeadsOn
  <2> QED
    BY <2>1, <2>3
<1>8. QED
  BY <1>6, <1>7

\* A result that goes on to one node, or to none.
LEMMA GoesTo ==
  ASSUME NEW S, NEW r, ~r.runs, Course(r.store), Steady(S, r.store)
  PROVE  /\ \A q : r.emit = {Continue(q)} /\ Arrived(r.store, q) => InCourse(S, r)
         /\ \A p \in DOMAIN Tree \ {<<>>} :
              r.emit = {FireJoin(p)} => InCourse(S, r)
         /\ r.emit = {} => InCourse(S, r)
<1>1. \A p : Woken({FireJoin(p)}) = {}
  BY WokenIs DEF FireJoin, Event
<1>2. \A q : Woken({Continue(q)}) = {q}
  BY ContinueIs
<1>3. Hands(r) = Woken(r.emit)
  BY DEF Hands
<1>4. ASSUME NEW q, r.emit = {Continue(q)}, Arrived(r.store, q) PROVE InCourse(S, r)
  <2>1. Hands(r) = {q}
    BY <1>2, <1>3, <1>4
  <2> QED
    BY <1>4, <2>1 DEF InCourse
<1>5. ASSUME r.emit = {} \/ \E p : r.emit = {FireJoin(p)} PROVE InCourse(S, r)
  <2>1. Hands(r) = {}
    BY <1>1, <1>3, <1>5, NothingWoken
  <2> QED
    BY <2>1 DEF InCourse
<1>6. QED
  BY <1>4, <1>5

LEMMA AdvanceLegCourse ==
  ASSUME GatesApart, Straight, NEW p \in Units, NEW S, StandsAt(S, p), Course(S), Thread(p) # <<>>,
         Present(S, p), S[NodeFile(p)].state = LifeState(p), Arrived(S, p),
         NEW tag \in RunTags, NEW r \in AdvanceOutcomes(S, p, tag)
  PROVE  InCourse(S, r)
<1> DEFINE t == Thread(p)
           v == Attempted(S, p, tag)
<1>1. /\ p \in DOMAIN Tree \ {<<>>} /\ NodeKind(p) = "agent" /\ NodeFile(p) \in Files /\ HasFile(p)
      /\ IsLeg(t) /\ t \in DOMAIN Tree \ {<<>>} /\ NodeFile(t) \in Files /\ HasFile(t)
      /\ p = t \/ ParentPath(p) = t
      /\ NodeKind(ParentPath(p)) = "fanout" => t = p
      /\ NodeKind(ParentPath(p)) # "fanout" =>
              /\ t = ParentPath(p) /\ t # p /\ NodeKind(t) = "sequence"
              /\ LifeState(p) = EnclosingFanoutId(t)
      /\ DOMAIN S = Files /\ StoreOK(S) /\ Present(S, t) /\ S[NodeFile(t)].state \notin Terminal
      /\ LifeState(p) \notin Terminal
  <2>1. NodeFile(t) \in Files
    BY UnitsAreAgents, UnitOfLeg, FilesAre DEF HasFile
  <2> QED
    BY <2>1, UnitsAreAgents, UnitOfLeg, StandsIs, InFlight DEF StandsAt, Going, HasFile
<1>2. /\ v.state = LifeState(p)
      /\ [v EXCEPT !.iteration = @ + 1].state = LifeState(p)
      /\ [v EXCEPT !.iteration = @ + 1] # Missing
      /\ \A s : [v EXCEPT !.state = s] # Missing /\ [v EXCEPT !.state = s].state = s
  BY <1>1, AttemptIs, AttemptFields
<1>3. StateOf(S, p) = LifeState(p) /\ StateOf(S, p) \notin Terminal
  BY <1>1, StateIs DEF Present
<1>4. p \notin NestedFanouts
  BY <1>1 DEF NestedFanouts
<1> HIDE DEF v
<1>5. \A s : /\ DOMAIN WithState(S, p, tag, s) = Files
             /\ \A f \in Files : WithState(S, p, tag, s)[f] =
                  IF f = NodeFile(p) THEN [v EXCEPT !.state = s] ELSE S[f]
  BY <1>1, WriteIs DEF WithState, v
<1>6. CASE NodeKind(ParentPath(p)) = "fanout"
  <2>1. t = p
    BY <1>1, <1>6
  <2>2. ASSUME NEW T, DOMAIN T = Files, T[NodeFile(p)] # Missing,
               \A f \in Files : f # NodeFile(p) => T[f] = S[f]
        PROVE  Course(T) /\ Steady(S, T)
    BY <1>3, <2>1, <2>2, LeafStep
  <2>3. ASSUME r = Iterate(S, p, tag) PROVE InCourse(S, r)
    <3> DEFINE T == Write(S, NodeFile(p), [v EXCEPT !.iteration = @ + 1])
    <3>1. r = Tells(Pushes(T, {Continue(p)}))
      BY <2>3 DEF Iterate, v
    <3>2. DOMAIN T = Files
          /\ \A f \in Files : T[f] = IF f = NodeFile(p) THEN [v EXCEPT !.iteration = @ + 1] ELSE S[f]
      BY <1>1, WriteIs
    <3> HIDE DEF T
    <3>3. r.store = T /\ ~r.runs /\ r.emit = {Continue(p)}
      BY <3>1, ResultIs
    <3>4. Course(T) /\ Steady(S, T)
      BY <1>1, <1>2, <2>2, <3>2
    <3>5. StateOf(T, p) \notin Terminal
      <4>1. T[NodeFile(p)] # Missing /\ T[NodeFile(p)].state = LifeState(p)
        BY <1>1, <1>2, <3>2
      <4> QED
        BY <1>1, <3>2, <4>1, StateIs
    <3>6. Arrived(T, p)
      BY <1>1, <2>1, <3>5 DEF Arrived
    <3> QED
      BY <3>3, <3>4, <3>6, GoesTo
  <2>4. ASSUME NEW s, r = Tells(Pushes(WithState(S, p, tag, s), {FireJoin(p)})) PROVE InCourse(S, r)
    <3> DEFINE T == WithState(S, p, tag, s)
    <3>1. Course(T) /\ Steady(S, T)
      BY <1>1, <1>2, <1>5, <2>2
    <3> HIDE DEF T
    <3>2. r.store = T /\ ~r.runs /\ r.emit = {FireJoin(p)}
      BY <2>4, ResultIs DEF T
    <3> QED
      BY <1>1, <3>1, <3>2, GoesTo
  <2>5. ASSUME NEW blocked, NEW asked, r = Done(S, p, tag, blocked, asked) PROVE InCourse(S, r)
    BY <1>6, <2>4, <2>5 DEF Done
  <2>6. ASSUME r = Failed(S, p, tag) PROVE InCourse(S, r)
    BY <1>6, <2>4, <2>6 DEF Failed
  <2> QED
    BY <2>3, <2>5, <2>6, AttemptEnds
<1>7. CASE NodeKind(ParentPath(p)) # "fanout"
  <2> DEFINE next == NextSibling(p)
             q == Child(t, next)
             cursor == S[NodeFile(t)]
  <2>1. /\ t = ParentPath(p) /\ t # p /\ NodeKind(t) = "sequence" /\ NodeFile(t) # NodeFile(p)
        /\ ThreadFile(t) = NodeFile(t) /\ t # <<>>
    BY <1>1, <1>7, FilePaths DEF ThreadFile
  <2>2. cursor.sub_state = LastId(p)
    BY <2>1 DEF Arrived
  <2>3. PICK k : Standing(S, p, k)
    BY <2>1, <2>2, StandsAsNth
  <2>4. /\ IsThread(t) /\ p = Nth(t, k) /\ Children(t)[k] = Stage(S, t) /\ k \in DOMAIN Children(t)
        /\ Stage(S, t) \in ChildIds(t)
    BY <2>3, StandingIs DEF ChildIds
  <2>5. /\ next # None => next \in ChildIds(t) /\ LeadsOn(t, k, next)
        /\ next = None => LeadsOn(t, k, None)
    BY <2>3, NextLeads
  <2>6. DOMAIN cursor = {"state", "sub_state"}
    <3>1. NodeOK(t, cursor)
      BY <1>1, <2>1, NodeValue DEF Present
    <3> QED
      BY <2>1, <3>1 DEF NodeOK
  <2>7. /\ \A s, id : Cursor(s, id) # Missing /\ Cursor(s, id).state = s /\ Cursor(s, id).sub_state = id
        /\ \A s : /\ [cursor EXCEPT !.state = s] # Missing /\ [cursor EXCEPT !.state = s].state = s
                  /\ [cursor EXCEPT !.state = s].sub_state = cursor.sub_state
    <3>1. DOMAIN Missing = {"missing"}
      BY DEF Missing
    <3> QED
      BY <2>6, <3>1 DEF Cursor
  \* Where the attempt is recorded and the cursor becomes c.
  <2>8. ASSUME NEW T, DOMAIN T = Files, T[NodeFile(t)] # Missing,
               \A f \in Files : f \notin {NodeFile(p), NodeFile(t)} =>
                 T[f] = S[f] \/ f = NodeFile(Child(t, T[NodeFile(t)].sub_state)),
               \/ /\ T[NodeFile(t)].sub_state = cursor.sub_state
                  /\ \/ T[NodeFile(t)].state # "done"
                     \/ StateOf(T, p) = "done" /\ next = None
               \/ /\ T[NodeFile(t)].sub_state = next /\ next # None
                  /\ T[NodeFile(t)].state # "done" /\ StateOf(T, p) = "done"
        PROVE  Course(T) /\ Steady(S, T)
    <3>1. Flat(S, T, p)
      BY <2>1, <2>8, FilePaths DEF Flat, Stage
    <3>2. StateOf(T, p) = "done" => Finished(T, p)
      BY <1>1 DEF Finished
    <3>3. Stays(S, T, t) \/ Proceeds(T, t, k) \/ Stops(S, T, t, k)
      BY <2>1, <2>4, <2>5, <2>8, <3>2 DEF Stays, Proceeds, Stops, Stage, Complete
    <3> QED
      BY <1>3, <1>4, <2>1, <2>3, <2>8, <3>1, <3>3, StepsOn
  <2>9. ASSUME r = Iterate(S, p, tag) PROVE InCourse(S, r)
    <3> DEFINE T == Write(S, NodeFile(p), [v EXCEPT !.iteration = @ + 1])
    <3>1. r = Tells(Pushes(T, {Continue(p)}))
      BY <2>9 DEF Iterate, v
    <3>2. DOMAIN T = Files
          /\ \A f \in Files : T[f] = IF f = NodeFile(p) THEN [v EXCEPT !.iteration = @ + 1] ELSE S[f]
      BY <1>1, WriteIs
    <3> HIDE DEF T
    <3>3. r.store = T /\ ~r.runs /\ r.emit = {Continue(p)}
      BY <3>1, ResultIs
    <3>4. T[NodeFile(t)] = cursor
      BY <1>1, <2>1, <3>2
    <3>5. Course(T) /\ Steady(S, T)
      BY <1>1, <2>8, <3>2, <3>4 DEF Present, Terminal
    <3>6. StateOf(T, p) \notin Terminal
      <4>1. T[NodeFile(p)] # Missing /\ T[NodeFile(p)].state = LifeState(p)
        BY <1>1, <1>2, <3>2
      <4> QED
        BY <1>1, <3>2, <4>1, StateIs
    <3>7. Arrived(T, p)
      BY <2>1, <2>2, <3>4, <3>6 DEF Arrived
    <3> QED
      BY <3>3, <3>5, <3>7, GoesTo
  <2>10. ASSUME NEW blocked, NEW asked, r = Done(S, p, tag, blocked, asked) PROVE InCourse(S, r)
    <3> DEFINE T == WithState(S, p, tag, "done")
               moved == Write(T, NodeFile(t), Cursor(LifeState(p), next))
    <3>1. r = AdvanceCursor(T, p, asked)
      BY <1>7, <2>1, <2>10 DEF Done
    <3>2. DOMAIN T = Files /\ T[NodeFile(p)] = [v EXCEPT !.state = "done"] /\ T[NodeFile(t)] = cursor
          /\ \A f \in Files : f # NodeFile(p) => T[f] = S[f]
      BY <1>1, <1>5, <2>1
    <3> HIDE DEF T
    <3>3. \A x : /\ DOMAIN Write(T, NodeFile(t), x) = Files
                 /\ \A f \in Files : Write(T, NodeFile(t), x)[f] =
                      IF f = NodeFile(t) THEN x ELSE T[f]
      BY <3>2, WriteIs
    <3>4. ASSUME NEW U, DOMAIN U = Files, U[NodeFile(p)] = T[NodeFile(p)] PROVE StateOf(U, p) = "done"
      <4>1. U[NodeFile(p)] # Missing /\ U[NodeFile(p)].state = "done"
        BY <1>2, <3>2, <3>4
      <4> QED
        BY <1>1, <3>4, <4>1, StateIs
    <3>5. LifeState(p) # "done"
      BY <1>1 DEF Terminal
    <3>6. CASE next # None /\ q \notin LegGates
      <4>1. r = Pushes(moved, {Continue(q)})
        BY <2>1, <3>1, <3>6 DEF AdvanceCursor
      <4>2. r.store = moved /\ ~r.runs /\ r.emit = {Continue(q)}
        BY <4>1, ResultIs
      <4>3. /\ DOMAIN moved = Files /\ moved[NodeFile(t)] = Cursor(LifeState(p), next)
            /\ moved[NodeFile(p)] = T[NodeFile(p)]
            /\ \A f \in Files : f \notin {NodeFile(p), NodeFile(t)} => moved[f] = S[f]
        BY <1>1, <2>1, <3>2, <3>3
      <4> HIDE DEF moved
      <4>4. StateOf(moved, p) = "done"
        BY <3>4, <4>3
      <4>5. Course(moved) /\ Steady(S, moved)
        BY <2>7, <2>8, <3>5, <3>6, <4>3, <4>4
      <4>6. Proceeds(moved, t, k) /\ Stage(moved, t) = next
        BY <1>1, <2>1, <2>4, <2>5, <2>7, <3>5, <3>6, <4>3, <4>4 DEF Proceeds, Stage, Complete, Finished
      <4>7. Arrived(moved, q)
        BY <2>1, <2>3, <4>3, <4>6, StepsTo, FilePaths
      <4> QED
        BY <4>2, <4>5, <4>7, GoesTo
    <3>7. CASE next = None
      <4> DEFINE U == Write(T, NodeFile(t), [CursorAt(T, t) EXCEPT !.state = "done"])
      <4>1. r = Tells(Pushes(U, {FireJoin(p)}))
        BY <2>1, <3>1, <3>7 DEF AdvanceCursor
      <4>2. r.store = U /\ ~r.runs /\ r.emit = {FireJoin(p)}
        BY <4>1, ResultIs
      <4>3. CursorAt(T, t) = cursor
        BY <1>1, <3>2 DEF CursorAt, Present
      <4>4. /\ DOMAIN U = Files /\ U[NodeFile(t)] = [cursor EXCEPT !.state = "done"]
            /\ U[NodeFile(p)] = T[NodeFile(p)]
            /\ \A f \in Files : f \notin {NodeFile(p), NodeFile(t)} => U[f] = S[f]
        BY <1>1, <2>1, <3>2, <3>3, <4>3
      <4> HIDE DEF U
      <4>5. StateOf(U, p) = "done"
        BY <3>4, <4>4
      <4>6. U[NodeFile(t)] # Missing /\ U[NodeFile(t)].sub_state = cursor.sub_state
        BY <2>7, <4>4
      <4>7. Course(U) /\ Steady(S, U)
        BY <2>8, <3>7, <4>4, <4>5, <4>6
      <4> QED
        BY <1>1, <4>2, <4>7, GoesTo
    <3>8. CASE next # None /\ q \in LegGates
      <4> DEFINE U == Write(moved, NodeFile(q), OpenGate(q, asked))
      <4>1. r = Tells(Pushes(U, {}))
        BY <2>1, <3>1, <3>8 DEF AdvanceCursor
      <4>2. r.store = U /\ ~r.runs /\ r.emit = {}
        BY <4>1, ResultIs
      <4>3. NodeKind(q) = "gate" /\ NodeFile(q) # NodeFile(p) /\ NodeFile(q) # NodeFile(t)
        BY <1>1, <2>1, <3>8, FilePaths DEF LegGates
      <4>4. /\ DOMAIN U = Files /\ U[NodeFile(t)] = Cursor(LifeState(p), next)
            /\ U[NodeFile(p)] = T[NodeFile(p)]
            /\ \A f \in Files : f \notin {NodeFile(p), NodeFile(t), NodeFile(q)} => U[f] = S[f]
        BY <1>1, <2>1, <3>2, <3>3, <4>3, WriteIs
      <4> HIDE DEF U
      <4>5. StateOf(U, p) = "done"
        BY <3>4, <4>4
      <4>6. Course(U) /\ Steady(S, U)
        BY <2>7, <2>8, <3>5, <3>8, <4>4, <4>5
      <4> QED
        BY <4>2, <4>6, GoesTo
    <3> QED
      BY <3>6, <3>7, <3>8
  <2>11. ASSUME r = Failed(S, p, tag) PROVE InCourse(S, r)
    <3> DEFINE T == WithState(S, p, tag, "failed")
               U == Write(T, NodeFile(t), [CursorAt(T, t) EXCEPT !.state = "failed"])
    <3>1. r = Tells(Pushes(U, {FireJoin(p)}))
      BY <1>7, <2>1, <2>11 DEF Failed
    <3>2. CursorAt(T, t) = cursor
      BY <1>1, <1>5, <2>1 DEF CursorAt, Present
    <3>6. DOMAIN T = Files /\ \A f \in Files : f # NodeFile(p) => T[f] = S[f]
      BY <1>5
    <3> HIDE DEF T
    <3>7. /\ DOMAIN U = Files
          /\ \A f \in Files : U[f] = IF f = NodeFile(t) THEN [cursor EXCEPT !.state = "failed"] ELSE T[f]
      BY <3>2, <3>6, WriteIs
    <3> HIDE DEF U
    <3>3. /\ U[NodeFile(t)] = [cursor EXCEPT !.state = "failed"]
          /\ \A f \in Files : f \notin {NodeFile(p), NodeFile(t)} => U[f] = S[f]
      BY <1>1, <3>6, <3>7
    <3>8. /\ U[NodeFile(t)] # Missing /\ U[NodeFile(t)].sub_state = cursor.sub_state
          /\ U[NodeFile(t)].state # "done"
      BY <2>7, <3>3
    <3>4. r.store = U /\ ~r.runs /\ r.emit = {FireJoin(p)}
      BY <3>1, ResultIs
    <3>5. Course(U) /\ Steady(S, U)
      BY <2>8, <3>3, <3>7, <3>8
    <3> QED
      BY <1>1, <3>4, <3>5, GoesTo
  <2> QED
    BY <2>9, <2>10, <2>11, AttemptEnds
<1>8. QED
  BY <1>6, <1>7

\* A step of the root: it writes the instance and the node it stands at.
LEMMA RootStep ==
  ASSUME GatesApart, Straight, NEW S, NEW a, StandsAt(S, a), Course(S), Thread(a) = <<>>,
         NEW k, Standing(S, a, k), NEW T, DOMAIN T = Files, T[InstanceFile] # Missing,
         \A f \in Files : f \notin {InstanceFile, NodeFile(a)} => f \in Strays \/ T[f] = S[f],
         S[InstanceFile].overrides \subseteq T[InstanceFile].overrides,
         a \in Units => StateOf(S, a) \notin Terminal \/ T[NodeFile(a)] = S[NodeFile(a)],
         \/ T[InstanceFile].phase = S[InstanceFile].phase /\ T[InstanceFile].label # "done"
         \/ /\ T[InstanceFile].label # "done" /\ T[InstanceFile].phase \in ChildIds(<<>>)
            /\ LeadsOn(<<>>, k, T[InstanceFile].phase) /\ Finished(T, a)
         \/ /\ T[InstanceFile].phase = S[InstanceFile].phase
            /\ LeadsOn(<<>>, k, None) /\ Finished(T, a)
  PROVE  Course(T) /\ Steady(S, T)
<1>1. /\ a \in DOMAIN Tree \ {<<>>} /\ k \in DOMAIN Children(<<>>) /\ a = Nth(<<>>, k)
      /\ Children(<<>>)[k] = Stage(S, <<>>) /\ S[InstanceFile] # Missing /\ Stage(S, <<>>) \in ChildIds(<<>>)
      /\ a \notin NestedFanouts /\ LastId(a) = Stage(S, <<>>) /\ DOMAIN S = Files
  BY StandingIs DEF ThreadFile, ChildIds
<1>2. \A U : /\ Stage(U, <<>>) = U[InstanceFile].phase
             /\ (Complete(U, <<>>) <=> U[InstanceFile].label = "done")
             /\ ThreadFile(<<>>) = InstanceFile
  BY DEF Stage, Complete, ThreadFile
<1>3. \A f \in Files \ Strays : T[f] # S[f] => f[2] = <<>> \/ f[2] = a
  BY FilePaths
<1>4. \/ Stays(S, T, <<>>) \/ Proceeds(T, <<>>, k) \/ Stops(S, T, <<>>, k)
  BY <1>1, <1>2 DEF Stays, Proceeds, Stops
<1>5. Flat(S, T, a)
  BY <1>3 DEF Flat
<1>6. QED
  BY <1>1, <1>2, <1>4, <1>5, StepsOn

LEMMA RootStepsTo ==
  ASSUME GatesApart, Straight, NEW S, NEW a, StandsAt(S, a), Course(S), Thread(a) = <<>>,
         NEW k, Standing(S, a, k), NEW T, DOMAIN T = Files,
         \A f \in Files : f \notin {InstanceFile, NodeFile(a)} => f \in Strays \/ T[f] = S[f],
         NEW id \in ChildIds(<<>>), T[InstanceFile].phase = id,
         T[InstanceFile].label # "done", LeadsOn(<<>>, k, id), Finished(T, a)
  PROVE  Arrived(T, <<id>>)
<1>1. Stage(T, <<>>) = id /\ ~Complete(T, <<>>)
  BY DEF Stage, Complete
<1>2. \A f \in Files \ Strays : T[f] # S[f] => f[2] = <<>> \/ f[2] = a
  BY FilePaths
<1>3. Proceeds(T, <<>>, k)
  BY <1>1, StandingIs DEF Proceeds
<1>4. Arrived(T, Child(<<>>, Stage(T, <<>>)))
  BY <1>2, <1>3, StepsTo
<1>5. Child(<<>>, id) = <<id>>
  BY DEF Child
<1>6. QED
  BY <1>1, <1>4, <1>5

\* A child of the root has a name that is no outcome.
LEMMA RootLabels ==
  ASSUME NEW id \in ChildIds(<<>>)
  PROVE  id \notin Terminal /\ id # "done" /\ id # "failed"
<1>1. <<id>> \in DOMAIN Tree \ {<<>>} /\ LastId(<<id>>) = id
  BY RootChildIs
<1>2. QED
  BY <1>1, ProtocolAssumption DEF Terminal

LEMMA AdvanceRootCourse ==
  ASSUME GatesApart, Straight, NEW p \in Units, NEW S, StandsAt(S, p), Course(S), Thread(p) = <<>>,
         Present(S, p), S[NodeFile(p)].state = LifeState(p), Arrived(S, p),
         NEW tag \in RunTags, NEW r \in AdvanceOutcomes(S, p, tag)
  PROVE  InCourse(S, r)
<1> DEFINE v == Attempted(S, p, tag)
           inst == S[InstanceFile]
           next == NextSibling(p)
<1>1. /\ p \in DOMAIN Tree \ {<<>>} /\ NodeKind(p) = "agent" /\ NodeFile(p) \in Files /\ HasFile(p)
      /\ InstanceFile \in Files /\ NodeFile(p) # InstanceFile
      /\ DOMAIN S = Files /\ StoreOK(S) /\ inst \in Instances /\ inst # Missing
      /\ p = <<LastId(p)>> /\ p[1] = inst.phase /\ ParentPath(p) = <<>>
      /\ NodeKind(<<>>) \notin {"fanout", "sequence"}
      /\ LifeState(p) \notin Terminal
      /\ inst.label # "done"
  <2>1. /\ p \in DOMAIN Tree \ {<<>>} /\ NodeKind(p) = "agent" /\ NodeFile(p) \in Files /\ HasFile(p)
        /\ InstanceFile \in Files /\ NodeFile(p) # InstanceFile /\ LifeState(p) \notin Terminal
    BY UnitsAreAgents, FilesAre, NotTheInstance, InFlight DEF HasFile
  <2>2. NodeKind(<<>>) \notin {"fanout", "sequence"}
    BY DEF NodeKind, None
  <2>3. inst.label # "done"
    BY DEF Arrived
  <2> QED
    BY <2>1, <2>2, <2>3, StandsIs DEF StandsAt
<1>2. PICK k : Standing(S, p, k)
  BY <1>1, StandsAsNth
<1>3. /\ next # None => next \in ChildIds(<<>>) /\ LeadsOn(<<>>, k, next) /\ next # "done"
      /\ next = None => LeadsOn(<<>>, k, None)
  BY <1>2, NextLeads, RootLabels
<1>4. StateOf(S, p) \notin Terminal
  BY <1>1, StateIs DEF Present
<1>5. /\ [v EXCEPT !.iteration = @ + 1].state = LifeState(p)
      /\ [v EXCEPT !.iteration = @ + 1] # Missing
      /\ \A s : [v EXCEPT !.state = s] # Missing /\ [v EXCEPT !.state = s].state = s
  BY <1>1, AttemptIs, AttemptFields
<1> HIDE DEF v
<1>6. \A s : /\ DOMAIN WithState(S, p, tag, s) = Files
             /\ \A f \in Files : WithState(S, p, tag, s)[f] =
                  IF f = NodeFile(p) THEN [v EXCEPT !.state = s] ELSE S[f]
  BY <1>1, WriteIs DEF WithState, v
\* Where the attempt is recorded.
<1>7. ASSUME NEW T, DOMAIN T = Files, T[InstanceFile] # Missing,
             \A f \in Files : f \notin {InstanceFile, NodeFile(p)} => T[f] = S[f],
             T[InstanceFile].overrides = inst.overrides,
             \/ T[InstanceFile].phase = inst.phase /\ T[InstanceFile].label # "done"
             \/ /\ next # None /\ T[InstanceFile].label = next /\ T[InstanceFile].phase = next
                /\ T[NodeFile(p)] = [v EXCEPT !.state = "done"]
             \/ /\ next = None /\ T[InstanceFile].phase = inst.phase
                /\ T[NodeFile(p)] = [v EXCEPT !.state = "done"]
      PROVE  /\ Course(T) /\ Steady(S, T)
             /\ T[InstanceFile].phase = next /\ T[InstanceFile].label = next /\ next # None
                /\ T[NodeFile(p)] = [v EXCEPT !.state = "done"] => Arrived(T, <<next>>)
  <2>1. T[NodeFile(p)] = [v EXCEPT !.state = "done"] => Finished(T, p)
    <3> SUFFICES ASSUME T[NodeFile(p)] = [v EXCEPT !.state = "done"] PROVE StateOf(T, p) = "done"
      BY <1>1 DEF Finished
    <3>1. T[NodeFile(p)] # Missing /\ T[NodeFile(p)].state = "done"
      BY <1>5
    <3> QED
      BY <1>1, <1>7, <3>1, StateIs
  <2>6. /\ \A f \in Files : f \notin {InstanceFile, NodeFile(p)} => f \in Strays \/ T[f] = S[f]
        /\ inst.overrides \subseteq T[InstanceFile].overrides
    BY <1>7
  <2>2. Course(T) /\ Steady(S, T)
    BY <1>2, <1>3, <1>4, <1>7, <2>1, <2>6, RootStep
  <2>3. ASSUME T[InstanceFile].phase = next, T[InstanceFile].label = next, next # None,
               T[NodeFile(p)] = [v EXCEPT !.state = "done"]
        PROVE  Arrived(T, <<next>>)
    BY <1>2, <1>3, <1>7, <2>1, <2>3, <2>6, RootStepsTo
  <2> QED
    BY <2>2, <2>3
<1>8. ASSUME r = Iterate(S, p, tag)
      PROVE  InCourse(S, r)
  <2> DEFINE T == Write(S, NodeFile(p), [v EXCEPT !.iteration = @ + 1])
  <2>1. r = Tells(Pushes(T, {Continue(p)}))
    BY <1>8 DEF Iterate, v
  <2>2. /\ DOMAIN T = Files
        /\ \A f \in Files : T[f] = IF f = NodeFile(p) THEN [v EXCEPT !.iteration = @ + 1] ELSE S[f]
    BY <1>1, WriteIs
  <2> HIDE DEF T
  <2>3. r.store = T /\ ~r.runs /\ r.emit = {Continue(p)}
    BY <2>1, ResultIs
  <2>4. T[InstanceFile] = inst
    BY <1>1, <2>2
  <2>5. Course(T) /\ Steady(S, T)
    BY <1>1, <1>7, <2>2, <2>4
  <2>6. T[NodeFile(p)] # Missing /\ T[NodeFile(p)].state = LifeState(p)
    BY <1>1, <1>5, <2>2
  <2>7. StateOf(T, p) \notin Terminal
    BY <1>1, <2>2, <2>6, StateIs
  <2>8. Arrived(T, p)
    BY <1>1, <2>4, <2>7 DEF Arrived
  <2> QED
    BY <2>3, <2>5, <2>8, GoesTo
<1>9. ASSUME NEW s \in {"done", "failed"}, NEW b
      PROVE  LET U == Write(WithState(S, p, tag, s), InstanceFile, b) IN
             /\ DOMAIN U = Files
             /\ U[InstanceFile] = b /\ U[NodeFile(p)] = [v EXCEPT !.state = s]
             /\ \A f \in Files : f \notin {InstanceFile, NodeFile(p)} => U[f] = S[f]
  BY <1>1, <1>6, WriteIs
<1>10. ASSUME NEW blocked, NEW asked, r = Done(S, p, tag, blocked, asked)
       PROVE  InCourse(S, r)
  <2> DEFINE T == WithState(S, p, tag, "done")
  <2>1. r = AdvanceRoot(T, p, blocked)
    BY <1>1, <1>10 DEF Done
  <2>2. InstanceAt(T) = inst /\ T[NodeFile(p)] = [v EXCEPT !.state = "done"] /\ DOMAIN T = Files
    BY <1>1, <1>6 DEF InstanceAt
  <2>3. CASE blocked /\ Tree[p].halts
    <3> DEFINE i == [inst EXCEPT !.halted = LastId(p), !.label = "blocked"]
               H == Write(T, NodeFile(p), [T[NodeFile(p)] EXCEPT !.state = "failed"])
               U == Write(H, InstanceFile, i)
    <3>1. r = Concludes(U, "failure", {})
      BY <2>1, <2>2, <2>3 DEF AdvanceRoot
    <3>2. /\ DOMAIN H = Files
          /\ \A f \in Files : f # NodeFile(p) => H[f] = T[f]
      BY <1>6, WriteIs
    <3>3. i # Missing /\ i.overrides = inst.overrides /\ i.phase = inst.phase /\ i.label # "done"
      BY <1>1, InstanceFields
    <3>4. \A f \in Files : f # NodeFile(p) => T[f] = S[f]
      BY <1>6
    <3> HIDE DEF H, i, T
    <3>5. DOMAIN U = Files /\ \A f \in Files : U[f] = IF f = InstanceFile THEN i ELSE H[f]
      BY <3>2, WriteIs
    <3> HIDE DEF U
    <3>6. U[InstanceFile] = i /\ \A f \in Files : f \notin {InstanceFile, NodeFile(p)} => U[f] = S[f]
      BY <1>1, <3>2, <3>4, <3>5
    <3>7. r.store = U /\ ~r.runs /\ r.emit = {}
      BY <3>1 DEF Concludes, Tells, Result
    <3>8. Course(U) /\ Steady(S, U)
      BY <1>7, <3>3, <3>5, <3>6
    <3> QED
      BY <3>7, <3>8, GoesTo
  <2>4. CASE ~(blocked /\ Tree[p].halts) /\ next # None
    <3> DEFINE i == [inst EXCEPT !.phase = next, !.label = next]
               U == Write(T, InstanceFile, i)
    <3>1. r = Tells(Pushes(U, {Continue(<<next>>)}))
      BY <2>1, <2>2, <2>4 DEF AdvanceRoot
    <3>2. i # Missing /\ i.overrides = inst.overrides /\ i.phase = next /\ i.label = next
      BY <1>1, InstanceFields
    <3>3. /\ DOMAIN U = Files /\ U[InstanceFile] = i /\ U[NodeFile(p)] = [v EXCEPT !.state = "done"]
          /\ \A f \in Files : f \notin {InstanceFile, NodeFile(p)} => U[f] = S[f]
      BY <1>9
    <3> HIDE DEF U, i, T
    <3>4. r.store = U /\ ~r.runs /\ r.emit = {Continue(<<next>>)}
      BY <3>1, ResultIs
    <3>5. Course(U) /\ Steady(S, U) /\ Arrived(U, <<next>>)
      BY <1>7, <2>4, <3>2, <3>3
    <3> QED
      BY <3>4, <3>5, GoesTo
  <2>5. CASE ~(blocked /\ Tree[p].halts) /\ next = None
    <3> DEFINE i == [inst EXCEPT !.label = "done"]
               U == Write(T, InstanceFile, i)
    <3>1. r = Concludes(U, "success", {})
      BY <2>1, <2>2, <2>5 DEF AdvanceRoot
    <3>2. i # Missing /\ i.overrides = inst.overrides /\ i.phase = inst.phase
      BY <1>1, InstanceFields
    <3>3. /\ DOMAIN U = Files /\ U[InstanceFile] = i /\ U[NodeFile(p)] = [v EXCEPT !.state = "done"]
          /\ \A f \in Files : f \notin {InstanceFile, NodeFile(p)} => U[f] = S[f]
      BY <1>9
    <3> HIDE DEF U, i, T
    <3>4. r.store = U /\ ~r.runs /\ r.emit = {}
      BY <3>1 DEF Concludes, Tells, Result
    <3>5. Course(U) /\ Steady(S, U)
      BY <1>7, <2>5, <3>2, <3>3
    <3> QED
      BY <3>4, <3>5, GoesTo
  <2> QED
    BY <2>3, <2>4, <2>5
<1>11. ASSUME r = Failed(S, p, tag)
       PROVE  InCourse(S, r)
  <2> DEFINE T == WithState(S, p, tag, "failed")
             i == [inst EXCEPT !.label = "failed"]
             U == Write(T, InstanceFile, i)
  <2>1. InstanceAt(T) = inst /\ T[InstanceFile] = inst
    BY <1>1, <1>6 DEF InstanceAt
  <2>2. r = Tells(Pushes(U, {}))
    BY <1>1, <1>11, <2>1 DEF Failed
  <2>3. i # Missing /\ i.overrides = inst.overrides /\ i.phase = inst.phase /\ i.label # "done"
    BY <1>1, InstanceFields
  <2>4. /\ DOMAIN U = Files /\ U[InstanceFile] = i
        /\ \A f \in Files : f \notin {InstanceFile, NodeFile(p)} => U[f] = S[f]
    BY <1>9
  <2> HIDE DEF U, i, T
  <2>5. r.store = U /\ ~r.runs /\ r.emit = {}
    BY <2>2, ResultIs
  <2>6. Course(U) /\ Steady(S, U)
    BY <1>7, <2>3, <2>4
  <2> QED
    BY <2>5, <2>6, GoesTo
<1>12. QED
  BY <1>8, <1>10, <1>11, AttemptEnds

LEMMA AdvanceCourse ==
  ASSUME GatesApart, Straight, NEW p \in Units, NEW S, StandsAt(S, p), Course(S),
         Present(S, p), S[NodeFile(p)].state = LifeState(p), Arrived(S, p),
         NEW tag \in RunTags, NEW r \in AdvanceOutcomes(S, p, tag)
  PROVE  InCourse(S, r)
BY AdvanceLegCourse, AdvanceRootCourse

LEMMA ThreadFileIs ==
  ASSUME GatesApart, NEW t, IsThread(t)
  PROVE  ThreadFile(t) \in Files \ Strays /\ ThreadFile(t)[2] = t
<1>1. CASE t = <<>>
  BY <1>1, NotStray, FilePaths DEF ThreadFile
<1>2. CASE t # <<>>
  BY <1>2, ThreadsAre, NotStray, FilePaths DEF ThreadFile
<1>3. QED
  BY <1>1, <1>2

\* Where nothing is written but at a, where the thread stays.
LEMMA StayStep ==
  ASSUME GatesApart, Straight, NEW S, NEW a, StandsAt(S, a), Course(S), Arrived(S, a),
         Thread(a) # a, a \notin NestedFanouts,
         NEW T, DOMAIN T = Files, \A f \in Files \ Strays : T[f] # S[f] => f[2] = a
  PROVE  Course(T) /\ Steady(S, T)
<1> DEFINE t == Thread(a)
<1>1. PICK k : Standing(S, a, k)
  BY StandsAsNth DEF Arrived
<1>2. IsThread(t) /\ S[ThreadFile(t)] # Missing /\ Stage(S, t) \in ChildIds(t)
  BY <1>1, StandingIs DEF ChildIds
<1>3. T[ThreadFile(t)] = S[ThreadFile(t)]
  BY <1>2, ThreadFileIs
<1>4. Stage(T, t) = Stage(S, t) /\ (Complete(T, t) <=> Complete(S, t))
  BY <1>3 DEF Stage, Complete, ThreadFile
<1>5. ~Complete(S, t)
  <2>1. t # <<>> => S[NodeFile(t)].state \notin Terminal
    BY StandsIs DEF Going
  <2> QED
    BY <2>1 DEF Complete, Terminal, Arrived
<1>6. Stays(S, T, t)
  BY <1>4, <1>5 DEF Stays
<1>7. t = <<>> => S[InstanceFile].overrides \subseteq T[InstanceFile].overrides
  BY <1>3 DEF ThreadFile
<1>8. Flat(S, T, a)
  BY DEF Flat
<1>9. a \in Units => StateOf(S, a) \notin Terminal
  BY DEF Arrived
<1>10. QED
  BY <1>1, <1>2, <1>3, <1>6, <1>7, <1>8, <1>9, StepsOn

LEMMA AgentCourse ==
  ASSUME GatesApart, Straight, NEW p \in Units, NEW S, StandsAt(S, p), Course(S), Arrived(S, p),
         NEW r, r.runs, r.legs = {p}, r.store = S \/ r.store = Write(S, NodeFile(p), FreshUnit(p))
  PROVE  InCourse(S, r)
<1>1. Hands(r) = {p}
  BY DEF Hands
<1>2. CASE r.store = S
  BY <1>1, <1>2 DEF InCourse, Steady
<1>3. CASE r.store = Write(S, NodeFile(p), FreshUnit(p))
  <2> DEFINE T == Write(S, NodeFile(p), FreshUnit(p))
  <2>1. /\ p \in DOMAIN Tree \ {<<>>} /\ NodeKind(p) = "agent" /\ NodeFile(p) \in Files /\ HasFile(p)
        /\ DOMAIN S = Files /\ IsThread(Thread(p)) /\ p \notin NestedFanouts
    BY UnitsAreAgents, StandsIs DEF StandsAt, HasFile, NestedFanouts
  <2>2. DOMAIN T = Files /\ \A f \in Files : T[f] = IF f = NodeFile(p) THEN FreshUnit(p) ELSE S[f]
    BY <2>1, WriteIs
  <2> HIDE DEF T
  <2>3. T[NodeFile(p)] # Missing /\ T[NodeFile(p)].state = LifeState(p) /\ LifeState(p) \notin Terminal
    BY <2>1, <2>2, FreshIs, InFlight
  <2>4. Course(T) /\ Steady(S, T)
    <3>1. CASE Thread(p) = p
      BY <2>2, <2>3, <3>1, LeafStep DEF Arrived
    <3>2. CASE Thread(p) # p
      <4>1. \A f \in Files \ Strays : T[f] # S[f] => f[2] = p
        BY <2>2, FilePaths
      <4> QED
        BY <2>1, <2>2, <3>2, <4>1, StayStep
    <3> QED
      BY <3>1, <3>2
  <2>5. StateOf(T, p) \notin Terminal
    BY <2>1, <2>2, <2>3, StateIs
  <2>6. Arrived(T, p)
    <3>1. T[InstanceFile] = S[InstanceFile]
      BY <2>2, FilesAre, NotTheInstance
    <3>2. Thread(p) \notin {<<>>, p} => T[NodeFile(Thread(p))] = S[NodeFile(Thread(p))]
      BY <2>1, <2>2, ThreadsAre, FilesAre, FilePaths DEF HasFile
    <3> QED
      BY <2>5, <3>1, <3>2 DEF Arrived
  <2> QED
    BY <1>1, <1>3, <2>4, <2>6 DEF InCourse, T
<1>4. QED
  BY <1>2, <1>3

LEMMA GateCourse ==
  ASSUME GatesApart, Straight, NEW S, NEW p, StandsAt(S, p), NodeKind(p) = "gate", Course(S),
         Arrived(S, p), NEW r, r.store = Write(S, RootGateFile(p), OpenGate(p, {})), ~r.runs, r.emit = {}
  PROVE  InCourse(S, r)
<1> DEFINE T == Write(S, RootGateFile(p), OpenGate(p, {}))
<1>1. /\ p \in DOMAIN Tree \ {<<>>} /\ p \notin NestedFanouts /\ DOMAIN S = Files /\ ~IsLeg(p)
  BY StandsIs, LegsKind DEF StandsAt, NestedFanouts
<1>2. Thread(p) # p
  BY <1>1, ThreadIs, AboveParent
<1>3. DOMAIN T = Files /\ \A f \in Files : T[f] = IF f = RootGateFile(p) THEN OpenGate(p, {}) ELSE S[f]
  BY <1>1, WriteIs
<1> HIDE DEF T
<1>4. RootGateFile(p) \in Strays \/ RootGateFile(p)[2] = p
  <2>1. CASE Thread(p) = <<>>
    BY <2>1, StandsIs, FilePaths DEF RootGateFile
  <2>2. CASE Thread(p) # <<>>
    <3>1. ~IsRootChild(p)
      BY <1>1, <2>2, ThreadIs DEF IsRootChild
    <3> QED
      BY <1>1, <3>1 DEF Strays, LegGates
  <2> QED
    BY <2>1, <2>2
<1>5. Course(T) /\ Steady(S, T)
  BY <1>1, <1>2, <1>3, <1>4, StayStep
<1>6. QED
  BY <1>5, GoesTo DEF T

\* Entering a fan-out puts its legs at their first units and leaves the rest untouched.
LEMMA SeedsEdit ==
  ASSUME NEW S, NEW T, NEW p \in DOMAIN Tree \ {<<>>}, NodeKind(p) = "fanout", NEW L,
         Seeds(S, T, p, L), NEW f \in Files, T[f] # S[f]
  PROVE  /\ f[2] \in Seq(STRING) /\ Above(p, f[2])
         /\ \A x \in Seq(STRING) : Above(p, x) /\ x # p /\ Above(x, f[2]) =>
              \E l \in L : x = Child(p, l) \/ x = LeafPath(p, l)
<1>1. L \subseteq ChildIds(p) /\ p \in Seq(STRING)
  BY TreeAssumption DEF Seeds
<1>2. f[2] = p \/ \E l \in L : f[2] = Child(p, l) \/ f[2] = LeafPath(p, l)
  BY FilePaths DEF Seeds
<1>3. ASSUME NEW l \in L
      PROVE  LET c == Child(p, l)
                 a == LeafPath(p, l) IN
             /\ c \in Seq(STRING) /\ a \in Seq(STRING) /\ Above(p, c) /\ Above(p, a)
             /\ \A x \in Seq(STRING) : Above(x, c) => x = c \/ Above(x, p)
             /\ \A x \in Seq(STRING) : Above(x, a) => x = a \/ x = c \/ Above(x, p)
  <2> DEFINE c == Child(p, l)
             a == LeafPath(p, l)
  <2>1. /\ c \in DOMAIN Tree \ {<<>>} /\ ParentPath(c) = p /\ Above(p, c) /\ Above(p, a)
        /\ a \in DOMAIN Tree \ {<<>>} /\ (a = c \/ ParentPath(a) = c)
    BY <1>1, LeafIs
  <2> HIDE DEF c, a
  <2>2. c \in Seq(STRING) /\ a \in Seq(STRING)
    BY <2>1, TreeAssumption
  <2>3. \A x \in Seq(STRING) : Above(x, c) => x = c \/ Above(x, p)
    BY <2>1, AboveParent
  <2>4. \A x \in Seq(STRING) : Above(x, a) => x = a \/ x = c \/ Above(x, p)
    BY <2>1, <2>3, AboveParent
  <2> QED
    BY <2>1, <2>2, <2>3, <2>4 DEF c, a
<1>4. f[2] \in Seq(STRING) /\ Above(p, f[2])
  BY <1>1, <1>2, <1>3, AboveOrder
<1>5. ASSUME NEW x \in Seq(STRING), Above(p, x), x # p, Above(x, f[2])
      PROVE  \E l \in L : x = Child(p, l) \/ x = LeafPath(p, l)
  <2>1. ~Above(x, p)
    BY <1>1, <1>5, AboveOrder
  <2> QED
    BY <1>2, <1>3, <1>5, <2>1
<1>6. QED
  BY <1>4, <1>5

LEMMA SeedsBelow ==
  ASSUME GatesApart, Straight, NEW S, DOMAIN S = Files, NEW T,
         NEW p \in DOMAIN Tree \ {<<>>}, NodeKind(p) = "fanout", Untouched(S, p), NEW L,
         Seeds(S, T, p, L), NEW u, IsThread(u), Above(p, u)
  PROVE  OnCourse(T, u)
<1>1. /\ p \in Seq(STRING) /\ u \in Seq(STRING) /\ u # <<>> /\ u # p /\ IsLeg(u) /\ HasFile(u)
      /\ L \subseteq ChildIds(p) /\ ThreadFile(u) = NodeFile(u)
      /\ NodeFile(u) \in Files \ Strays /\ NodeFile(u)[2] = u /\ Above(u, u)
      /\ NodeKind(u) \in {"agent", "sequence"} /\ u \in DOMAIN Tree \ {<<>>}
  <2>1. p \in Seq(STRING) /\ ~Above(p, <<>>) /\ L \subseteq ChildIds(p)
    <3>1. p \in Seq(STRING) /\ p # <<>> /\ <<>> \in Seq(STRING)
      BY TreeAssumption, EmptySeq
    <3>2. Above(<<>>, p) /\ ~Above(p, <<>>)
      BY <3>1, AboveOrder
    <3> QED
      BY <3>1, <3>2 DEF Seeds
  <2>2. u # <<>>
    BY <2>1
  <2>3. /\ u \in Seq(STRING) /\ IsLeg(u) /\ HasFile(u) /\ u \in DOMAIN Tree \ {<<>>} /\ Above(u, u)
        /\ NodeKind(u) \in {"agent", "sequence"}
    BY <2>2, ThreadsAre, LegsKind
  <2>4. u # p
    BY <2>3
  <2> QED
    BY <2>1, <2>2, <2>3, <2>4, NotStray, FilePaths DEF ThreadFile
<1>2. ASSUME NEW x \in Seq(STRING), Above(p, x), x # p, \A l \in L : x # Child(p, l) /\ x # LeafPath(p, l)
      PROVE  Untouched(T, x)
  <2> SUFFICES ASSUME NEW f \in Files \ Strays, Above(x, f[2]) PROVE T[f] = Missing
    BY DEF Untouched
  <2>1. T[f] = S[f]
    BY <1>2, SeedsEdit
  <2>2. f[2] \in Seq(STRING)
    BY FilesAt
  <2>3. Above(p, f[2])
    BY <1>1, <1>2, <2>2, AboveOrder
  <2> QED
    BY <2>1, <2>3 DEF Untouched
<1>3. CASE \A l \in L : u # Child(p, l)
  <2>1. ASSUME NEW l \in L PROVE u # LeafPath(p, l)
    <3>1. ThreadFile(u) = NodeFile(u) /\ Thread(u) = u /\ Thread(LeafPath(p, l)) = Child(p, l)
      BY <1>1, LeafIs, ThreadIs
    <3> QED
      BY <1>3, <3>1
  <2>2. Untouched(T, u)
    BY <1>1, <1>2, <1>3, <2>1
  <2>3. T[ThreadFile(u)] = Missing
    BY <1>1, <2>2 DEF Untouched
  <2> QED
    BY <2>2, <2>3 DEF OnCourse
<1>4. ASSUME NEW l \in L, u = Child(p, l) PROVE OnCourse(T, u)
  <2>1. T[NodeFile(u)] = Seeded(u)
    BY <1>4 DEF Seeds
  <2>2. CASE NodeKind(u) = "agent"
    <3>1. Seeded(u) = FreshUnit(u) /\ u \in Units
      BY <1>1, <2>2 DEF Seeded, Units
    <3>2. T[ThreadFile(u)] # Missing
      BY <1>1, <2>1, <3>1, FreshIs
    <3>3. Children(u) = <<>>
      BY <1>1, <2>2 DEF Children, NodeKind, Containers
    <3> QED
      BY <3>2, <3>3 DEF OnCourse
  <2>3. CASE NodeKind(u) = "sequence"
    <3>1. Seeded(u) = Cursor(EnclosingFanoutId(u), FirstChildId(u))
      BY <2>3 DEF Seeded
    <3>2. /\ DOMAIN Seeded(u) = {"state", "sub_state"} /\ DOMAIN Missing = {"missing"}
          /\ Seeded(u).state = EnclosingFanoutId(u) /\ Seeded(u).sub_state = FirstChildId(u)
      BY <3>1 DEF Cursor, Missing
    <3>3. /\ T[ThreadFile(u)] # Missing /\ Stage(T, u) = FirstChildId(u) /\ ~Complete(T, u)
      BY <1>1, <2>1, <3>2, InFlight DEF Stage, Complete, Terminal
    <3>4. /\ Children(u) \in Seq(STRING) /\ Children(u) # <<>>
          /\ NodeKind(Child(u, FirstChildId(u))) = "agent"
      BY <1>1, <2>3, LegAssumption, TreeAssumption, EmptySeq DEF Children
    <3>5. 1 \in DOMAIN Children(u) /\ DOMAIN Children(u) = 1 .. Len(Children(u)) /\ Len(Children(u)) \in Nat
      BY <3>4, EmptySeq
    <3>6. FirstChildId(u) \in ChildIds(u) /\ Nth(u, 1) = Child(u, FirstChildId(u))
          /\ NodeKind(Nth(u, 1)) = "agent"
      BY <3>4, <3>5 DEF ChildIds, FirstChildId, Nth
    <3>7. \A i \in DOMAIN Children(u) : Children(u)[i] = FirstChildId(u) => i = 1
      BY <3>5, Distinct DEF FirstChildId
    <3>8. \A k \in DOMAIN Children(u) : ~Passed(T, u, k)
      BY <3>3, <3>5, <3>7 DEF Passed
    <3>9. ASSUME NEW k \in DOMAIN Children(u), k # 1 PROVE Untouched(T, Nth(u, k))
      <4>1. /\ Nth(u, k) \in Seq(STRING) /\ Above(u, Nth(u, k)) /\ ~Above(Nth(u, k), u) /\ Nth(u, k) # u
            /\ ParentPath(Nth(u, k)) = u /\ ~IsLeg(Nth(u, k))
        BY <3>9, NthIs
      <4>2. Above(p, Nth(u, k)) /\ Nth(u, k) # p
        BY <1>1, <4>1, AboveOrder
      <4>3. Nth(u, k) # Nth(u, 1)
        BY <3>5, <3>9, Distinct
      <4>4. ASSUME NEW m \in L PROVE Nth(u, k) # Child(p, m) /\ Nth(u, k) # LeafPath(p, m)
        <5>1. /\ IsLeg(Child(p, m)) /\ Thread(LeafPath(p, m)) = Child(p, m)
              /\ LeafPath(p, m) = Child(p, m) \/ LeafPath(p, m) = Child(Child(p, m), FirstChildId(Child(p, m)))
          BY <1>1, LeafIs
        <5>2. Nth(u, k) # Child(p, m)
          BY <4>1, <5>1
        <5>3. Thread(Nth(u, k)) = u
          BY <3>9, NthIs
        <5>4. Nth(u, k) # LeafPath(p, m)
          <6> SUFFICES ASSUME Nth(u, k) = LeafPath(p, m) PROVE FALSE
            OBVIOUS
          <6>1. Child(p, m) = u
            BY <5>1, <5>3
          <6> QED
            BY <3>6, <4>3, <5>1, <5>2, <6>1
        <5> QED
          BY <5>2, <5>4
      <4> QED
        BY <1>2, <4>1, <4>2, <4>4
    <3>10. ASSUME NEW k \in DOMAIN Children(u) PROVE InOrder(T, u, k)
      <4>1. Ahead(T, u, k) => k # 1
        BY <3>5 DEF Ahead
      <4>2. Nth(u, k) \in NestedFanouts => T[JoinFile(Nth(u, k))] = Missing
        <5> SUFFICES ASSUME Nth(u, k) \in NestedFanouts PROVE T[JoinFile(Nth(u, k))] = Missing
          OBVIOUS
        <5>1. k # 1
          BY <3>6 DEF NestedFanouts
        <5>2. JoinFile(Nth(u, k)) \in Files \ Strays /\ JoinFile(Nth(u, k))[2] = Nth(u, k)
          BY NotStray, FilePaths
        <5>3. Above(Nth(u, k), Nth(u, k))
          BY NthIs, AboveOrder
        <5> QED
          BY <3>9, <5>1, <5>2, <5>3 DEF Untouched
      <4> QED
        BY <3>3, <3>8, <3>9, <4>1, <4>2 DEF InOrder
    <3> QED
      BY <3>3, <3>6, <3>10 DEF OnCourse
  <2> QED
    BY <1>1, <2>2, <2>3
<1>5. QED
  BY <1>3, <1>4

LEMMA LeafArrives ==
  ASSUME NEW S, NEW T, NEW p \in DOMAIN Tree \ {<<>>}, NodeKind(p) = "fanout", NEW L,
         Seeds(S, T, p, L), NEW l \in L
  PROVE  Arrived(T, LeafPath(p, l))
<1> DEFINE c == Child(p, l)
           a == LeafPath(p, l)
<1>1. /\ IsLeg(c) /\ a \in Units /\ a \in DOMAIN Tree \ {<<>>} /\ NodeKind(a) = "agent" /\ Thread(a) = c
      /\ c \in DOMAIN Tree \ {<<>>} /\ DOMAIN T = Files /\ HasFile(a)
      /\ NodeKind(c) = "agent" => a = c
      /\ NodeKind(c) \in {"agent", "sequence"}
      /\ NodeKind(c) = "sequence" => a = Child(c, FirstChildId(c))
  BY LeafIs DEF Seeds, HasFile
<1>2. T[NodeFile(c)] = Seeded(c) /\ T[NodeFile(a)] = FreshUnit(a)
  BY DEF Seeds
<1> HIDE DEF c, a
<1>3. StateOf(T, a) \notin Terminal
  BY <1>1, <1>2, FreshIs, StateIs, InFlight
<1>4. c # a => T[NodeFile(c)].sub_state = LastId(a)
  <2> SUFFICES ASSUME c # a PROVE T[NodeFile(c)].sub_state = LastId(a)
    OBVIOUS
  <2>1. NodeKind(c) = "sequence" /\ a = Child(c, FirstChildId(c))
    BY <1>1
  <2>2. Seeded(c) = Cursor(EnclosingFanoutId(c), FirstChildId(c))
    BY <2>1 DEF Seeded
  <2>3. c \in Seq(STRING) /\ Children(c) # <<>> /\ Children(c) \in Seq(STRING)
    BY <1>1, <2>1, LegAssumption, TreeAssumption, EmptySeq DEF Children
  <2>4. FirstChildId(c) \in ChildIds(c)
    BY <2>3, EmptySeq DEF FirstChildId, ChildIds
  <2>5. LastId(a) = FirstChildId(c)
    BY <1>1, <2>1, <2>4, ChildrenAreNodes
  <2> QED
    BY <1>2, <2>2, <2>5 DEF Cursor
<1>5. QED
  BY <1>1, <1>3, <1>4 DEF Arrived, a

LEMMA FanoutCourse ==
  ASSUME GatesApart, Straight, NEW S, NEW p, StandsAt(S, p), NodeKind(p) = "fanout",
         Course(S), Arrived(S, p), NEW L \in LegSets(p),
         NEW r, r.store = EnterFanout(S, p, L), r.runs, r.legs = {LeafPath(p, l) : l \in L}
  PROVE  InCourse(S, r)
<1> DEFINE t == Thread(p)
           T == EnterFanout(S, p, L)
<1>1. /\ p \in DOMAIN Tree \ {<<>>} /\ p \in Seq(STRING)
      /\ t = ParentPath(p) /\ Above(t, p) /\ ~Above(p, t) /\ ~IsLeg(p) /\ t # p
      /\ IsThread(t) /\ t \in Seq(STRING)
      /\ DOMAIN S = Files /\ StoreOK(S) /\ p \notin Units
  <2>1. p \in DOMAIN Tree \ {<<>>} /\ ~IsLeg(p)
    BY LegsKind DEF StandsAt
  <2>2. p \notin Units
    BY UnitsAreAgents
  <2> QED
    BY <2>1, <2>2, AboveParent, ThreadIs, StandsIs, TreeAssumption DEF StandsAt
<1>2. PICK k : Standing(S, p, k)
  BY <1>1, StandsAsNth DEF Arrived
<1>3. /\ k \in DOMAIN Children(t) /\ p = Nth(t, k) /\ Children(t)[k] = Stage(S, t)
      /\ S[ThreadFile(t)] # Missing /\ (t # <<>> => Going(S, t)) /\ LastId(p) = Stage(S, t)
      /\ p \in NestedFanouts <=> t # <<>>
  BY <1>2, StandingIs
<1>4. Untouched(S, p)
  BY <1>1 DEF Arrived
<1>5. Seeds(S, T, p, L)
  BY <1>1, SeededIs
<1>6. Hands(r) = {LeafPath(p, l) : l \in L} /\ r.store = T
  BY DEF Hands
<1> HIDE DEF T
<1>7. DOMAIN T = Files
  BY <1>5 DEF Seeds
<1>8. ASSUME NEW f \in Files, T[f] # S[f] PROVE f[2] \in Seq(STRING) /\ Above(p, f[2])
  BY <1>1, <1>5, <1>8, SeedsEdit
<1>9. T[ThreadFile(t)] = S[ThreadFile(t)]
  BY <1>1, <1>8, ThreadFileIs
<1>10. OnCourse(T, t)
  <2>1. Stage(T, t) = Stage(S, t) /\ (Complete(T, t) <=> Complete(S, t))
    BY <1>9 DEF Stage, Complete, ThreadFile
  <2>2. ~Complete(S, t)
    BY <1>3 DEF Going, Complete, Terminal, Arrived
  <2>3. Stays(S, T, t)
    BY <2>1, <2>2 DEF Stays
  <2>4. p \in NestedFanouts /\ T[JoinFile(p)] # Missing => Barred(T, t, k)
    <3> SUFFICES ASSUME p \in NestedFanouts PROVE Barred(T, t, k)
      OBVIOUS
    <3>1. T[JoinFile(p)] = Marker(FALSE, FALSE) /\ ~Marker(FALSE, FALSE).joined
      BY <1>5 DEF Seeds, Marker
    <3>2. T[NodeFile(t)].sub_state = LastId(p)
      BY <1>3, <2>1 DEF Stage
    <3> QED
      BY <1>3, <3>1, <3>2 DEF Barred
  <2>5. t = <<>> => S[InstanceFile].overrides \subseteq T[InstanceFile].overrides
    BY <1>9 DEF ThreadFile
  <2>6. Stepping(S, T, t, k)
    BY <1>3, <1>8, <1>9, <2>3, <2>4, <2>5 DEF Stepping
  <2>7. OnCourse(S, t)
    BY <1>1, ThreadsAre DEF Course
  <2> QED
    BY <1>1, <1>3, <1>7, <2>6, <2>7, StepCourse
<1>11. ASSUME NEW u \in DOMAIN Tree, IsThread(u), Above(t, u) PROVE OnCourse(T, u)
  <2>1. CASE u = t
    BY <1>10, <2>1
  <2>2. CASE Above(p, u)
    BY <1>1, <1>4, <1>5, <1>11, <2>2, SeedsBelow
  <2>3. CASE u # t /\ ~Above(p, u)
    <3>1. u \in Seq(STRING) /\ u # <<>>
      <4>1. u \in Seq(STRING) /\ t \in Seq(STRING)
        BY <1>1, <1>11, ThreadsAre
      <4>2. Above(<<>>, t)
        BY <4>1, AboveOrder
      <4> QED
        BY <1>11, <2>3, <4>1, <4>2, AboveOrder
    <3>2. Agree(S, T, u)
      <4> SUFFICES ASSUME NEW f \in Files \ Strays, Above(u, f[2]), T[f] # S[f] PROVE FALSE
        BY DEF Agree
      <4>1. f[2] \in Seq(STRING) /\ Above(p, f[2])
        BY <1>8
      <4>2. Above(u, p) /\ u # p
        BY <1>1, <2>3, <3>1, <4>1, AboveOrder
      <4>3. Above(u, t)
        BY <1>1, <3>1, <4>2, AboveParent
      <4> QED
        BY <1>1, <1>11, <2>3, <3>1, <4>3, AboveOrder
    <3>3. OnCourse(S, u)
      BY <1>11 DEF Course
    <3> QED
      BY <1>1, <1>7, <1>11, <3>1, <3>2, <3>3, CourseSame
  <2> QED
    BY <2>1, <2>2, <2>3
<1>12. Course(T)
  BY <1>1, <1>7, <1>8, <1>11, CourseKept, AboveOrder
<1>13. Steady(S, T)
  <2> SUFFICES ASSUME NEW q \in Units, StateOf(S, q) \in Terminal PROVE StateOf(T, q) = StateOf(S, q)
    BY DEF Steady
  <2>1. q \in DOMAIN Tree /\ HasFile(q) /\ NodeFile(q) \in Files \ Strays /\ NodeFile(q)[2] = q
    BY UnitsAreAgents, NotStray, FilePaths DEF HasFile
  <2>2. S[NodeFile(q)] # Missing
    BY <1>1, <2>1, StateIs DEF Terminal, None
  <2>3. T[NodeFile(q)] = S[NodeFile(q)]
    BY <1>4, <1>8, <2>1, <2>2 DEF Untouched
  <2> QED
    BY <1>1, <1>7, <2>1, <2>2, <2>3, StateIs
<1>14. \A q \in Hands(r) : Arrived(T, q)
  BY <1>1, <1>5, <1>6, LeafArrives
<1>15. QED
  BY <1>6, <1>12, <1>13, <1>14 DEF InCourse

LEMMA EnterCourse ==
  ASSUME GatesApart, Straight, NEW S, NEW p, StandsAt(S, p), Course(S), Arrived(S, p),
         NEW command, NEW r \in Enter(S, p, command)
  PROVE  InCourse(S, r)
<1>1. CASE /\ NodeKind(p) = "gate"
           /\ r.store = Write(S, RootGateFile(p), OpenGate(p, {})) /\ ~r.runs /\ r.emit = {}
  BY <1>1, GateCourse
<1>2. CASE /\ NodeKind(p) = "agent" /\ r.runs /\ r.legs = {p}
           /\ r.store = S \/ r.store = Write(S, NodeFile(p), FreshUnit(p))
  <2>1. p \in Units
    BY <1>2 DEF Units, StandsAt
  <2> QED
    BY <1>2, <2>1, AgentCourse
<1>3. CASE /\ NodeKind(p) = "fanout" /\ r.runs
           /\ \E L \in LegSets(p) : /\ r.store = EnterFanout(S, p, L)
                                    /\ r.legs = {LeafPath(p, l) : l \in L}
  BY <1>3, FanoutCourse
<1>4. QED
  BY <1>1, <1>2, <1>3, EnterIs

LEMMA CursorIs ==
  /\ \A s, id : Cursor(s, id) # Missing /\ Cursor(s, id).state = s /\ Cursor(s, id).sub_state = id
  /\ \A S, t : StoreOK(S) /\ t \in DOMAIN Tree \ {<<>>} /\ NodeKind(t) = "sequence" /\ Present(S, t) =>
       \A s : LET c == [S[NodeFile(t)] EXCEPT !.state = s] IN
         c # Missing /\ c.state = s /\ c.sub_state = S[NodeFile(t)].sub_state
<1>1. DOMAIN Missing = {"missing"}
  BY DEF Missing
<1>2. \A s, id : Cursor(s, id) # Missing /\ Cursor(s, id).state = s /\ Cursor(s, id).sub_state = id
  BY <1>1 DEF Cursor
<1>3. ASSUME NEW S, NEW t, StoreOK(S), t \in DOMAIN Tree \ {<<>>}, NodeKind(t) = "sequence", Present(S, t),
             NEW s
      PROVE  LET c == [S[NodeFile(t)] EXCEPT !.state = s] IN
             c # Missing /\ c.state = s /\ c.sub_state = S[NodeFile(t)].sub_state
  <2>1. NodeFile(t) \in Files
    BY <1>3, FilesAre
  <2>2. NodeOK(t, S[NodeFile(t)])
    BY <1>3, <2>1, NodeValue DEF Present
  <2>3. DOMAIN S[NodeFile(t)] = {"state", "sub_state"}
    BY <1>3, <2>2 DEF NodeOK
  <2> QED
    BY <1>1, <2>3
<1>4. QED
  BY <1>2, <1>3

LEMMA MergeCourse ==
  ASSUME GatesApart, Straight, NEW S, NEW p, StandsAt(S, p), NodeKind(p) = "merge",
         Course(S), Arrived(S, p), NEW r \in Merge(S, p), r.push
  PROVE  InCourse(S, r)
<1> DEFINE t == Thread(p)
           cursor == NodeFile(ParentPath(p))
           inst == S[InstanceFile]
           sub == IF S[cursor] = Missing THEN None ELSE S[cursor].sub_state
<1>1. /\ p \in DOMAIN Tree \ {<<>>} /\ DOMAIN S = Files /\ StoreOK(S)
      /\ inst \in Instances /\ inst # Missing /\ p \notin Units /\ p \notin NestedFanouts
      /\ t = ParentPath(p) /\ t # p
      /\ t = <<>> <=> ~(Len(p) > 1)
  <2>1. /\ p \in DOMAIN Tree \ {<<>>} /\ DOMAIN S = Files /\ StoreOK(S)
        /\ inst \in Instances /\ inst # Missing /\ p \notin Units /\ p \notin NestedFanouts /\ ~IsLeg(p)
    BY StandsIs, LegsKind DEF StandsAt, Units, NestedFanouts
  <2>2. t = <<>> <=> Len(p) = 1
    BY <2>1, ThreadIs
  <2>3. PICK n \in Nat \ {0} : n = Len(p)
    BY <2>1, NodesAreChildren
  <2>4. n > 1 <=> n # 1
    BY <2>3
  <2>5. t = <<>> <=> ~(Len(p) > 1)
    BY <2>2, <2>3, <2>4, Zenon
  <2> QED
    BY <2>1, <2>5, ThreadIs, AboveParent
<1>2. PICK k : Standing(S, p, k)
  BY <1>1, StandsAsNth DEF Arrived
<1>3. /\ IsThread(t) /\ k \in DOMAIN Children(t) /\ p = Nth(t, k) /\ Children(t)[k] = Stage(S, t)
      /\ S[ThreadFile(t)] # Missing /\ t \in DOMAIN Tree
      /\ t # <<>> => IsLeg(t) /\ NodeKind(t) = "sequence"
  BY <1>2, StandingIs, ThreadsAre
<1>4. LeadsOn(t, k, None)
  BY <1>3, NthIs DEF Straight
<1>5. \A T : Finished(T, p)
  BY DEF Finished
<1>6. MergeConclusions(S, p) # {}
  <2>1. ~Quiet(S).push
    BY ResultIs
  <2> QED
    BY <2>1 DEF Merge
<1>7. CASE Len(p) > 1
  <2> DEFINE T == Write(S, cursor, Cursor("done", sub))
  <2>1. r = Pushes(T, {FireJoin(p)})
    BY <1>6, <1>7 DEF Merge
  <2>2. /\ t # <<>> /\ cursor = NodeFile(t) /\ ThreadFile(t) = NodeFile(t) /\ cursor \in Files
        /\ cursor[2] = t
    BY <1>1, <1>3, <1>7, ThreadsAre, NotStray, FilePaths DEF ThreadFile
  <2>3. DOMAIN T = Files /\ \A f \in Files : T[f] = IF f = cursor THEN Cursor("done", sub) ELSE S[f]
    BY <1>1, WriteIs
  <2> HIDE DEF T
  <2>4. r.store = T /\ ~r.runs /\ r.emit = {FireJoin(p)}
    BY <2>1, ResultIs
  <2>5. T[NodeFile(t)] # Missing /\ Stage(T, t) = Stage(S, t)
    BY <1>3, <2>2, <2>3, CursorIs DEF Stage
  <2>6. Stops(S, T, t, k)
    BY <1>3, <1>4, <1>5, <2>5 DEF Stops
  <2>7. Flat(S, T, p)
    BY <2>2, <2>3 DEF Flat
  <2>8. Course(T) /\ Steady(S, T)
    BY <1>1, <1>2, <2>2, <2>3, <2>5, <2>6, <2>7, StepsOn
  <2> QED
    BY <1>1, <2>4, <2>8, GoesTo
<1>8. CASE ~(Len(p) > 1)
  <2>1. t = <<>> /\ LastId(p) = inst.phase
    BY <1>1, <1>8, StandsIs
  <2> DEFINE i == [inst EXCEPT !.phase = LastId(p), !.joined = TRUE, !.label = "done"]
             T == Write(S, InstanceFile, i)
  <2>2. PICK c : r = Concludes(T, c, {})
    BY <1>1, <1>6, <1>8 DEF Merge
  <2>3. i # Missing /\ i.phase = inst.phase /\ i.overrides = inst.overrides
    BY <1>1, <2>1, InstanceFields
  <2>4. DOMAIN T = Files /\ \A f \in Files : T[f] = IF f = InstanceFile THEN i ELSE S[f]
    BY <1>1, WriteIs
  <2> HIDE DEF T, i
  <2>5. r.store = T /\ ~r.runs /\ r.emit = {}
    BY <2>2 DEF Concludes, Tells, Result
  <2>6. T[InstanceFile] = i
    BY <2>4, FilesAre
  <2>7. Course(T) /\ Steady(S, T)
    BY <1>1, <1>2, <1>4, <1>5, <2>1, <2>3, <2>4, <2>6, RootStep
  <2> QED
    BY <2>5, <2>7, GoesTo
<1>9. QED
  BY <1>7, <1>8

\* The result r on S, of a run in group g, ends the wait of a thread and keeps the order.
Furthers(S, r, g) ==
  \E a \in DOMAIN Tree \ {<<>>} :
    /\ Waits(S, a) /\ g = PlaceGroup(a)
    /\ NodeKind(a) = "fanout" => AllTerminal(S, a, a)
    /\ StandsAt(S, a) /\ Course(S) => InCourse(S, r)

LEMMA OverrideCourse ==
  ASSUME GatesApart, Straight, NEW S, StoreOK(S), NEW r \in Override(S), r.push
  PROVE  Furthers(S, r, RootGroup)
<1> DEFINE inst == S[InstanceFile]
           a == <<inst.halted>>
           next == NextSibling(a)
           i == [inst EXCEPT !.phase = next, !.label = next, !.halted = None,
                             !.overrides = @ \union {inst.halted}]
           T == Write(S, InstanceFile, i)
<1>1. Read(S, InstanceFile) = inst /\ DOMAIN S = Files
  BY FilesAre DEF Read, StoreOK
<1>2. ~Quiet(S).push
  BY ResultIs
<1>3. /\ inst # Missing /\ inst.halted # None /\ next # None
      /\ r = Pushes(T, {Continue(<<next>>)})
  BY <1>1, <1>2 DEF Override
<1>4. inst \in Instances /\ inst.halted \in RootAgents
  BY <1>3, InstanceValue, InstancesChange
<1>5. /\ a \in DOMAIN Tree \ {<<>>} /\ Thread(a) = <<>> /\ NodeKind(a) = "agent"
      /\ ParentPath(a) = <<>> /\ LastId(a) = inst.halted /\ Len(a) = 1
  BY <1>4, RootChildIs DEF RootAgents
<1>7. i # Missing /\ i.phase = next /\ i.label = next /\ i.overrides = inst.overrides \union {inst.halted}
  BY <1>4, InstanceFields
<1> HIDE DEF i
<1>8. DOMAIN T = Files /\ \A f \in Files : T[f] = IF f = InstanceFile THEN i ELSE S[f]
  BY <1>1, WriteIs
<1> HIDE DEF T
<1>9. r.store = T /\ ~r.runs /\ r.emit = {Continue(<<next>>)}
  BY <1>3, ResultIs
<1>10. T[InstanceFile] = i /\ T[NodeFile(a)] = S[NodeFile(a)]
  BY <1>5, <1>8, FilesAre, NotTheInstance
<1>11. Waits(S, a) /\ PlaceGroup(a) = RootGroup
  BY <1>3, <1>5 DEF Waits, PlaceGroup
<1>12. ASSUME StandsAt(S, a), Course(S) PROVE InCourse(S, r)
  <2>1. Thread(a) # a
    BY <1>5
  <2>2. PICK k : Standing(S, a, k)
    BY <1>5, <1>12, <2>1, StandsAsNth
  <2>3. next \in ChildIds(<<>>) /\ LeadsOn(<<>>, k, next) /\ next # "done"
    BY <1>3, <1>5, <1>12, <2>2, NextLeads, RootLabels
  <2>4. Finished(T, a)
    BY <1>5, <1>7, <1>10 DEF Finished
  <2> HIDE DEF a, next
  <2>5. inst.overrides \subseteq T[InstanceFile].overrides
    BY <1>7, <1>10
  <2>6. Course(T) /\ Steady(S, T)
    BY <1>5, <1>7, <1>8, <1>10, <1>12, <2>2, <2>3, <2>4, <2>5, RootStep
  <2>7. Arrived(T, <<next>>)
    BY <1>5, <1>7, <1>8, <1>10, <1>12, <2>2, <2>3, <2>4, RootStepsTo
  <2> QED
    BY <1>9, <2>6, <2>7, GoesTo
<1>13. QED
  BY <1>5, <1>11, <1>12 DEF Furthers

\* What a decision on the root's gate leaves.
LEMMA ResolveIs ==
  ASSUME NEW S, StoreOK(S), NEW decision \in {"approve", "request-changes", "reject"}, NEW said,
         NEW r \in ResolveGate(S, decision, said), r.push
  PROVE  LET inst == S[InstanceFile]
             a == <<inst.phase>>
             next == NextSibling(a)
             T == r.store IN
         /\ inst # Missing /\ NodeKind(a) = "gate" /\ S[NodeFile(a)] # Missing
         /\ S[NodeFile(a)].gate \in {"open", "changes_requested"}
         /\ a \in DOMAIN Tree \ {<<>>} /\ Thread(a) = <<>> /\ inst \in Instances
         /\ DOMAIN T = Files /\ T[InstanceFile] # Missing /\ T[NodeFile(a)] # Missing
         /\ \A f \in Files : f \notin {InstanceFile, NodeFile(a)} => T[f] = S[f]
         /\ T[InstanceFile].overrides = inst.overrides /\ ~r.runs
         /\ \/ /\ next # None /\ T[InstanceFile].phase = next /\ T[InstanceFile].label = next
               /\ T[NodeFile(a)].gate = "approved" /\ r.emit = {Continue(<<next>>)}
            \/ /\ next = None /\ T[InstanceFile].phase = inst.phase
               /\ T[NodeFile(a)].gate = "approved" /\ r.emit = {}
            \/ T[InstanceFile] = inst /\ r.emit = {}
            \/ /\ T[InstanceFile].phase = inst.phase /\ T[InstanceFile].label = "failed"
               /\ r.emit = {}
<1> DEFINE inst == S[InstanceFile]
           a == <<inst.phase>>
           file == S[NodeFile(a)]
           next == NextSibling(a)
           Decided(gate, state) == GateDecided(S, a, gate, state, decision)
           Moved(U, phase, label) ==
             Write(U, InstanceFile, [inst EXCEPT !.phase = phase, !.label = label])
<1>1. Read(S, InstanceFile) = inst /\ DOMAIN S = Files
  BY FilesAre DEF Read, StoreOK
<1>2. ~Quiet(S).push
  BY ResultIs
<1>3. /\ inst # Missing /\ NodeKind(a) = "gate" /\ Read(S, NodeFile(a)) # Missing
      /\ Read(S, NodeFile(a)).gate \in {"open", "changes_requested"}
      /\ \/ /\ decision = "approve" /\ next # None
            /\ r = Pushes(Moved(Decided("approved", Read(S, NodeFile(a)).state), next, next),
                          {Continue(<<next>>)})
         \/ /\ decision = "approve" /\ next = None
            /\ r = Concludes(Moved(Decided("approved", Read(S, NodeFile(a)).state), inst.phase, "done"),
                             "success", {})
         \/ /\ decision = "request-changes"
            /\ r = Tells(Pushes(Decided("changes_requested", Read(S, NodeFile(a)).state), {}))
         \/ /\ decision = "reject"
            /\ r = Concludes(Moved(Decided("rejected", "failed"), inst.phase, "failed"),
                             "failure", {})
  BY <1>1, <1>2 DEF ResolveGate
<1>4. /\ inst \in Instances /\ inst.phase \in ChildIds(<<>>)
      /\ a \in DOMAIN Tree \ {<<>>} /\ Thread(a) = <<>>
  BY <1>3, InstanceValue, InstancesChange, RootChildIs
<1>5. NodeFile(a) \in Files /\ NodeFile(a) # InstanceFile /\ Read(S, NodeFile(a)) = file
      /\ InstanceFile \in Files
  BY <1>1, <1>3, <1>4, FilesAre, NotTheInstance DEF Read
<1>6. DOMAIN file = GateFields
  BY <1>3, <1>4, <1>5, NodeValue DEF NodeOK
<1>8. ASSUME NEW gate, NEW state
      PROVE  /\ DOMAIN Decided(gate, state) = Files
             /\ \A f \in Files : f # NodeFile(a) => Decided(gate, state)[f] = S[f]
             /\ Decided(gate, state)[NodeFile(a)] # Missing
             /\ Decided(gate, state)[NodeFile(a)].gate = gate
  <2> DEFINE v == [file EXCEPT !.gate = gate, !.state = state, !.history = Append(@, decision)]
  <2>1. Decided(gate, state) = Write(S, NodeFile(a), v)
    BY DEF GateDecided
  <2>2. DOMAIN v = GateFields /\ v.gate = gate
    BY <1>6 DEF GateFields
  <2>3. v # Missing
    <3>1. "gate" \in DOMAIN v
      BY <2>2 DEF GateFields
    <3> HIDE DEF v
    <3>2. DOMAIN Missing = {"missing"}
      BY InstanceFields
    <3> QED
      BY <3>1, <3>2
  <2> HIDE DEF v, Decided
  <2>4. /\ DOMAIN Write(S, NodeFile(a), v) = Files
        /\ \A f \in Files : Write(S, NodeFile(a), v)[f] = IF f = NodeFile(a) THEN v ELSE S[f]
    BY <1>1, WriteIs
  <2> QED
    BY <1>5, <2>1, <2>2, <2>3, <2>4
<1>9. ASSUME NEW U, DOMAIN U = Files, NEW phase, NEW label
      PROVE  /\ DOMAIN Moved(U, phase, label) = Files
             /\ \A f \in Files : f # InstanceFile => Moved(U, phase, label)[f] = U[f]
             /\ LET i == Moved(U, phase, label)[InstanceFile] IN
                /\ i # Missing /\ i.overrides = inst.overrides
                /\ i.phase = phase /\ i.label = label
  <2> DEFINE i == [inst EXCEPT !.phase = phase, !.label = label]
  <2>1. i # Missing /\ i.overrides = inst.overrides /\ i.phase = phase /\ i.label = label
    BY <1>4, InstanceFields
  <2> HIDE DEF i
  <2>2. DOMAIN Write(U, InstanceFile, i) = Files
        /\ \A f \in Files : Write(U, InstanceFile, i)[f] = IF f = InstanceFile THEN i ELSE U[f]
    BY <1>9, WriteIs
  <2>3. Moved(U, phase, label) = Write(U, InstanceFile, i)
    BY DEF i
  <2> QED
    BY <1>5, <2>1, <2>2, <2>3
<1> HIDE DEF Decided, Moved
<1>10. ASSUME NEW gate, NEW state, NEW phase, NEW label
       PROVE  LET T == Moved(Decided(gate, state), phase, label) IN
              /\ DOMAIN T = Files /\ T[InstanceFile] # Missing /\ T[NodeFile(a)] # Missing
              /\ \A f \in Files : f \notin {InstanceFile, NodeFile(a)} => T[f] = S[f]
              /\ T[InstanceFile].overrides = inst.overrides
              /\ T[InstanceFile].phase = phase /\ T[InstanceFile].label = label
              /\ T[NodeFile(a)].gate = gate
  BY <1>5, <1>8, <1>9
<1>11. ASSUME NEW gate, NEW state
       PROVE  LET T == Decided(gate, state) IN
              /\ DOMAIN T = Files /\ T[InstanceFile] = inst /\ T[NodeFile(a)] # Missing
              /\ \A f \in Files : f \notin {InstanceFile, NodeFile(a)} => T[f] = S[f]
  BY <1>5, <1>8
<1> DEFINE Leaves ==
      LET T == r.store IN
      /\ DOMAIN T = Files /\ T[InstanceFile] # Missing /\ T[NodeFile(a)] # Missing
      /\ \A f \in Files : f \notin {InstanceFile, NodeFile(a)} => T[f] = S[f]
      /\ T[InstanceFile].overrides = inst.overrides /\ ~r.runs
      /\ \/ /\ next # None /\ T[InstanceFile].phase = next /\ T[InstanceFile].label = next
            /\ T[NodeFile(a)].gate = "approved" /\ r.emit = {Continue(<<next>>)}
         \/ /\ next = None /\ T[InstanceFile].phase = inst.phase
            /\ T[NodeFile(a)].gate = "approved" /\ r.emit = {}
         \/ T[InstanceFile] = inst /\ r.emit = {}
         \/ /\ T[InstanceFile].phase = inst.phase /\ T[InstanceFile].label = "failed"
            /\ r.emit = {}
<1>12. CASE /\ next # None
            /\ r = Pushes(Moved(Decided("approved", file.state), next, next), {Continue(<<next>>)})
  <2> HIDE DEF inst, a, file, next
  <2>1. /\ r.store = Moved(Decided("approved", file.state), next, next) /\ ~r.runs
        /\ r.emit = {Continue(<<next>>)}
    BY <1>12, ResultIs
  <2>3. LET T == r.store IN
        /\ DOMAIN T = Files /\ T[InstanceFile] # Missing /\ T[NodeFile(a)] # Missing
        /\ \A f \in Files : f \notin {InstanceFile, NodeFile(a)} => T[f] = S[f]
        /\ T[InstanceFile].overrides = inst.overrides
        /\ T[InstanceFile].phase = next /\ T[InstanceFile].label = next
        /\ T[NodeFile(a)].gate = "approved"
    BY <1>10, <2>1
  <2>2. Leaves
    BY <1>12, <2>1, <2>3
  <2> QED
    BY <1>3, <1>4, <1>5, <2>2 DEF inst, a, file, next
<1>13. CASE /\ next = None
            /\ r = Concludes(Moved(Decided("approved", file.state), inst.phase, "done"), "success", {})
  <2> HIDE DEF inst, a, file, next
  <2>1. r.store = Moved(Decided("approved", file.state), inst.phase, "done") /\ ~r.runs /\ r.emit = {}
    BY <1>13 DEF Concludes, Tells, Result
  <2>2. Leaves
    BY <1>10, <1>13, <2>1
  <2> QED
    BY <1>3, <1>4, <1>5, <2>2 DEF inst, a, file, next
<1>14. CASE r = Tells(Pushes(Decided("changes_requested", file.state), {}))
  <2> HIDE DEF inst, a, file, next
  <2>1. r.store = Decided("changes_requested", file.state) /\ ~r.runs /\ r.emit = {}
    BY <1>14, ResultIs
  <2>3. inst # Missing
    BY <1>3
  <2>2. Leaves
    BY <1>11, <2>1, <2>3
  <2> QED
    BY <1>3, <1>4, <1>5, <2>2 DEF inst, a, file, next
<1>15. CASE r = Concludes(Moved(Decided("rejected", "failed"), inst.phase, "failed"), "failure", {})
  <2> HIDE DEF inst, a, file, next
  <2>1. r.store = Moved(Decided("rejected", "failed"), inst.phase, "failed") /\ ~r.runs /\ r.emit = {}
    BY <1>15 DEF Concludes, Tells, Result
  <2>2. Leaves
    BY <1>10, <2>1
  <2> QED
    BY <1>3, <1>4, <1>5, <2>2 DEF inst, a, file, next
<1>16. QED
  BY <1>3, <1>5, <1>12, <1>13, <1>14, <1>15

LEMMA ResolveCourse ==
  ASSUME GatesApart, Straight, NEW S, StoreOK(S),
         NEW decision \in {"approve", "request-changes", "reject"}, NEW said,
         NEW r \in ResolveGate(S, decision, said), r.push
  PROVE  Furthers(S, r, RootGroup)
<1> DEFINE inst == S[InstanceFile]
           a == <<inst.phase>>
           next == NextSibling(a)
           T == r.store
<1>1. /\ inst # Missing /\ NodeKind(a) = "gate" /\ S[NodeFile(a)] # Missing
      /\ S[NodeFile(a)].gate \in {"open", "changes_requested"}
      /\ a \in DOMAIN Tree \ {<<>>} /\ Thread(a) = <<>> /\ inst \in Instances
      /\ DOMAIN T = Files /\ T[InstanceFile] # Missing /\ T[NodeFile(a)] # Missing
      /\ \A f \in Files : f \notin {InstanceFile, NodeFile(a)} => T[f] = S[f]
      /\ T[InstanceFile].overrides = inst.overrides /\ ~r.runs
      /\ \/ /\ next # None /\ T[InstanceFile].phase = next /\ T[InstanceFile].label = next
            /\ T[NodeFile(a)].gate = "approved" /\ r.emit = {Continue(<<next>>)}
         \/ /\ next = None /\ T[InstanceFile].phase = inst.phase
            /\ T[NodeFile(a)].gate = "approved" /\ r.emit = {}
         \/ T[InstanceFile] = inst /\ r.emit = {}
         \/ /\ T[InstanceFile].phase = inst.phase /\ T[InstanceFile].label = "failed"
            /\ r.emit = {}
  BY ResolveIs
<1>2. Waits(S, a) /\ PlaceGroup(a) = RootGroup
  BY <1>1 DEF Waits, PlaceGroup, Present
<1> HIDE DEF T
<1>3. ASSUME StandsAt(S, a), Course(S) PROVE InCourse(S, r)
  <2>1. a # <<>> /\ a \notin Units /\ Len(a) = 1
    BY <1>1 DEF Units
  <2> HIDE DEF a, next
  <2>2. PICK k : Standing(S, a, k)
    BY <1>1, <1>3, <2>1, StandsAsNth
  <2>3. /\ next # None => next \in ChildIds(<<>>) /\ LeadsOn(<<>>, k, next) /\ next # "done"
        /\ next = None => LeadsOn(<<>>, k, None)
    BY <1>1, <1>3, <2>2, NextLeads, RootLabels DEF next
  <2>4. T[NodeFile(a)].gate = "approved" => Finished(T, a)
    BY <1>1, <2>1 DEF Finished
  <2>5. inst.label # "done"
    <3>1. /\ k \in DOMAIN Children(<<>>) /\ Nth(<<>>, k) = a /\ S[ThreadFile(<<>>)] # Missing
          /\ IsThread(<<>>) /\ <<>> \in DOMAIN Tree
      BY <1>1, <1>3, <2>2, StandingIs, ThreadsAre
    <3>2. InOrder(S, <<>>, k)
      BY <1>3, <3>1 DEF Course, OnCourse
    <3>3. Complete(S, <<>>) => Finished(S, a)
      BY <3>1, <3>2 DEF InOrder
    <3>4. ~Finished(S, a)
      BY <1>1, <2>1 DEF Finished
    <3> QED
      BY <3>3, <3>4 DEF Complete
  <2>6. T[InstanceFile].phase = next /\ next # None /\ T[InstanceFile].label = next
          /\ T[NodeFile(a)].gate = "approved" => Arrived(T, <<next>>)
    BY <1>1, <1>3, <2>2, <2>3, <2>4, RootStepsTo
  <2>7. Course(T) /\ Steady(S, T)
    BY <1>1, <1>3, <2>1, <2>2, <2>3, <2>4, <2>5, RootStep
  <2> QED
    BY <1>1, <2>6, <2>7, GoesTo DEF T
<1>4. QED
  BY <1>1, <1>2, <1>3 DEF Furthers

\* Answers to the gate a leg waits at.
LEMMA AnswerCourse ==
  ASSUME GatesApart, Straight, NEW S, StoreOK(S), S[InstanceFile] # Missing, NEW said,
         NEW r \in Answer(S, said), r.push
  PROVE  Furthers(S, r, RootGroup)
<1> DEFINE p == FindOpenGate(S, said.branch)
           leg == ParentPath(p)
           next == NextSibling(p)
           v == S[NodeFile(p)]
           questions == v.questions
           answered == AllAnswers(S, p, said)
           A == Answers(questions, answered)
           T == Write(S, AnswersFile(p), A)
           w(gate) == [v EXCEPT !.gate = gate, !.history = Append(@, said.answered)]
           U(gate) == Write(T, NodeFile(p), w(gate))
<1>1. p # <<>>
  <2>1. ~Quiet(S).push
    BY DEF Quiet, Result
  <2>2. p = <<>> => r = Quiet(S)
    BY DEF Answer
  <2> HIDE DEF p
  <2> QED
    BY <2>1, <2>2
<1>2. p \in OpenGates(S, said.branch)
  BY <1>1 DEF FindOpenGate
<1>3. \/ ~Covers(questions, answered) /\ r = Pushes(U("open"), {})
      \/ /\ next # None /\ Covers(questions, answered)
         /\ r = Pushes(Write(U("answered"), NodeFile(leg), Cursor(LifeState(p), next)),
                       {Continue(Child(leg, next))})
      \/ /\ next = None /\ Covers(questions, answered)
         /\ r = Pushes(Write(U("answered"), NodeFile(leg), [S[NodeFile(leg)] EXCEPT !.state = "done"]),
                       {FireJoin(p)})
  BY <1>1 DEF Answer
<1> HIDE DEF p
<1>4. /\ p \in LegGates /\ p \in DOMAIN Tree \ {<<>>} /\ NodeKind(p) = "gate" /\ ~IsRootChild(p)
      /\ NodeKind(leg) = "sequence" /\ leg \in DOMAIN Tree \ {<<>>}
      /\ v # Missing /\ S[NodeFile(leg)] # Missing
      /\ v.gate = "open" /\ DOMAIN v = GateFields
      /\ leg # p
  <2>1. /\ p \in LegGates /\ p \in DOMAIN Tree /\ NodeKind(p) = "gate" /\ ~IsRootChild(p)
        /\ NodeKind(leg) = "sequence" /\ leg \in DOMAIN Tree
        /\ v # Missing /\ S[NodeFile(leg)] # Missing
    BY <1>2, OpenGatesAre
  <2>2. NodeFile(p) \in DOMAIN S
    BY <2>1, FilesAre DEF StoreOK
  <2>3. v.gate = "open"
    BY <1>2, <2>2 DEF OpenGates
  <2>4. DOMAIN v = GateFields
    BY <2>1, NodeValue DEF NodeOK
  <2>5. leg # <<>>
    BY <2>1 DEF NodeKind, None
  <2> QED
    BY <1>1, <2>1, <2>3, <2>4, <2>5
<1>5. /\ NodeFile(p) \in Files /\ NodeFile(leg) \in Files /\ AnswersFile(p) \in Files
      /\ NodeFile(p) # NodeFile(leg) /\ NodeFile(p) # AnswersFile(p) /\ NodeFile(leg) # AnswersFile(p)
      /\ InstanceFile \in Files /\ InstanceFile # NodeFile(p) /\ InstanceFile # NodeFile(leg)
      /\ InstanceFile # AnswersFile(p) /\ DOMAIN S = Files
  BY <1>4, FilesAre, FilePaths, NotTheInstance DEF StoreOK
<1>6. Waits(S, p) /\ PlaceGroup(p) = RootGroup
  BY <1>4 DEF Waits, PlaceGroup, Present
<1> HIDE DEF leg
<1>7. ASSUME NEW gate
      PROVE  /\ DOMAIN U(gate) = Files /\ U(gate)[NodeFile(p)] # Missing
             /\ U(gate)[NodeFile(p)].gate = gate /\ U(gate)[NodeFile(p)].questions = questions
             /\ U(gate)[AnswersFile(p)] = A
             /\ \A f \in Files : f # AnswersFile(p) /\ f # NodeFile(p) => U(gate)[f] = S[f]
  <2>1. w(gate).gate = gate /\ w(gate).questions = v.questions /\ w(gate) # Missing
    <3> DEFINE history == Append(v.history, said.answered)
    <3>1. w(gate) = [v EXCEPT !.gate = gate, !.history = history]
      OBVIOUS
    <3> HIDE DEF history, v
    <3> QED
      BY <1>4, <3>1, InstanceFields DEF GateFields
  <2> HIDE DEF w, A
  <2>2. DOMAIN T = Files /\ \A f \in Files : T[f] = IF f = AnswersFile(p) THEN A ELSE S[f]
    BY <1>5, WriteIs
  <2> HIDE DEF T
  <2>3. DOMAIN U(gate) = Files /\ \A f \in Files : U(gate)[f] = IF f = NodeFile(p) THEN w(gate) ELSE T[f]
    BY <2>2, WriteIs
  <2> HIDE DEF U
  <2> QED
    BY <1>5, <2>1, <2>2, <2>3
<1> HIDE DEF U, T, w, A, questions, answered
<1>8. ASSUME NEW c
      PROVE  LET V == Write(U("answered"), NodeFile(leg), c) IN
             /\ DOMAIN V = Files /\ V[NodeFile(leg)] = c /\ V[NodeFile(p)] # Missing
             /\ V[NodeFile(p)].gate = "answered" /\ V[NodeFile(p)].questions = questions
             /\ V[AnswersFile(p)] = A
             /\ \A f \in Files : f \notin {AnswersFile(p), NodeFile(p), NodeFile(leg)} => V[f] = S[f]
             /\ V[InstanceFile] = S[InstanceFile]
  BY <1>5, <1>7, WriteIs
<1>20. Covers(questions, answered) => A # Missing /\ questions \subseteq A.answered
  <2>1. DOMAIN A = {"questions", "answered"} /\ A.answered = answered
    BY DEF A, Answers
  <2>2. A # Missing
    BY <2>1, InstanceFields
  <2> QED
    BY <2>1, <2>2 DEF Covers
<1>21. /\ AnswersFile(p)[2] = p /\ NodeFile(p)[2] = p /\ NodeFile(leg)[2] = leg
       /\ Thread(p) = leg /\ Len(p) # 1 /\ p \notin Units /\ p \notin NestedFanouts
       /\ leg # <<>> /\ ThreadFile(leg) = NodeFile(leg) /\ LifeState(p) \notin Terminal
       /\ LifeState(p) # "done"
  <2>1. ~IsLeg(p)
    BY <1>4, LegsKind
  <2>2. Thread(p) = leg
    BY <1>4, <2>1, ThreadIs DEF leg
  <2>3. p \notin Units /\ p \notin NestedFanouts
    BY <1>4 DEF Units, NestedFanouts
  <2>4. LifeState(p) \notin Terminal
    BY <1>4, InFlight DEF leg
  <2>5. LifeState(p) # "done"
    BY <2>4 DEF Terminal
  <2> QED
    BY <1>4, <2>2, <2>3, <2>4, <2>5, FilePaths DEF ThreadFile, IsRootChild
<1>22. S[NodeFile(leg)].sub_state = LastId(p)
  <2> DEFINE k == Len(p) - 1
  <2>1. Len(p) \in Nat /\ Len(leg) \in Nat \ {0} /\ leg = Prefix(p, k) /\ Len(leg) = k
        /\ p = Append(leg, LastId(p))
    BY <1>4, NodesAreChildren DEF leg, Prefix, ParentPath, Child
  <2>2. k \in 1 .. Len(p) - 1 /\ k + 1 = Len(p)
    BY <2>1
  <2>3. NodeKind(Prefix(p, k)) = "sequence" => S[NodeFile(Prefix(p, k))].sub_state = p[k + 1]
    BY <1>2, <2>2 DEF OpenGates, OnCursors
  <2>4. p[k + 1] = LastId(p)
    BY <2>2 DEF LastId
  <2> HIDE DEF k
  <2> QED
    BY <1>4, <2>1, <2>3, <2>4
<1>23. SUFFICES ASSUME StandsAt(S, p), Course(S) PROVE InCourse(S, r)
  BY <1>4, <1>6 DEF Furthers
<1>24. PICK k : Standing(S, p, k)
  BY <1>4, <1>21, <1>22, <1>23, StandsAsNth
<1>25. /\ k \in DOMAIN Children(leg) /\ Nth(leg, k) = p /\ IsThread(leg) /\ Going(S, leg)
       /\ LastId(p) = Stage(S, leg)
  BY <1>21, <1>23, <1>24, StandingIs
<1>26. ASSUME NEW V, DOMAIN V = Files, V[NodeFile(p)] # Missing,
              \A f \in Files : f \notin {AnswersFile(p), NodeFile(p), NodeFile(leg)} => V[f] = S[f]
       PROVE  /\ Flat(S, V, p)
              /\ \A f \in Files \ Strays : V[f] # S[f] => f[2] = leg \/ f[2] = p
              /\ Covers(questions, answered) /\ V[NodeFile(p)].gate = "answered"
                 /\ V[NodeFile(p)].questions = questions /\ V[AnswersFile(p)] = A => Finished(V, p)
  <2>1. \A f \in Files \ Strays : V[f] # S[f] => f[2] = leg \/ f[2] = p
    BY <1>21, <1>26
  <2>2. Covers(questions, answered) /\ V[NodeFile(p)].gate = "answered"
                 /\ V[NodeFile(p)].questions = questions /\ V[AnswersFile(p)] = A => Finished(V, p)
    BY <1>4, <1>20, <1>21, <1>26 DEF Finished, AnsweredAt
  <2> QED
    BY <1>21, <2>1, <2>2 DEF Flat
<1> HIDE DEF v
<1>10. CASE r = Pushes(U("open"), {})
  <2> DEFINE V == U("open")
  <2>1. r.store = V /\ ~r.runs /\ r.emit = {}
    BY <1>10, ResultIs
  <2>2. /\ DOMAIN V = Files /\ V[NodeFile(p)] # Missing
        /\ \A f \in Files : f \notin {AnswersFile(p), NodeFile(p), NodeFile(leg)} => V[f] = S[f]
        /\ V[NodeFile(leg)] = S[NodeFile(leg)]
    BY <1>5, <1>7
  <2> HIDE DEF V
  <2>3. Flat(S, V, p)
    BY <1>26, <2>2
  <2>4. Stays(S, V, leg)
    <3>1. S[NodeFile(leg)].state # "done"
      BY <1>25 DEF Going, Terminal
    <3> QED
      BY <1>21, <2>2, <3>1 DEF Stays, Stage, Complete
  <2>5. Course(V) /\ Steady(S, V)
    BY <1>4, <1>21, <1>23, <1>24, <2>2, <2>3, <2>4, StepsOn
  <2> QED
    BY <2>1, <2>5, GoesTo
<1>11. CASE /\ next # None /\ Covers(questions, answered)
            /\ r = Pushes(Write(U("answered"), NodeFile(leg), Cursor(LifeState(p), next)),
                          {Continue(Child(leg, next))})
  <2> DEFINE c == Cursor(LifeState(p), next)
             V == Write(U("answered"), NodeFile(leg), c)
             q == Child(leg, next)
  <2>1. next \in ChildIds(leg) /\ LeadsOn(leg, k, next)
    BY <1>11, <1>21, <1>23, <1>24, NextLeads
  <2>2. c # Missing /\ c.state = LifeState(p) /\ c.sub_state = next
    BY CursorIs
  <2> HIDE DEF c, next
  <2>3. /\ DOMAIN V = Files /\ V[NodeFile(leg)] = c /\ V[NodeFile(p)] # Missing
        /\ V[NodeFile(p)].gate = "answered" /\ V[NodeFile(p)].questions = questions
        /\ V[AnswersFile(p)] = A
        /\ \A f \in Files : f \notin {AnswersFile(p), NodeFile(p), NodeFile(leg)} => V[f] = S[f]
    BY <1>8
  <2>4. r.store = V /\ ~r.runs /\ r.emit = {Continue(q)}
    BY <1>11, ResultIs DEF V, c
  <2> HIDE DEF V, q
  <2>5. Flat(S, V, p) /\ Finished(V, p) /\ \A f \in Files \ Strays : V[f] # S[f] => f[2] = leg \/ f[2] = p
    BY <1>11, <1>26, <2>3
  <2>6. Stage(V, leg) = next /\ ~Complete(V, leg)
    BY <1>21, <2>2, <2>3 DEF Stage, Complete
  <2>7. Proceeds(V, leg, k)
    BY <1>25, <2>1, <2>5, <2>6 DEF Proceeds
  <2>8. V[ThreadFile(leg)] # Missing
    BY <1>21, <2>2, <2>3
  <2>9. Course(V) /\ Steady(S, V)
    BY <1>4, <1>21, <1>23, <1>24, <2>3, <2>5, <2>7, <2>8, StepsOn
  <2>10. Arrived(V, q)
    BY <1>21, <1>23, <1>24, <2>3, <2>5, <2>6, <2>7, StepsTo DEF q
  <2> QED
    BY <2>4, <2>9, <2>10, GoesTo
<1>12. CASE /\ next = None /\ Covers(questions, answered)
            /\ r = Pushes(Write(U("answered"), NodeFile(leg), [S[NodeFile(leg)] EXCEPT !.state = "done"]),
                          {FireJoin(p)})
  <2> DEFINE c == [S[NodeFile(leg)] EXCEPT !.state = "done"]
             V == Write(U("answered"), NodeFile(leg), c)
  <2>1. LeadsOn(leg, k, None)
    BY <1>12, <1>21, <1>23, <1>24, NextLeads
  <2>2. c # Missing /\ c.sub_state = S[NodeFile(leg)].sub_state
    BY <1>4, <1>25, CursorIs DEF Going
  <2> HIDE DEF c, next
  <2>3. /\ DOMAIN V = Files /\ V[NodeFile(leg)] = c /\ V[NodeFile(p)] # Missing
        /\ V[NodeFile(p)].gate = "answered" /\ V[NodeFile(p)].questions = questions
        /\ V[AnswersFile(p)] = A
        /\ \A f \in Files : f \notin {AnswersFile(p), NodeFile(p), NodeFile(leg)} => V[f] = S[f]
    BY <1>8
  <2>4. r.store = V /\ ~r.runs /\ r.emit = {FireJoin(p)}
    BY <1>12, ResultIs DEF V, c
  <2> HIDE DEF V
  <2>5. Flat(S, V, p) /\ Finished(V, p)
    BY <1>12, <1>26, <2>3
  <2>6. Stage(V, leg) = Stage(S, leg)
    BY <1>21, <2>2, <2>3 DEF Stage
  <2>7. Stops(S, V, leg, k)
    BY <1>25, <2>1, <2>5, <2>6 DEF Stops
  <2>8. V[ThreadFile(leg)] # Missing
    BY <1>21, <2>2, <2>3
  <2>9. Course(V) /\ Steady(S, V)
    BY <1>4, <1>21, <1>23, <1>24, <2>3, <2>5, <2>7, <2>8, StepsOn
  <2> QED
    BY <1>4, <2>4, <2>9, GoesTo
<1>13. QED
  BY <1>3, <1>10, <1>11, <1>12

\* The barrier of a fan-out depends on its manifest and its legs' files.
LEMMA SameLegs ==
  ASSUME NEW S, StoreOK(S), NEW T, DOMAIN T = Files,
         NEW c \in DOMAIN Tree \ {<<>>}, NodeKind(c) = "fanout",
         IsDynamic(c) => T[ManifestFile(c)] = S[ManifestFile(c)],
         \A l \in ChildIds(c) : T[NodeFile(Child(c, l))] = S[NodeFile(Child(c, l))]
  PROVE  (Closed(T, c) <=> Closed(S, c)) /\ (Clears(T, c) <=> Clears(S, c))
<1>1. DOMAIN S = Files
  BY DEF StoreOK
<1>2. LegIds(T, c) = LegIds(S, c)
  BY <1>1 DEF LegIds, Read
<1>3. \A l \in LegIds(S, c) : StateOf(T, Child(c, l)) = StateOf(S, Child(c, l))
  BY <1>1, LegIdsAreChildren DEF StateOf, Read
<1>4. {l \in LegIds(T, c) : StateOf(T, Child(c, l)) = "done"}
        = {l \in LegIds(S, c) : StateOf(S, Child(c, l)) = "done"}
  BY <1>2, <1>3
<1>5. QED
  BY <1>2, <1>3, <1>4 DEF Closed, AllTerminal, Clears, PolicyMet

LEMMA MarkerIs ==
  /\ Marker(TRUE, TRUE) # Missing /\ Marker(TRUE, TRUE).joined /\ Marker(TRUE, TRUE).failed = TRUE
  /\ Marker(TRUE, FALSE) # Missing /\ Marker(TRUE, FALSE).joined /\ Marker(TRUE, FALSE).failed = FALSE
<1>1. \A failed : DOMAIN Marker(TRUE, failed) = {"joined", "failed"} /\ "joined" \notin DOMAIN Missing
  BY InstanceFields DEF Marker
<1>2. QED
  BY <1>1 DEF Marker

\* The join of a nested fan-out closes its barrier with the outcome its legs have.
LEMMA NestedJoinCourse ==
  ASSUME GatesApart, Straight, NEW S, StoreOK(S), S[InstanceFile] # Missing, NEW p \in NestedFanouts,
         S[JoinFile(p)] # Missing, NEW r, r = NestedJoin(S, p), r.push
  PROVE  Furthers(S, r, <<"join", p>>)
<1> DEFINE leg == ParentPath(p)
           joins == JoinsOver(leg, LastId(p))
           policy == IF joins = <<>> THEN AllPolicy ELSE Tree[joins[1]].policy
           next == IF joins = <<>> THEN None ELSE Tree[joins[1]].next
           cursor == IF S[NodeFile(leg)] = Missing THEN Cursor(None, None) ELSE S[NodeFile(leg)]
           Joined(failed, newCursor) ==
             Write(Write(S, JoinFile(p), Marker(TRUE, failed)), NodeFile(leg), newCursor)
           met == PolicyMet(S, p, p, policy)
<1>1. r # Quiet(S)
  BY DEF Quiet, Result
<1>2. /\ ~S[JoinFile(p)].joined /\ AllTerminal(S, p, p)
      /\ \/ ~met /\ r = Pushes(Joined(TRUE, [cursor EXCEPT !.state = "failed"]), {FireJoin(leg)})
         \/ /\ met /\ next # None
            /\ r = Pushes(Joined(FALSE, Cursor(EnclosingFanoutId(leg), next)), {Continue(Child(leg, next))})
         \/ /\ met /\ next = None
            /\ r = Pushes(Joined(FALSE, [cursor EXCEPT !.state = "done"]), {FireJoin(leg)})
  <2>1. NestedJoin(S, p) =
          IF (S[JoinFile(p)] # Missing /\ S[JoinFile(p)].joined) \/ ~AllTerminal(S, p, p)
          THEN Quiet(S)
          ELSE CASE ~met ->
                     Pushes(Joined(TRUE, [cursor EXCEPT !.state = "failed"]), {FireJoin(leg)})
                 [] met /\ next # None ->
                     Pushes(Joined(FALSE, Cursor(EnclosingFanoutId(leg), next)),
                            {Continue(Child(leg, next))})
                 [] met /\ next = None ->
                     Pushes(Joined(FALSE, [cursor EXCEPT !.state = "done"]), {FireJoin(leg)})
    BY DEF NestedJoin
  <2> DEFINE c1 == Pushes(Joined(TRUE, [cursor EXCEPT !.state = "failed"]), {FireJoin(leg)})
             c2 == Pushes(Joined(FALSE, Cursor(EnclosingFanoutId(leg), next)), {Continue(Child(leg, next))})
             c3 == Pushes(Joined(FALSE, [cursor EXCEPT !.state = "done"]), {FireJoin(leg)})
  <2>2. NestedJoin(S, p) =
          IF (S[JoinFile(p)] # Missing /\ S[JoinFile(p)].joined) \/ ~AllTerminal(S, p, p)
          THEN Quiet(S)
          ELSE CASE ~met -> c1 [] met /\ next # None -> c2 [] met /\ next = None -> c3
    BY <2>1
  <2> HIDE DEF c1, c2, c3, met, next
  <2>3. /\ ~(S[JoinFile(p)].joined \/ ~AllTerminal(S, p, p))
        /\ (~met /\ r = c1) \/ (met /\ next # None /\ r = c2) \/ (met /\ next = None /\ r = c3)
    BY <1>1, <2>2
  <2> QED
    BY <2>3 DEF c1, c2, c3, met, next
<1>3. /\ p \in DOMAIN Tree \ {<<>>} /\ NodeKind(p) = "fanout" /\ ~IsRootChild(p) /\ Len(p) > 1
      /\ leg \in DOMAIN Tree \ {<<>>} /\ NodeKind(leg) = "sequence" /\ p # leg
      /\ Thread(p) = leg /\ IsLeg(leg) /\ Above(leg, leg) /\ Above(leg, p) /\ IsThread(leg)
      /\ ParentPath(p) = leg
  <2>1. p \in DOMAIN Tree \ {<<>>} /\ NodeKind(p) = "fanout" /\ ~IsRootChild(p)
    BY DEF NestedFanouts, NodeKind, None
  <2>2. Len(p) # 1 /\ Len(p) > 1
    BY <2>1, LongFanouts DEF IsRootChild
  <2>3. NodeKind(leg) = "sequence"
    BY <2>1, <2>2, InSubPipeline
  <2>4. ~IsLeg(p)
    BY <2>1, LegsKind
  <2>5. Thread(p) = leg /\ Above(leg, p) /\ IsThread(leg)
    BY <2>1, <2>4, ThreadIs
  <2>6. leg # <<>>
    BY <2>3 DEF NodeKind, None
  <2>7. IsLeg(leg) /\ leg \in DOMAIN Tree \ {<<>>} /\ Above(leg, leg)
    BY <2>5, <2>6, ThreadsAre
  <2> QED
    BY <2>1, <2>2, <2>3, <2>5, <2>7
<1>4. next # None => next \in ChildIds(leg)
  <2>1. joins # <<>> => Tree[joins[1]].next \in ChildIds(leg) \union {None}
    BY NamesAssumption
  <2> QED
    BY <2>1
<1>5. Waits(S, p) /\ PlaceGroup(p) = <<"join", p>>
  BY <1>2, <1>3 DEF Waits, PlaceGroup
<1>6. DOMAIN S = Files /\ JoinFile(p) \in Files /\ NodeFile(leg) \in Files
      /\ JoinFile(p) # NodeFile(leg) /\ JoinFile(p) # InstanceFile /\ NodeFile(leg) # InstanceFile
      /\ InstanceFile \in Files
  BY <1>3, FilesAre, FilePaths, NotTheInstance DEF StoreOK
<1> HIDE DEF leg, next, cursor
<1> DEFINE Shut(m, c) == Write(Write(S, JoinFile(p), m), NodeFile(leg), c)
<1>7. ASSUME NEW m, NEW c
      PROVE  LET V == Shut(m, c) IN
             /\ DOMAIN V = Files /\ V[NodeFile(leg)] = c /\ V[JoinFile(p)] = m
             /\ \A f \in Files : f \notin {JoinFile(p), NodeFile(leg)} => V[f] = S[f]
  <2> DEFINE T == Write(S, JoinFile(p), m)
  <2>1. DOMAIN T = Files /\ \A f \in Files : T[f] = IF f = JoinFile(p) THEN m ELSE S[f]
    BY <1>6, WriteIs
  <2> HIDE DEF T
  <2>2. /\ DOMAIN Write(T, NodeFile(leg), c) = Files
        /\ \A f \in Files : Write(T, NodeFile(leg), c)[f] = IF f = NodeFile(leg) THEN c ELSE T[f]
    BY <2>1, WriteIs
  <2> QED
    BY <1>6, <2>1, <2>2 DEF T
<1>8. \A failed, c : Joined(failed, c) = Shut(Marker(TRUE, failed), c)
  OBVIOUS
<1> HIDE DEF Joined, Shut
<1>20. /\ met <=> Clears(S, p)
       /\ next = NextOver(p)
       /\ Closed(S, p)
  BY <1>2, <1>3 DEF Clears, PolicyOver, NextOver, Closed, next
<1> HIDE DEF met
<1>21. SUFFICES ASSUME StandsAt(S, p), Course(S) PROVE InCourse(S, r)
  BY <1>2, <1>3, <1>5 DEF Furthers
<1>22. /\ ThreadFile(leg) = NodeFile(leg) /\ leg # <<>> /\ p \notin Units
       /\ NodeFile(leg)[2] = leg /\ JoinFile(p)[2] = p /\ LastId(p) \in ChildIds(leg)
       /\ p = Child(leg, LastId(p))
  BY <1>3, FilePaths, NodesAreChildren DEF ThreadFile, Units
<1>23. Going(S, leg)
  BY <1>3, <1>21, <1>22, StandsIs
<1>24. PICK k : Standing(S, p, k)
  <2>1. PICK k \in DOMAIN Children(leg) : Children(leg)[k] = LastId(p)
    BY <1>22 DEF ChildIds
  <2>2. InOrder(S, leg, k)
    BY <1>3, <1>21, <1>22, <1>23 DEF Course, OnCourse, Going, Present
  <2>3. Nth(leg, k) = p
    BY <1>22, <2>1 DEF Nth
  <2>4. Barred(S, leg, k)
    BY <2>2, <2>3 DEF InOrder
  <2>5. S[NodeFile(leg)].sub_state = LastId(p)
    BY <1>2, <1>23, <2>3, <2>4 DEF Barred, Going
  <2> QED
    BY <1>3, <1>21, <2>5, StandsAsNth
<1>25. /\ k \in DOMAIN Children(leg) /\ Nth(leg, k) = p /\ LastId(p) = Stage(S, leg)
  BY <1>3, <1>21, <1>24, StandingIs
<1>26. LeadsOn(leg, k, next)
  <2>1. Sequential(leg) /\ leg \in DOMAIN Tree
    BY <1>3 DEF Sequential
  <2> QED
    BY <1>3, <1>20, <1>25, <2>1 DEF Straight
<1>27. ASSUME NEW V, DOMAIN V = Files, \A f \in Files : f \notin {JoinFile(p), NodeFile(leg)} => V[f] = S[f]
       PROVE  /\ \A f \in Files \ Strays : V[f] # S[f] => f[2] = leg \/ f[2] = p
              /\ Flat(S, V, p) /\ Closed(V, p)
              /\ Clears(V, p) <=> met
              /\ Finished(V, p) <=> met
  <2>1. \A f \in Files \ Strays : V[f] # S[f] => f[2] = leg \/ f[2] = p
    BY <1>22, <1>27
  <2>2. IsDynamic(p) => V[ManifestFile(p)] = S[ManifestFile(p)]
    <3>1. IsDynamic(p) => ManifestFile(p) \in Files
      BY <1>3, FilesAre
    <3>2. ManifestFile(p) # JoinFile(p) /\ ManifestFile(p) # NodeFile(leg)
      BY FilePaths
    <3> QED
      BY <1>27, <3>1, <3>2
  <2>3. \A l \in ChildIds(p) : V[NodeFile(Child(p, l))] = S[NodeFile(Child(p, l))]
    <3> SUFFICES ASSUME NEW l \in ChildIds(p) PROVE V[NodeFile(Child(p, l))] = S[NodeFile(Child(p, l))]
      OBVIOUS
    <3>1. NodeFile(Child(p, l)) \in Files /\ Above(p, Child(p, l)) /\ p \in Seq(STRING)
      BY <1>3, LeafIs, NodesAreChildren
    <3>2. leg \in Seq(STRING) /\ ~Above(p, leg)
      BY <1>3, <1>25, NthIs, ThreadsAre
    <3>3. NodeFile(Child(p, l)) # NodeFile(leg) /\ NodeFile(Child(p, l)) # JoinFile(p)
      BY <3>1, <3>2, FilePaths
    <3> QED
      BY <1>27, <3>1, <3>3
  <2>4. (Closed(V, p) <=> Closed(S, p)) /\ (Clears(V, p) <=> Clears(S, p))
    BY <1>3, <1>27, <2>2, <2>3, SameLegs
  <2>5. Finished(V, p) <=> Closed(V, p) /\ Clears(V, p)
    BY <1>3 DEF Finished
  <2> QED
    BY <1>3, <1>20, <2>1, <2>4, <2>5 DEF Flat
<1>28. S[NodeFile(leg)] # Missing /\ cursor = S[NodeFile(leg)] /\ S[NodeFile(leg)].state \notin Terminal
  BY <1>23 DEF cursor, Going, Present
<1>10. CASE ~met /\ r = Pushes(Joined(TRUE, [cursor EXCEPT !.state = "failed"]), {FireJoin(leg)})
  <2> DEFINE c == [S[NodeFile(leg)] EXCEPT !.state = "failed"]
             m == Marker(TRUE, TRUE)
             V == Shut(m, c)
  <2>1. c # Missing /\ c.state = "failed" /\ c.sub_state = S[NodeFile(leg)].sub_state
    BY <1>3, <1>21, <1>23, CursorIs DEF Going, StandsAt
  <2> HIDE DEF c
  <2>2. /\ DOMAIN V = Files /\ V[NodeFile(leg)] = c /\ V[JoinFile(p)] # Missing
        /\ V[JoinFile(p)].joined /\ V[JoinFile(p)].failed = TRUE
        /\ \A f \in Files : f \notin {JoinFile(p), NodeFile(leg)} => V[f] = S[f]
    <3>1. m # Missing /\ m.joined /\ m.failed = TRUE
      BY MarkerIs
    <3> HIDE DEF m
    <3> QED
      BY <1>7, <3>1
  <2>3. r.store = V /\ ~r.runs /\ r.emit = {FireJoin(leg)}
    <3>1. r = Pushes(V, {FireJoin(leg)})
      BY <1>8, <1>10, <1>28 DEF c
    <3> HIDE DEF V
    <3> QED
      BY <3>1, ResultIs
  <2> HIDE DEF V
  <2>4. Flat(S, V, p) /\ Closed(V, p) /\ ~Clears(V, p)
    BY <1>10, <1>27, <2>2
  <2>5. Stays(S, V, leg)
    BY <1>22, <2>1, <2>2 DEF Stays, Stage, Complete
  <2>6. Barred(V, leg, k)
    <3>1. V[NodeFile(leg)].state = "failed"
      BY <2>1, <2>2
    <3> QED
      BY <1>25, <2>2, <2>4, <3>1 DEF Barred
  <2>7. Course(V) /\ Steady(S, V)
    BY <1>3, <1>21, <1>22, <1>24, <2>1, <2>2, <2>4, <2>5, <2>6, StepsOn
  <2> QED
    BY <1>3, <2>3, <2>7, GoesTo
<1>11. CASE /\ met /\ next # None
            /\ r = Pushes(Joined(FALSE, Cursor(EnclosingFanoutId(leg), next)), {Continue(Child(leg, next))})
  <2> DEFINE c == Cursor(EnclosingFanoutId(leg), next)
             m == Marker(TRUE, FALSE)
             V == Shut(m, c)
             q == Child(leg, next)
  <2>1. next \in ChildIds(leg)
    BY <1>4, <1>11
  <2>2. c # Missing /\ c.state \notin Terminal /\ c.sub_state = next
    BY <1>3, InFlight, CursorIs
  <2>9. \E i \in DOMAIN Children(leg) : k < i /\ Children(leg)[i] = next
    BY <1>26, <2>1 DEF LeadsOn
  <2> HIDE DEF c, q, next
  <2>3. /\ DOMAIN V = Files /\ V[NodeFile(leg)] = c /\ V[JoinFile(p)] # Missing
        /\ V[JoinFile(p)].joined /\ V[JoinFile(p)].failed = FALSE
        /\ \A f \in Files : f \notin {JoinFile(p), NodeFile(leg)} => V[f] = S[f]
    <3>1. m # Missing /\ m.joined /\ m.failed = FALSE
      BY MarkerIs
    <3> HIDE DEF m
    <3> QED
      BY <1>7, <3>1
  <2> HIDE DEF V
  <2>4. r.store = V /\ ~r.runs /\ r.emit = {Continue(q)}
    <3>1. r = Pushes(V, {Continue(q)})
      BY <1>8, <1>11 DEF V, c, q
    <3> QED
      BY <3>1, ResultIs
  <2>5. /\ Flat(S, V, p) /\ Closed(V, p) /\ Clears(V, p) /\ Finished(V, p)
        /\ \A f \in Files \ Strays : V[f] # S[f] => f[2] = leg \/ f[2] = p
    BY <1>11, <1>27, <2>3
  <2>6. Stage(V, leg) = next /\ ~Complete(V, leg)
    BY <1>22, <2>2, <2>3 DEF Stage, Complete, Terminal
  <2>7. Proceeds(V, leg, k)
    BY <1>25, <1>26, <2>1, <2>5, <2>6 DEF Proceeds
  <2>8. V[ThreadFile(leg)] # Missing
    BY <1>22, <2>2, <2>3
  <2>10. Barred(V, leg, k)
    <3>1. Passed(V, leg, k)
      BY <2>6, <2>9 DEF Passed
    <3> QED
      BY <1>25, <2>3, <2>5, <3>1 DEF Barred
  <2>11. Course(V) /\ Steady(S, V)
    BY <1>3, <1>21, <1>22, <1>24, <2>3, <2>5, <2>7, <2>8, <2>10, StepsOn
  <2>12. Arrived(V, q)
    BY <1>3, <1>21, <1>24, <2>3, <2>5, <2>6, <2>7, StepsTo DEF q
  <2> QED
    BY <2>4, <2>11, <2>12, GoesTo
<1>12. CASE /\ met /\ next = None
            /\ r = Pushes(Joined(FALSE, [cursor EXCEPT !.state = "done"]), {FireJoin(leg)})
  <2> DEFINE c == [S[NodeFile(leg)] EXCEPT !.state = "done"]
             m == Marker(TRUE, FALSE)
             V == Shut(m, c)
  <2>1. c # Missing /\ c.state = "done" /\ c.sub_state = S[NodeFile(leg)].sub_state
    BY <1>3, <1>21, <1>23, CursorIs DEF Going, StandsAt
  <2> HIDE DEF c
  <2>2. /\ DOMAIN V = Files /\ V[NodeFile(leg)] = c /\ V[JoinFile(p)] # Missing
        /\ V[JoinFile(p)].joined /\ V[JoinFile(p)].failed = FALSE
        /\ \A f \in Files : f \notin {JoinFile(p), NodeFile(leg)} => V[f] = S[f]
    <3>1. m # Missing /\ m.joined /\ m.failed = FALSE
      BY MarkerIs
    <3> HIDE DEF m
    <3> QED
      BY <1>7, <3>1
  <2>3. r.store = V /\ ~r.runs /\ r.emit = {FireJoin(leg)}
    <3>1. r = Pushes(V, {FireJoin(leg)})
      BY <1>8, <1>12, <1>28 DEF c
    <3> HIDE DEF V
    <3> QED
      BY <3>1, ResultIs
  <2> HIDE DEF V
  <2>4. Flat(S, V, p) /\ Closed(V, p) /\ Clears(V, p) /\ Finished(V, p)
    BY <1>12, <1>27, <2>2
  <2>5. Stage(V, leg) = Stage(S, leg)
    BY <1>22, <2>1, <2>2 DEF Stage
  <2>6. Stops(S, V, leg, k)
    BY <1>12, <1>25, <1>26, <2>4, <2>5 DEF Stops
  <2>7. Barred(V, leg, k)
    BY <1>25, <2>1, <2>2, <2>4 DEF Barred
  <2>8. V[ThreadFile(leg)] # Missing
    BY <1>22, <2>1, <2>2
  <2>9. Course(V) /\ Steady(S, V)
    BY <1>3, <1>21, <1>22, <1>24, <2>2, <2>4, <2>6, <2>7, <2>8, StepsOn
  <2> QED
    BY <1>3, <2>3, <2>9, GoesTo
<1>13. QED
  BY <1>2, <1>10, <1>11, <1>12

\* What a join at the cursor leaves, if it pushes: the fan-out at the cursor is over.
LEMMA TopJoinIs ==
  ASSUME Straight, NEW S, StoreOK(S), RootEntered(S), \A q \in Places(S) : Inside(S, q),
         NEW r, r = TopJoin(S), r.push
  PROVE  LET inst == S[InstanceFile]
             a == <<inst.phase>>
             next == NextOver(a)
             T == r.store IN
         /\ inst # Missing /\ inst \in Instances
         /\ a \in DOMAIN Tree \ {<<>>} /\ NodeKind(a) = "fanout" /\ Thread(a) = <<>>
         /\ LastId(a) = inst.phase /\ Waits(S, a) /\ PlaceGroup(a) = <<"join", <<>>>>
         /\ AllTerminal(S, a, a) /\ \E l \in ChildIds(a) : Present(S, Child(a, l))
         /\ \E k \in DOMAIN Children(<<>>) :
              Nth(<<>>, k) = a /\ Children(<<>>)[k] = inst.phase /\ LeadsOn(<<>>, k, next)
         /\ DOMAIN T = Files /\ \A f \in Files : f # InstanceFile => T[f] = S[f]
         /\ T[InstanceFile] # Missing /\ T[InstanceFile].overrides = inst.overrides
         /\ ~r.runs
         /\ \/ /\ Clears(S, a) /\ next \in ChildIds(<<>>)
               /\ T[InstanceFile].phase = next /\ T[InstanceFile].label = next
               /\ r.emit = {Continue(<<next>>)} /\ r.check # "success"
            \/ /\ Clears(S, a) /\ next \notin ChildIds(<<>>)
               /\ T[InstanceFile].phase = inst.phase
               /\ r.emit = {}
            \/ /\ T[InstanceFile].phase = inst.phase /\ T[InstanceFile].label = "failed"
               /\ r.emit = {} /\ r.check # "success"
<1> DEFINE inst == S[InstanceFile]
           a == <<inst.phase>>
           p == CurrentFanout(inst.phase)
           prefix == IF IsMultiphase THEN <<inst.phase>> ELSE p
           over == JoinsOver(<<>>, LastId(p))
           joins == IF over # <<>> THEN over
                    ELSE SelectSeq([i \in DOMAIN RootIds |-> <<RootIds[i]>>],
                                   LAMBDA q : NodeKind(q) = "join")
           policy == IF joins = <<>> THEN AllPolicy ELSE Tree[joins[1]].policy
           next == IF joins = <<>> THEN None ELSE Tree[joins[1]].next
           met == PolicyMet(S, p, prefix, policy)
           Value(phase, label) == [inst EXCEPT !.joined = TRUE, !.phase = phase, !.label = label]
           Shut(phase, label) == Write(S, InstanceFile, Value(phase, label))
           c1 == Pushes(Shut(next, next), {Continue(<<next>>)})
           c2 == Concludes(Shut(inst.phase, "done"), "success", {})
           c3 == Concludes(Shut(inst.phase, "failed"), "failure", {})
<1>1. /\ inst # Missing /\ ~inst.joined /\ AllTerminal(S, p, prefix)
      /\ \/ met /\ next \in ChildIds(<<>>) /\ r = c1
         \/ met /\ next \notin ChildIds(<<>>) /\ r = c2
         \/ r = c3
  <2>1. TopJoin(S) =
          IF inst = Missing \/ inst.joined \/ ~AllTerminal(S, p, prefix) THEN Quiet(S)
          ELSE CASE met /\ next \in ChildIds(<<>>) -> c1
                 [] met /\ next \notin ChildIds(<<>>) -> c2
                 [] ~met -> c3
    BY DEF TopJoin
  <2> HIDE DEF c1, c2, c3, met, next, inst, p, prefix
  <2>2. ~Quiet(S).push
    BY DEF Quiet, Result
  <2> QED
    BY <2>1, <2>2
<1> HIDE DEF c1, c2, c3, met, next, over, joins, policy
<1>2. PICK b \in Places(S) : Len(b) = 1 /\ NodeKind(b) = "fanout"
  BY <1>1 DEF RootEntered
<1>3. b \in DOMAIN Tree \ {<<>>} /\ Waits(S, b) /\ b[1] = inst.phase /\ b \in Seq(STRING)
  BY <1>2, PlaceIs, TreeAssumption DEF Inside
<1>4. b = a
  <2> HIDE DEF inst
  <2> QED
    BY <1>2, <1>3
<1>5. inst \in Instances /\ inst.phase \in ChildIds(<<>>) /\ inst.phase \in FanoutIds
  <2>1. inst \in Instances /\ inst.phase \in ChildIds(<<>>)
    BY <1>1, InstanceValue, InstancesChange
  <2> QED
    BY <1>2, <1>4, <2>1 DEF FanoutIds
<1>6. p = a /\ prefix = a
  BY <1>5, CurrentIs
<1>7. /\ a \in DOMAIN Tree \ {<<>>} /\ NodeKind(a) = "fanout" /\ Len(a) = 1 /\ Waits(S, a)
      /\ Thread(a) = <<>> /\ LastId(a) = inst.phase /\ ParentPath(a) = <<>>
      /\ PlaceGroup(a) = <<"join", <<>>>>
      /\ AllTerminal(S, a, a) /\ DOMAIN S = Files
  <2>1. Thread(a) = <<>> /\ LastId(a) = inst.phase /\ ParentPath(a) = <<>>
    BY <1>5, RootChildIs
  <2>2. ~(Len(b) > 1) /\ NodeKind(b) = "fanout"
    BY <1>2
  <2>3. PlaceGroup(b) = <<"join", <<>>>>
    BY <2>2 DEF PlaceGroup
  <2> QED
    BY <1>1, <1>2, <1>3, <1>4, <1>6, <2>1, <2>3 DEF StoreOK
<1> HIDE DEF p, prefix
<1>8. ASSUME NEW phase, NEW label
      PROVE  LET V == Shut(phase, label) IN
             /\ DOMAIN V = Files
             /\ \A f \in Files : f # InstanceFile => V[f] = S[f]
             /\ V[InstanceFile] # Missing /\ V[InstanceFile].phase = phase
             /\ V[InstanceFile].label = label /\ V[InstanceFile].overrides = inst.overrides
  <2> DEFINE i == Value(phase, label)
             V == Shut(phase, label)
  <2>1. i # Missing /\ i.phase = phase /\ i.label = label /\ i.overrides = inst.overrides
    BY <1>5, InstanceFields
  <2>2. V = Write(S, InstanceFile, i)
    OBVIOUS
  <2> HIDE DEF i, V
  <2>3. DOMAIN V = Files /\ \A f \in Files : V[f] = IF f = InstanceFile THEN i ELSE S[f]
    BY <1>7, <2>2, WriteIs
  <2>4. InstanceFile \in Files
    BY FilesAre
  <2>5. /\ DOMAIN V = Files
        /\ \A f \in Files : f # InstanceFile => V[f] = S[f]
        /\ V[InstanceFile] # Missing /\ V[InstanceFile].phase = phase
        /\ V[InstanceFile].label = label /\ V[InstanceFile].overrides = inst.overrides
    BY <2>1, <2>3, <2>4
  <2> QED
    BY <2>5 DEF V
<1> HIDE DEF Shut
<1>9. \E l \in ChildIds(a) : Present(S, Child(a, l))
  <2>1. ~(Len(b) > 1) /\ NodeKind(b) = "fanout" /\ b # <<inst.halted>>
    <3>1. \A q \in DOMAIN Tree : q = <<inst.halted>> => NodeKind(q) = "agent"
      BY <1>1, HaltedIs
    <3> QED
      BY <1>2, <1>3, <3>1
  <2>2. Waits(S, b)
    BY <1>3
  <2>3. \E l \in ChildIds(b) : Present(S, Child(b, l))
    BY <2>1, <2>2 DEF Waits
  <2> QED
    BY <1>4, <2>3
<1>10. PICK k \in DOMAIN Children(<<>>) : Children(<<>>)[k] = inst.phase
  BY <1>5 DEF ChildIds
<1>11. Nth(<<>>, k) = a
  BY <1>10 DEF Nth, Child
<1>12. LeadsOn(<<>>, k, NextOver(a)) /\ JoinsOver(<<>>, LastId(a)) # <<>>
  BY <1>7, <1>10, <1>11, TreeAssumption DEF Straight, Sequential
<1>13. NextOver(a) = next /\ PolicyOver(a) = policy
  BY <1>6, <1>7, <1>12 DEF NextOver, PolicyOver, next, policy, joins, over
<1>14. met <=> Clears(S, a)
  BY <1>6, <1>13 DEF met, Clears
<1>15. \A T, E : Pushes(T, E).check # "success"
  BY DEF Pushes, Result, None
<1>16. \A T, c, E : LET q == Concludes(T, c, E) IN q.store = T /\ ~q.runs /\ q.emit = E /\ q.check = c
  BY DEF Concludes, Tells, Result
<1>17. CASE met /\ next \in ChildIds(<<>>) /\ r = c1
  <2> DEFINE V == Shut(next, next)
  <2>1. /\ DOMAIN V = Files /\ \A f \in Files : f # InstanceFile => V[f] = S[f]
        /\ V[InstanceFile] # Missing /\ V[InstanceFile].phase = next
        /\ V[InstanceFile].label = next /\ V[InstanceFile].overrides = inst.overrides
    BY <1>8
  <2>2. r = Pushes(V, {Continue(<<next>>)})
    BY <1>17 DEF c1
  <2> HIDE DEF V
  <2>3. r.store = V /\ ~r.runs /\ r.emit = {Continue(<<next>>)} /\ r.check # "success"
    BY <1>15, <2>2, ResultIs
  <2> HIDE DEF inst, a
  <2> QED
    BY <1>1, <1>5, <1>7, <1>9, <1>10, <1>11, <1>12, <1>13, <1>14, <1>17, <2>1, <2>3 DEF inst, a
<1>18. CASE met /\ next \notin ChildIds(<<>>) /\ r = c2
  <2> DEFINE V == Shut(inst.phase, "done")
  <2>1. /\ DOMAIN V = Files /\ \A f \in Files : f # InstanceFile => V[f] = S[f]
        /\ V[InstanceFile] # Missing /\ V[InstanceFile].phase = inst.phase
        /\ V[InstanceFile].overrides = inst.overrides
    BY <1>8
  <2>2. r = Concludes(V, "success", {})
    BY <1>18 DEF c2
  <2> HIDE DEF V
  <2>3. r.store = V /\ ~r.runs /\ r.emit = {}
    BY <1>16, <2>2
  <2> QED
    BY <1>1, <1>5, <1>7, <1>9, <1>10, <1>11, <1>12, <1>13, <1>14, <1>18, <2>1, <2>3
<1>19. CASE r = c3
  <2> DEFINE V == Shut(inst.phase, "failed")
  <2>1. /\ DOMAIN V = Files /\ \A f \in Files : f # InstanceFile => V[f] = S[f]
        /\ V[InstanceFile] # Missing /\ V[InstanceFile].phase = inst.phase
        /\ V[InstanceFile].label = "failed" /\ V[InstanceFile].overrides = inst.overrides
    BY <1>8
  <2>2. r = Concludes(V, "failure", {})
    BY <1>19 DEF c3
  <2> HIDE DEF V
  <2>3. r.store = V /\ ~r.runs /\ r.emit = {} /\ r.check # "success"
    BY <1>16, <2>2
  <2> QED
    BY <1>1, <1>5, <1>7, <1>9, <1>10, <1>11, <1>12, <1>13, <1>14, <2>1, <2>3
<1>20. QED
  BY <1>1, <1>17, <1>18, <1>19

\* The join of a root fan-out closes it and moves the root on, or ends the run.
LEMMA TopJoinCourse ==
  ASSUME GatesApart, Straight, NEW S, StoreOK(S), RootEntered(S), \A q \in Places(S) : Inside(S, q),
         NEW r, r = TopJoin(S), r.push
  PROVE  Furthers(S, r, <<"join", <<>>>>)
<1> DEFINE inst == S[InstanceFile]
           a == <<inst.phase>>
           next == NextOver(a)
           T == r.store
<1>1. /\ inst # Missing
      /\ a \in DOMAIN Tree \ {<<>>} /\ NodeKind(a) = "fanout" /\ Thread(a) = <<>>
      /\ LastId(a) = inst.phase /\ Waits(S, a) /\ PlaceGroup(a) = <<"join", <<>>>>
      /\ AllTerminal(S, a, a)
      /\ DOMAIN T = Files /\ \A f \in Files : f # InstanceFile => T[f] = S[f]
      /\ T[InstanceFile] # Missing /\ T[InstanceFile].overrides = inst.overrides
      /\ ~r.runs
      /\ \/ /\ Clears(S, a) /\ next \in ChildIds(<<>>)
            /\ T[InstanceFile].phase = next /\ T[InstanceFile].label = next
            /\ r.emit = {Continue(<<next>>)}
         \/ /\ Clears(S, a) /\ next \notin ChildIds(<<>>)
            /\ T[InstanceFile].phase = inst.phase /\ r.emit = {}
         \/ /\ T[InstanceFile].phase = inst.phase /\ T[InstanceFile].label = "failed"
            /\ r.emit = {}
  BY TopJoinIs
<1>2. PICK m \in DOMAIN Children(<<>>) : Nth(<<>>, m) = a /\ LeadsOn(<<>>, m, next)
  BY TopJoinIs
<1> HIDE DEF a, next, T, inst
<1>3. SUFFICES ASSUME StandsAt(S, a), Course(S) PROVE InCourse(S, r)
  BY <1>1 DEF Furthers
<1>4. PICK k : Standing(S, a, k)
  <2>1. Thread(a) # a
    BY <1>1
  <2> QED
    BY <1>1, <1>3, <2>1, StandsAsNth
<1>5. /\ k \in DOMAIN Children(<<>>) /\ Nth(<<>>, k) = a /\ Children(<<>>)[k] = inst.phase
      /\ IsThread(<<>>) /\ LeadsOn(<<>>, k, next) /\ a \notin Units
  <2>1. k \in DOMAIN Children(<<>>) /\ Nth(<<>>, k) = a /\ IsThread(<<>>)
    BY <1>1, <1>3, <1>4, StandingIs
  <2>2. k = m
    BY <1>2, <2>1, Distinct
  <2>3. Children(<<>>)[k] = inst.phase
    BY <1>1, <2>1, NthIs
  <2> QED
    BY <1>1, <1>2, <2>1, <2>2, <2>3 DEF Units
<1>6. Clears(S, a) => Finished(T, a)
  <2>1. IsDynamic(a) => T[ManifestFile(a)] = S[ManifestFile(a)]
    BY <1>1, FilesAre, NotTheInstance
  <2>2. \A l \in ChildIds(a) : T[NodeFile(Child(a, l))] = S[NodeFile(Child(a, l))]
    BY <1>1, LeafIs, NotTheInstance
  <2>3. (Clears(T, a) <=> Clears(S, a)) /\ (Closed(T, a) <=> Closed(S, a))
    BY <1>1, <2>1, <2>2, SameLegs
  <2> QED
    BY <1>1, <2>3 DEF Finished, Closed
<1>7. CASE /\ Clears(S, a) /\ next \in ChildIds(<<>>)
           /\ T[InstanceFile].phase = next /\ T[InstanceFile].label = next
           /\ r.emit = {Continue(<<next>>)}
  <2>1. next # "done"
    BY <1>7, RootLabels
  <2>2. Course(T) /\ Steady(S, T)
    BY <1>1, <1>3, <1>4, <1>5, <1>6, <1>7, <2>1, RootStep DEF inst
  <2>3. Arrived(T, <<next>>)
    BY <1>1, <1>3, <1>4, <1>5, <1>6, <1>7, <2>1, RootStepsTo DEF inst
  <2> QED
    BY <1>1, <1>7, <2>2, <2>3, GoesTo DEF T
<1>8. CASE /\ Clears(S, a) /\ next \notin ChildIds(<<>>)
           /\ T[InstanceFile].phase = inst.phase /\ r.emit = {}
  <2>1. LeadsOn(<<>>, k, None)
    BY <1>5, <1>8, LeadsToEnd
  <2>2. Course(T) /\ Steady(S, T)
    BY <1>1, <1>3, <1>4, <1>5, <1>6, <1>8, <2>1, RootStep DEF inst
  <2> QED
    BY <1>1, <1>8, <2>2, GoesTo DEF T
<1>9. CASE /\ T[InstanceFile].phase = inst.phase /\ T[InstanceFile].label = "failed"
           /\ r.emit = {}
  <2>1. Course(T) /\ Steady(S, T)
    BY <1>1, <1>3, <1>4, <1>5, <1>9, RootStep DEF inst
  <2> QED
    BY <1>1, <1>9, <2>1, GoesTo DEF T
<1>10. QED
  BY <1>1, <1>7, <1>8, <1>9

-----------------------------------------------------------------------------
(* Scripts keep the order. *)

\* An instance of which nothing is written is at the first node of its root.
LEMMA BlankCourse ==
  ASSUME Straight, NEW T, DOMAIN T = Files, \A f \in Files : f # InstanceFile => T[f] = Missing,
         NEW id, id = RootIds[1], id \in ChildIds(<<>>), T[InstanceFile] # Missing,
         T[InstanceFile].phase = id, T[InstanceFile].label = id
  PROVE  Course(T) /\ Arrived(T, <<id>>)
<1>1. /\ IsThread(<<>>) /\ <<>> \in DOMAIN Tree /\ InstanceFile \in Files
      /\ InstanceFile[2] = <<>>
  BY ThreadsAre, FilesAre, FilePaths, TreeAssumption DEF IsThread
<1>2. \A c \in DOMAIN Tree \ {<<>>} : Untouched(T, c)
  <2> SUFFICES ASSUME NEW c \in DOMAIN Tree \ {<<>>}, NEW f \in Files \ Strays, Above(c, f[2])
               PROVE  T[f] = Missing
    BY DEF Untouched
  <2>1. c \in Seq(STRING) \ {<<>>} /\ <<>> \in Seq(STRING)
    BY NodesAreChildren
  <2>2. ~Above(c, <<>>)
    BY <2>1, AboveOrder
  <2> QED
    BY <1>1, <2>2
<1>3. ASSUME NEW t \in DOMAIN Tree, IsThread(t) PROVE OnCourse(T, t)
  <2>1. CASE t = <<>>
    <3>1. ASSUME NEW k \in DOMAIN Children(t) PROVE InOrder(T, t, k)
      <4>1. ~Complete(T, t)
        BY <2>1, RootLabels DEF Complete
      <4>2. ~Passed(T, t, k)
        <5> SUFFICES ASSUME NEW i \in DOMAIN Children(t), k < i, Children(t)[i] = id PROVE FALSE
          BY <2>1 DEF Passed, Stage
        <5>1. Children(t) \in Seq(STRING \ {None}) /\ Children(t)[1] = id
          BY <1>1, <2>1, TreeAssumption, EmptySeq DEF Children, RootIds
        <5>2. 1 \in DOMAIN Children(t) /\ k \in Nat \ {0} /\ i \in Nat
          BY <5>1
        <5>3. i = 1
          BY <1>3, <5>1, <5>2, Distinct
        <5> QED
          BY <5>2, <5>3
      <4>3. Nth(t, k) \in DOMAIN Tree \ {<<>>} /\ Nth(t, k) \notin NestedFanouts
        BY <1>3, <2>1, NthIs
      <4> QED
        BY <1>2, <4>1, <4>2, <4>3 DEF InOrder
    <3> QED
      BY <2>1, <3>1 DEF OnCourse, ThreadFile, Stage
  <2>2. CASE t # <<>>
    <3>1. NodeFile(t) \in Files /\ NodeFile(t) # InstanceFile
      BY <1>3, <2>2, ThreadsAre, FilesAre, NotTheInstance DEF HasFile
    <3> QED
      BY <1>2, <2>2, <3>1 DEF OnCourse, ThreadFile
  <2> QED
    BY <2>1, <2>2
<1>4. Arrived(T, <<id>>)
  <2> DEFINE p == <<id>>
  <2>1. p \in DOMAIN Tree \ {<<>>} /\ Thread(p) = <<>>
    BY RootChildIs
  <2>2. p \in Units => StateOf(T, p) \notin Terminal
    <3>1. p \in Units => T[NodeFile(p)] = Missing
      BY FilesAre, NotTheInstance DEF Units
    <3> QED
      <4>1. p \in Units => StateOf(T, p) = None
        BY <2>1, <3>1, StateIs DEF Units, HasFile
      <4> QED
        BY <4>1 DEF Terminal, None
  <2> HIDE DEF p
  <2>3. T[InstanceFile].label # "done"
    BY RootLabels
  <2> QED
    BY <1>2, <2>1, <2>2, <2>3 DEF Arrived, p
<1>5. QED
  BY <1>3, <1>4 DEF Course

\* A start puts a blank branch on its course.
LEMMA StartCourse ==
  ASSUME GatesApart, Straight, NEW S, StoreOK(S), \A f \in Files : S[f] = Missing,
         NEW r \in EnterRoot(S, "start")
  PROVE  InCourse(S, r)
<1> DEFINE first == RootIds[1]
           T == Write(Wiped(S), InstanceFile, NewInstance(first))
           p == <<first>>
<1>1. first \in ChildIds(<<>>)
  <2>1. RootIds # <<>> /\ RootIds \in Seq(STRING \ {None})
    BY NamesAssumption, TreeAssumption DEF RootIds, Children
  <2>2. 1 \in DOMAIN RootIds
    BY <2>1, EmptySeq, LenProperties
  <2> QED
    BY <2>2 DEF ChildIds, RootIds
<1>2. /\ p \in DOMAIN Tree \ {<<>>} /\ Thread(p) = <<>> /\ p[1] = first
      /\ ParentPath(p) = <<>> /\ Len(p) = 1
  BY <1>1, RootChildIs
<1>3. r \in Enter(T, p, "start")
  BY DEF EnterRoot
<1>4. /\ NewInstance(first) \in Instances /\ NewInstance(first).phase = first
      /\ NewInstance(first).halted = None /\ NewInstance(first) # Missing
      /\ ~NewInstance(first).joined
  <2>1. NewInstance(first) \in Instances
    BY <1>1 DEF NewInstance, Instances
  <2>2. /\ NewInstance(first).phase = first /\ NewInstance(first).halted = None
        /\ ~NewInstance(first).joined
    BY DEF NewInstance
  <2> QED
    BY <2>1, <2>2, InstanceFields
<1>5. /\ DOMAIN T = Files /\ \A f \in Files : f # InstanceFile => T[f] = Missing
      /\ T[InstanceFile] = NewInstance(first)
  <2>1. DOMAIN Wiped(S) = Files /\ \A f \in Files : Wiped(S)[f] = Missing
    BY DEF Wiped, StoreOK
  <2> HIDE DEF T
  <2>2. \A f \in Files : T[f] = IF f = InstanceFile THEN NewInstance(first) ELSE Wiped(S)[f]
    BY <2>1, WriteIs DEF T
  <2>3. DOMAIN T = Files
    BY <2>1, WriteIs DEF T
  <2> QED
    BY <2>1, <2>2, <2>3, FilesAre
<1> HIDE DEF T, first, p
<1>6. StoreOK(T) /\ Blank(T) /\ T[InstanceFile] # Missing
  <2>1. FileOK(InstanceFile, NewInstance(first))
    BY <1>4, FilePaths DEF FileOK, ValueOK
  <2> QED
    BY <1>4, <1>5, <2>1 DEF StoreOK, FileOK, Blank
<1>7. Places(T) = {}
  BY <1>4, <1>5, <1>6, BlankWaits
<1>8. StandsAt(T, p) /\ Within(T, <<>>) = {}
  <2>1. \A x \in DOMAIN Tree : IsLeg(x) => ~Above(x, p)
    <3> SUFFICES ASSUME NEW x, IsLeg(x), Above(x, p) PROVE FALSE
      OBVIOUS
    <3>1. Len(x) > 1 /\ Len(x) \in Nat /\ Len(x) <= Len(p)
      BY LegsParent DEF Above
    <3> QED
      BY <1>2, <3>1
  <2>2. Within(T, <<>>) = {}
    BY <1>7 DEF Within
  <2> QED
    BY <1>2, <1>4, <1>5, <1>6, <2>1, <2>2 DEF StandsAt, Inside
<1>9. Course(T) /\ Arrived(T, p)
  <2>1. NewInstance(first).label = first
    BY DEF NewInstance
  <2> QED
    BY <1>1, <1>4, <1>5, <1>6, <2>1, BlankCourse DEF first, p
<1>10. InCourse(T, r)
  BY <1>3, <1>8, <1>9, EnterCourse
<1>11. \A q \in Units : StateOf(S, q) \notin Terminal
  <2>1. \A q \in Units : StateOf(S, q) = None
    BY StateIs, FilesAre DEF StoreOK, Units, HasFile
  <2> QED
    BY <2>1 DEF Terminal, None
<1>12. QED
  BY <1>10, <1>11 DEF InCourse, Steady

LEMMA FurthersCourse ==
  ASSUME EngineInv, GatesApart, Threads, Started, Course(store), NEW j \in jobs, j.stage = "ready",
         j.role # "leg", j.command # "continue", NEW r, Furthers(store, r, j.group)
  PROVE  InCourse(store, r)
<1>1. PICK a \in DOMAIN Tree \ {<<>>} :
         /\ Waits(store, a) /\ j.group = PlaceGroup(a)
         /\ NodeKind(a) = "fanout" => AllTerminal(store, a, a)
         /\ StandsAt(store, a) /\ Course(store) => InCourse(store, r)
  BY DEF Furthers
<1>2. WorksAt(j, store, a)
  BY <1>1 DEF WorksAt
<1>3. StandsAt(store, a)
  BY <1>2, WorkStands
<1>4. QED
  BY <1>1, <1>3

\* The edits of a script keep the order, and what it hands on to has not been done.
LEMMA OutcomesCourse ==
  ASSUME EngineInv, GatesApart, Straight, Threads, Course(store),
         \A q \in AtAll : Arrived(store, q), NEW j \in jobs, j.stage = "ready",
         j.command # "start", NEW r \in Outcomes(store, j), r.push
  PROVE  InCourse(store, r)
<1>1. JobOK(j) /\ UntilStarted /\ StoreOK(store) /\ Unpushed(j)
  BY DEF EngineInv, Unpushed
<1>2. CASE j.role = "leg"
  <2>1. Started /\ j.path \in Units /\ j.group \in RunTags /\ j.path \in DOMAIN Tree \ {<<>>}
    BY <1>1, <1>2, UnitsAreAgents DEF JobOK, UntilStarted, None
  <2>2. r \in AdvanceOutcomes(store, j.path, j.group)
    BY <1>2 DEF Outcomes
  <2>3. j.path \in At(j) /\ j.path \in Running(j) /\ WorksAt(j, store, j.path)
    BY <1>1, <1>2 DEF At, Running, WorksAt
  <2>4. Present(store, j.path) /\ store[NodeFile(j.path)].state = LifeState(j.path)
    BY <2>3, HoldersNow DEF Threads, RunningUnits
  <2>5. StandsAt(store, j.path) /\ Arrived(store, j.path)
    BY <2>1, <2>3, WorkStands, HoldersAre
  <2> QED
    BY <2>1, <2>2, <2>4, <2>5, AdvanceCourse
<1>3. CASE j.role = "plan" /\ j.command = "continue"
  <2>1. Started
    BY <1>1, <1>3 DEF JobOK, UntilStarted, None, Replies
  <2>2. r \in ContinueAt(store, j.path)
    BY <1>3 DEF Outcomes, Plan, Replies
  <2>3. j.path \in At(j) /\ WorksAt(j, store, j.path)
    BY <1>1, <1>3 DEF At, WorksAt
  <2>4. j.path \in DOMAIN Tree \ {<<>>} /\ Arrived(store, j.path)
    BY <2>3, HoldersAre DEF Threads, AllInside
  <2>5. StandsAt(store, j.path)
    BY <2>1, <2>3, <2>4, WorkStands
  <2>6. ~Quiet(store).push
    BY ResultIs
  <2>7. CASE NodeKind(j.path) \in {"fanout", "agent", "gate"}
    <3>1. r \in Enter(store, j.path, "continue")
      BY <2>2, <2>7 DEF ContinueAt
    <3> QED
      BY <2>4, <2>5, <3>1, EnterCourse
  <2>8. CASE NodeKind(j.path) = "merge"
    <3>1. r \in Merge(store, j.path)
      BY <2>2, <2>8 DEF ContinueAt
    <3> QED
      BY <2>4, <2>5, <2>8, <3>1, MergeCourse
  <2>9. CASE NodeKind(j.path) \notin {"fanout", "agent", "gate", "merge"}
    BY <2>2, <2>6, <2>9 DEF ContinueAt
  <2> QED
    BY <2>7, <2>8, <2>9
<1>4. CASE j.command \in Replies
  <2>1. j.role = "plan" /\ j.command # "continue" /\ j.command # "start" /\ j.role # "leg"
    BY <1>1, <1>4 DEF JobOK, None, Replies
  <2>2. r \in Plan(store, j.command, j.path, j.said)
    BY <2>1 DEF Outcomes
  <2>3. Started
    BY <1>4, <2>1, OutcomesOK, <1>1
  <2>4. j.group = RootGroup
    BY <2>1 DEF Threads, GroupsNamed
  <2>5. Furthers(store, r, RootGroup)
    <3>1. CASE j.command = "override"
      <4>1. r \in Override(store)
        BY <2>2, <3>1 DEF Plan
      <4> QED
        BY <1>1, <4>1, OverrideCourse
    <3>2. CASE j.command \in {"approve", "request-changes", "reject"}
      <4>1. r \in ResolveGate(store, j.command, j.said)
        BY <2>2, <3>2 DEF Plan
      <4> QED
        BY <1>1, <3>2, <4>1, ResolveCourse
    <3>3. CASE j.command = "answer"
      <4>1. r \in Answer(store, j.said)
        BY <2>2, <3>3 DEF Plan
      <4> QED
        BY <1>1, <2>3, <4>1, AnswerCourse DEF Started
    <3> QED
      BY <1>4, <3>1, <3>2, <3>3 DEF Replies
  <2> QED
    BY <2>1, <2>3, <2>4, <2>5, FurthersCourse
<1>5. CASE j.role = "join"
  <2>2. /\ Started /\ j.role # "leg" /\ j.command # "continue"
        /\ j.path \in NestedFanouts \union {<<>>} /\ j.group = <<"join", j.path>>
    BY <1>1, <1>5 DEF JobOK, UntilStarted, Threads, GroupsNamed
  <2>3. r = Join(store, j.path)
    BY <1>5 DEF Outcomes
  <2>4. j.path \in ProbedAll
    <3>1. j.path \in Probed(j)
      BY <1>5 DEF Probed
    <3> QED
      BY <3>1, HoldersNow
  <2>5. /\ j.path = <<>> => RootEntered(store)
        /\ j.path # <<>> => store[JoinFile(j.path)] # Missing
    BY <2>4 DEF Threads, ProbesOK
  <2>6. Furthers(store, r, <<"join", j.path>>)
    <3>1. CASE j.path = <<>>
      <4>1. ~(Len(j.path) > 1)
        BY <3>1
      <4>2. r = TopJoin(store)
        BY <2>3, <4>1 DEF Join
      <4>3. \A q \in Places(store) : Inside(store, q)
        BY DEF Threads, AllInside
      <4> QED
        BY <1>1, <2>5, <3>1, <4>2, <4>3, TopJoinCourse
    <3>2. CASE j.path # <<>>
      <4>1. j.path \in NestedFanouts
        BY <2>2, <3>2
      <4>2. Len(j.path) > 1
        <5>1. /\ j.path \in DOMAIN Tree \ {<<>>} /\ NodeKind(j.path) = "fanout"
              /\ Len(j.path) # 1
          BY <3>2, <4>1 DEF NestedFanouts, IsRootChild
        <5> QED
          BY <5>1, LongFanouts
      <4>3. r = NestedJoin(store, j.path)
        BY <2>3, <4>2 DEF Join
      <4> QED
        BY <1>1, <2>2, <2>5, <3>2, <4>1, <4>3, NestedJoinCourse DEF Started
    <3> QED
      BY <3>1, <3>2
  <2> QED
    BY <2>2, <2>6, FurthersCourse
<1>6. QED
  BY <1>1, <1>2, <1>3, <1>4, <1>5 DEF JobOK

-----------------------------------------------------------------------------
(* Steps that edit nothing. *)

\* The number of the comment is no matter of the order.
LEMMA NumberCourse ==
  ASSUME GatesApart, NEW S, StoreOK(S), NEW T, SameBut(S, T),
         S[InstanceFile] # Missing => /\ T[InstanceFile].label = S[InstanceFile].label
                                      /\ T[InstanceFile].overrides = S[InstanceFile].overrides
  PROVE  /\ Course(S) => Course(T)
         /\ \A q \in DOMAIN Tree \ {<<>>} : Arrived(S, q) => Arrived(T, q)
         /\ \A U : Steady(U, S) => Steady(U, T)
<1>1. /\ DOMAIN S = Files /\ DOMAIN T = Files
      /\ \A f \in Files \ {InstanceFile} : T[f] = S[f]
      /\ T[InstanceFile] = Missing <=> S[InstanceFile] = Missing
      /\ S[InstanceFile] # Missing => T[InstanceFile].phase = S[InstanceFile].phase
  BY DEF SameBut
<1>2. ASSUME NEW t \in DOMAIN Tree, IsThread(t), OnCourse(S, t) PROVE OnCourse(T, t)
  <2>1. CASE t = <<>>
    BY <1>1, <1>2, <2>1, CourseSame
  <2>2. CASE t # <<>>
    <3>1. ~Above(t, InstanceFile[2])
      BY <1>2, <2>2, ThreadsAre
    <3>2. Agree(S, T, t)
      BY <1>1, <3>1 DEF Agree
    <3> QED
      BY <1>1, <1>2, <2>2, <3>2, CourseSame
  <2> QED
    BY <2>1, <2>2
<1>3. \A x \in DOMAIN Tree : HasFile(x) => T[NodeFile(x)] = S[NodeFile(x)]
  BY <1>1, FilesAre, NotTheInstance DEF HasFile
<1>4. \A q \in Units : StateOf(T, q) = StateOf(S, q)
  BY <1>1, <1>3 DEF StateOf, Read, Units, HasFile
<1>5. ASSUME NEW q \in DOMAIN Tree \ {<<>>}, Arrived(S, q) PROVE Arrived(T, q)
  <2>1. T[InstanceFile].label = S[InstanceFile].label
    BY <1>1
  <2>2. Thread(q) \notin {<<>>, q} => T[NodeFile(Thread(q))] = S[NodeFile(Thread(q))]
    <3>1. IsThread(Thread(q))
      BY ThreadIs
    <3> QED
      BY <1>3, <3>1, ThreadsAre
  <2>3. Untouched(S, q) => Untouched(T, q)
    <3>1. q \in Seq(STRING) \ {<<>>} /\ <<>> \in Seq(STRING)
      BY NodesAreChildren
    <3>2. ~Above(q, <<>>)
      BY <3>1, AboveOrder
    <3> QED
      BY <1>1, <3>2, FilePaths DEF Untouched
  <2> QED
    BY <1>4, <1>5, <2>1, <2>2, <2>3 DEF Arrived
<1>6. QED
  BY <1>2, <1>4, <1>5 DEF Course, Steady

\* A job goes on where it was.
LEMMA GoesOnCourse ==
  ASSUME Courses, NEW j \in jobs, NEW k, Becomes(j, k), UNCHANGED <<store, waiting>>,
         At(k) \subseteq At(j), Editing(k) => InCourse(k.clone, k.todo)
  PROVE  Courses'
<1>1. jobs' = (jobs \ {j}) \union {k}
  BY DEF Becomes
<1>2. Woke' = Woke
  BY DEF Woke
<1>3. \A p : p \in AtAll' => p \in AtAll
  BY <1>1, <1>2, HoldersNext, HoldersAre
<1>4. \A i \in jobs' : Editing(i) => InCourse(i.clone, i.todo)
  BY <1>1 DEF Courses
<1>5. QED
  BY <1>3, <1>4 DEF Courses

\* Events come and jobs leave or give way to others at their nodes.
LEMMA ArrivalCourse ==
  ASSUME EngineInv, Courses, NEW J, NEW E, Schedule(J, E), \A e \in E : EventOK(e),
         \A i \in J : \A p \in At(i) : p \in AtAll,
         \A p \in Woken(E) : p \in AtAll,
         \A i \in J : Editing(i) => i \in jobs,
         Course(store'), \A q \in AtAll : Arrived(store', q)
  PROVE  Courses'
<1> DEFINE pending == {w \in waiting : \A e \in E : Group(e) # Group(w)} \union E
           free == {w \in pending : ~Busy(J, Group(w))}
<1>1. jobs' = J \union {Queued(w) : w \in free} /\ waiting' = pending \ free
  BY DEF Schedule
<1>2. \A w \in free : w \in waiting \union E /\ EventOK(w)
  BY DEF EngineInv
<1>3. \A w \in waiting' : w \in waiting \union E
  BY <1>1
<1> HIDE DEF pending, free
<1>4. \A w \in waiting \union E : w.command = "continue" => w.path \in AtAll
  BY WokenIs, HoldersAre DEF Woke
<1>5. \A p \in Woke' : p \in AtAll
  BY <1>3, <1>4, WokenIs DEF Woke
<1>6. \A k \in jobs' : \A p \in At(k) : p \in AtAll
  BY <1>1, <1>2, <1>4, QueuedAt
<1>7. \A p : p \in AtAll' => p \in AtAll
  BY <1>5, <1>6, HoldersNext
<1>8. \A k \in jobs' : Editing(k) => k \in jobs
  BY <1>1, <1>2, QueuedAt
<1>9. \A k \in jobs' : Editing(k) => InCourse(k.clone, k.todo)
  BY <1>8 DEF Courses
<1>10. QED
  BY <1>7, <1>9 DEF Courses

LEMMA LeaveCourse ==
  ASSUME EngineInv, Courses, NEW j \in jobs, NEW E, Leave(j, E), store' = store,
         \A e \in E : EventOK(e), \A p \in Woken(E) : p \in At(j)
  PROVE  Courses'
<1> DEFINE J == jobs \ {j}
<1>1. Schedule(J, E)
  BY DEF Leave
<1>2. \A i \in J : \A p \in At(i) : p \in AtAll
  BY HoldersAre
<1>3. \A p \in Woken(E) : p \in AtAll
  BY HoldersAre
<1>4. \A i \in J : Editing(i) => i \in jobs
  OBVIOUS
<1> HIDE DEF J
<1>5. QED
  BY <1>1, <1>2, <1>3, <1>4, ArrivalCourse DEF Courses

LEMMA EndsCourse ==
  ASSUME EngineInv, Courses, NEW j \in jobs, FailPush(j) \/ FailComment(j) \/ Die(j)
  PROVE  Courses'
<1>1. Leave(j, {}) /\ store' = store
  BY DEF FailPush, FailComment, Die
<1>2. QED
  BY <1>1, LeaveCourse, NothingWoken

LEMMA FinishCourse ==
  ASSUME EngineInv, Courses, NEW j \in jobs, Finish(j)
  PROVE  Courses'
<1>1. Leave(j, j.todo.emit) /\ store' = store /\ Landed(j) /\ ~j.todo.runs
  BY DEF Finish
<1>2. EmitOK(j.todo.emit)
  BY <1>1, LandedStarted DEF TodoOK
<1>3. ~Unpushed(j)
  BY <1>1 DEF Unpushed, Landed
<1>4. \A p \in Woken(j.todo.emit) : p \in At(j)
  BY <1>1, <1>3 DEF At, Hands
<1>5. QED
  BY <1>1, <1>2, <1>4, LeaveCourse DEF EmitOK

LEMMA ReportCourse ==
  ASSUME EngineInv, Courses, NEW j \in jobs, Report(j)
  PROVE  Courses'
<1>1. PICK k : /\ Becomes(j, k)
                /\ k.role = j.role /\ k.command = j.command /\ k.path = j.path
                /\ k.stage = "edited" /\ k.clone = j.clone
                /\ k.todo.store = j.todo.store /\ k.todo.push = j.todo.push
                /\ k.todo.emit = j.todo.emit /\ k.todo.runs = j.todo.runs
                /\ k.todo.legs = j.todo.legs
  BY ReportOK
<1>2. j.stage = "edited" /\ UNCHANGED <<store, waiting>>
  BY DEF Report
<1>3. (Unpushed(k) <=> Unpushed(j)) /\ Hands(k.todo) = Hands(j.todo)
  BY <1>1, <1>2 DEF Unpushed, Hands
<1>4. At(k) = At(j)
  BY <1>1, <1>3 DEF At
<1>5. Editing(k) => InCourse(k.clone, k.todo)
  BY <1>1, <1>2, <1>3 DEF Editing, Courses, InCourse
<1>6. QED
  BY <1>1, <1>2, <1>4, <1>5, GoesOnCourse

LEMMA MarkCourse ==
  ASSUME EngineInv, Courses, NEW j \in jobs, MarkInProgress(j)
  PROVE  Courses'
<1>1. PICK k : /\ Becomes(j, k)
                /\ k.role = j.role /\ k.command = j.command /\ k.path = j.path
                /\ k.stage = "marked" /\ k.todo = j.todo
  BY MarkOK
<1>2. Landed(j) /\ UNCHANGED <<store, waiting>>
  BY DEF MarkInProgress
<1>3. ~Unpushed(k) /\ ~Unpushed(j) /\ ~Editing(k)
  BY <1>1, <1>2 DEF Unpushed, Landed, Editing
<1>4. At(k) = At(j)
  BY <1>1, <1>3 DEF At
<1>5. QED
  BY <1>1, <1>2, <1>3, <1>4, GoesOnCourse

LEMMA StartLegsCourse ==
  ASSUME EngineInv, GatesApart, Threads, Courses, NEW j \in jobs,
         StartLegs(j) \/ StartLegsWithComment(j)
  PROVE  Courses'
<1> DEFINE J == Dispatched(j)
<1>1. j.stage = "marked" /\ Schedule(Dispatched(j), {})
  BY DEF StartLegs, StartLegsWithComment
<1>2. j.todo.runs /\ ~Unpushed(j)
  BY <1>1 DEF EngineInv, JobOK, Unpushed
<1>3. At(j) = j.todo.legs
  BY <1>2 DEF At, Hands
<1>4. \A i \in J : i \in jobs \ {j} \/ \E q \in j.todo.legs : i = Leg(j.group, q)
  BY DEF Dispatched
<1>5. \A i \in J : (\A p \in At(i) : p \in AtAll) /\ (Editing(i) => i \in jobs)
  BY <1>3, <1>4, LegAt, HoldersAre
<1>6. Course(store') /\ \A q \in AtAll : Arrived(store', q)
  <2>1. CASE StartLegs(j)
    BY <2>1 DEF StartLegs, Courses
  <2>2. CASE StartLegsWithComment(j)
    <3>1. /\ store' = [store EXCEPT ![InstanceFile].comment = comments + 1]
          /\ StoreOK(store) /\ InstanceFile \in Files
      BY <2>2, FilesAre DEF StartLegsWithComment, EngineInv
    <3>2. Started /\ StoreOK(store') /\ store'[InstanceFile] # Missing
      BY <2>2, CommentRecorded DEF Started
    <3>3. store[InstanceFile] \in Instances /\ DOMAIN store = Files /\ DOMAIN store' = Files
      BY <3>1, <3>2, InstanceValue DEF StoreOK, Started
    <3>4. store'[InstanceFile] = [store[InstanceFile] EXCEPT !.comment = comments + 1]
          /\ \A f \in Files \ {InstanceFile} : store'[f] = store[f]
      BY <3>1, <3>3
    <3>5. \A i \in Instances : \A n : /\ [i EXCEPT !.comment = n].phase = i.phase
                                      /\ [i EXCEPT !.comment = n].joined = i.joined
                                      /\ [i EXCEPT !.comment = n].halted = i.halted
                                      /\ [i EXCEPT !.comment = n].label = i.label
                                      /\ [i EXCEPT !.comment = n].overrides = i.overrides
      BY InstanceFields
    <3>6. /\ SameBut(store, store')
          /\ store'[InstanceFile].label = store[InstanceFile].label
          /\ store'[InstanceFile].overrides = store[InstanceFile].overrides
      BY <3>2, <3>3, <3>4, <3>5 DEF SameBut, Started
    <3>7. \A q \in AtAll : q \in DOMAIN Tree \ {<<>>}
      BY DEF Threads, AllInside
    <3> QED
      BY <3>1, <3>6, <3>7, NumberCourse DEF Courses
  <2> QED
    BY <2>1, <2>2
<1> HIDE DEF J
<1>7. Schedule(J, {})
  BY <1>1 DEF J
<1>8. QED
  BY <1>5, <1>6, <1>7, ArrivalCourse, NothingWoken

LEMMA CommentCourse ==
  ASSUME EngineInv, Courses, PullRequest, NEW command, NEW said, Comment(command, said)
  PROVE  Courses'
<1>1. PICK e : /\ EventOK(e) /\ e.command = command /\ Schedule(jobs, {e})
               /\ command \in Replies \union {"start"}
  BY CommentEvent
<1>2. store' = store
  BY DEF Comment
<1>3. \A p : p \notin Woken({e})
  BY <1>1, WokenIs DEF Replies
<1>4. \A i \in jobs : \A p \in At(i) : p \in AtAll
  BY HoldersAre
<1>5. QED
  BY <1>1, <1>2, <1>3, <1>4, ArrivalCourse DEF Courses

-----------------------------------------------------------------------------
(* Steps that edit or push. *)

\* The number of the comment keeps the label and the overrides.
LEMMA NumberedInstance ==
  ASSUME NEW S, NEW r, ResultOK(S, r), r.store[InstanceFile] # Missing, NEW n \in Nat
  PROVE  LET todo == [r EXCEPT !.store[InstanceFile].comment = n] IN
         /\ todo.store[InstanceFile].label = r.store[InstanceFile].label
         /\ todo.store[InstanceFile].overrides = r.store[InstanceFile].overrides
<1> DEFINE todo == [r EXCEPT !.store[InstanceFile].comment = n]
           i == [r.store[InstanceFile] EXCEPT !.comment = n]
<1>1. StoreOK(r.store) /\ DOMAIN r = ResultFields /\ DOMAIN r.store = Files /\ InstanceFile \in Files
  BY FilesAre DEF ResultOK, StoreOK
<1>2. todo.store = Write(r.store, InstanceFile, i)
  BY <1>1 DEF Write, ResultFields
<1>3. r.store[InstanceFile] \in Instances
  BY <1>1, InstanceValue
<1>4. i.label = r.store[InstanceFile].label /\ i.overrides = r.store[InstanceFile].overrides
  BY <1>3, InstanceFields
<1> HIDE DEF todo, i
<1>5. todo.store[InstanceFile] = i
  BY <1>1, <1>2, WriteIs
<1>6. QED
  BY <1>4, <1>5 DEF todo

LEMMA ExecuteCourse ==
  ASSUME EngineInv, OneStart, CommentInv, used["start"] <= 1, used["redelivery"] = 0,
         GatesApart, Straight, Threads, Courses, NEW j \in jobs, Execute(j)
  PROVE  Courses'
<1>0. PICK r \in Outcomes(store, j) : \E k : Executed(j, r, k)
  BY ExecuteIs
<1>1. PICK k : Executed(j, r, k)
  BY <1>0
<1>2. UNCHANGED <<store, waiting>> /\ j.stage = "ready" /\ StoreOK(store) /\ JobOK(j)
  BY DEF Execute, EngineInv
<1>3. /\ Becomes(j, k) /\ k.role = j.role /\ k.command = j.command
      /\ k.path = j.path /\ k.stage = "edited" /\ k.clone = store
  BY <1>1 DEF Executed
<1>4. CASE j.command = "start"
  <2>1. j.role = "plan" /\ ~Started /\ \A f \in Files : store[f] = Missing
    BY <1>2, <1>4 DEF JobOK, OneStart, StartsOnce, EngineInv, UntilStarted, None
  <2>2. r \in EnterRoot(store, "start")
    BY <1>4, <2>1 DEF Outcomes, Plan
  <2>3. InCourse(store, r)
    BY <1>2, <2>1, <2>2, StartCourse
  <2>4. ResultOK(store, r) /\ r.push /\ r.store[InstanceFile] # Missing /\ StoreOK(r.store)
    BY <1>2, <2>2, EnterRootOK DEF ResultOK
  <2>5. Moves(store, r, <<>>)
    BY <1>2, <2>1, <2>2, StartMoves
  <2>6. InCourse(store, k.todo) /\ k.todo.push
    <3>1. CASE r.tells /\ NeedsComment(r.store)
      <4>1. comments + 1 \in Nat /\ k.todo = [r EXCEPT !.store[InstanceFile].comment = comments + 1]
        BY <1>1, <3>1 DEF Executed, EngineInv
      <4> DEFINE n == comments + 1
                 q == [r EXCEPT !.store[InstanceFile].comment = n]
      <4>2. n \in Nat /\ k.todo = q
        BY <4>1
      <4> HIDE DEF n
      <4>3. /\ SameBut(r.store, q.store)
            /\ q.runs = r.runs /\ q.legs = r.legs /\ q.emit = r.emit /\ q.push = r.push
        BY <2>4, <4>2, NumberedSame
      <4>4. /\ q.store[InstanceFile].label = r.store[InstanceFile].label
            /\ q.store[InstanceFile].overrides = r.store[InstanceFile].overrides
        BY <2>4, <4>2, NumberedInstance
      <4> HIDE DEF q
      <4>5. /\ Course(r.store) => Course(q.store)
            /\ \A x \in DOMAIN Tree \ {<<>>} : Arrived(r.store, x) => Arrived(q.store, x)
            /\ \A U : Steady(U, r.store) => Steady(U, q.store)
        BY <2>4, <4>3, <4>4, NumberCourse
      <4>6. Hands(q) = Hands(r)
        BY <4>3 DEF Hands
      <4>7. \A x \in Hands(r) : x \in DOMAIN Tree \ {<<>>}
        BY <2>5 DEF Moves
      <4>8. Course(q.store) /\ Steady(store, q.store)
        BY <2>3, <4>5 DEF InCourse
      <4>9. \A x \in Hands(q) : Arrived(q.store, x)
        BY <2>3, <4>5, <4>6, <4>7 DEF InCourse
      <4> QED
        BY <2>4, <4>2, <4>3, <4>8, <4>9 DEF InCourse
    <3>2. CASE ~(r.tells /\ NeedsComment(r.store))
      BY <1>1, <2>3, <2>4, <3>2 DEF Executed
    <3> QED
      BY <3>1, <3>2
  <2>7. At(k) = {}
    BY <1>3, <1>4, <2>1, <2>6 DEF At, Unpushed
  <2> QED
    BY <1>2, <1>3, <2>6, <2>7, GoesOnCourse
<1>5. CASE j.command # "start"
  <2>1. k.todo = r
    BY <1>1, <1>2, <1>5, NotCreated DEF Executed
  <2>2. Unpushed(j)
    BY <1>2 DEF Unpushed
  <2>3. CASE r.push
    <3>1. InCourse(store, r)
      BY <1>2, <1>5, <2>3, OutcomesCourse DEF Courses
    <3>2. Unpushed(k)
      BY <1>3, <2>1, <2>3 DEF Unpushed
    <3>3. At(k) = At(j)
      BY <1>3, <2>2, <3>2 DEF At
    <3> QED
      BY <1>2, <1>3, <2>1, <3>1, <3>3, GoesOnCourse
  <2>4. CASE ~r.push
    <3>1. ~Unpushed(k) /\ ~Editing(k)
      BY <1>3, <2>1, <2>4 DEF Unpushed, Editing
    <3>2. \/ ~r.runs /\ r.emit = {}
          \/ /\ j.role = "plan" /\ j.command = "continue" /\ j.path \in Units
             /\ Preserved(store, j.path, "continue")
             /\ r.runs /\ r.legs = {j.path} /\ r.emit = {}
      BY <1>2, <1>5, <2>4, NotPushed
    <3>3. At(k) \subseteq At(j)
      BY <2>1, <2>2, <3>1, <3>2, NothingWoken DEF At, Hands
    <3> QED
      BY <1>2, <1>3, <3>1, <3>3, GoesOnCourse
  <2> QED
    BY <2>3, <2>4
<1>6. QED
  BY <1>4, <1>5

\* A node is come to if it was so in a store with the same files there.
LEMMA ArrivedSame ==
  ASSUME GatesApart, NEW S, NEW T, DOMAIN S = Files, DOMAIN T = Files,
         NEW q \in DOMAIN Tree \ {<<>>}, Agree(S, T, q), Arrived(S, q),
         Thread(q) = <<>> => T[InstanceFile] = S[InstanceFile],
         Thread(q) \notin {<<>>, q} => T[NodeFile(Thread(q))] = S[NodeFile(Thread(q))]
  PROVE  Arrived(T, q)
<1>1. Above(q, q)
  BY NodesAreChildren, AboveOrder
<1>2. q \in Units => StateOf(T, q) = StateOf(S, q)
  BY <1>1, SameState DEF Units, HasFile
<1>3. Untouched(S, q) => Untouched(T, q)
  BY UntouchedSame
<1>4. QED
  BY <1>2, <1>3 DEF Arrived

LEMMA PushesCourse ==
  ASSUME EngineInv, OneStart, used["start"] <= 1, GatesApart, Threads, NEW j \in jobs, Push(j)
  PROVE  \E t : PushesAlone(j, t)
<1>1. CASE j.command = "start"
  BY <1>1, StartIsAlone DEF Threads
<1>2. CASE j.command # "start"
  <2>1. Editing(j)
    BY DEF Editing, Push, Pushing
  <2>2. PICK a \in DOMAIN Tree \ {<<>>} :
      WorksAt(j, j.clone, a) /\ Moves(j.clone, j.todo, Thread(a)) /\ Synced(j.clone, Thread(a))
    BY <1>2, <2>1 DEF EditsOK, Threads
  <2> QED
    BY <1>2, <2>2, PushIsAlone DEF Threads
<1>3. QED
  BY <1>1, <1>2

LEMMA PushCourse ==
  ASSUME EngineInv, OneStart, used["start"] <= 1, GatesApart, Threads, Courses,
         NEW j \in jobs, Push(j)
  PROVE  Courses'
<1>1. PICK t : PushesAlone(j, t)
  BY PushesCourse
<1> DEFINE T == j.todo.store
<1>2. /\ Agree(T, store', t) /\ AgreeOutside(store, store', t)
      /\ DOMAIN store = Files /\ DOMAIN store' = Files /\ DOMAIN T = Files
      /\ T[InstanceFile] # Missing /\ store'[InstanceFile] # Missing
      /\ t # <<>> => Present(store, t) /\ Present(store', t)
      /\ \A q \in Hands(j.todo) : q \in DOMAIN Tree \ {<<>>} /\ Above(t, q)
  BY <1>1, PushContext
<1>3. /\ IsThread(t) /\ (t # <<>> => Inside(store, t))
      /\ \A p \in Others(j) : /\ p \in DOMAIN Tree \ {<<>>}
                              /\ ~Above(t, p) /\ ~Above(Thread(p), t)
  BY <1>1 DEF PushesAlone, ByItself
<1>4. PICK k : /\ jobs' = (jobs \ {j}) \union {k}
               /\ \A p : p \in AtAll' <=> p \in Others(j) \/ p \in Hands(j.todo)
               /\ k.stage = "pushed"
  BY <1>1, PushTokens DEF Threads
<1>5. Editing(j) /\ StoreOK(store) /\ StoreOK(T)
  BY DEF Editing, Push, Pushing, EngineInv, JobOK, TodoOK
<1>6. InCourse(j.clone, j.todo)
  BY <1>5 DEF Courses
<1>7. Course(T) /\ \A q \in Hands(j.todo) : Arrived(T, q)
  BY <1>6 DEF InCourse
<1>8. t \in Seq(STRING) /\ <<>> \in Seq(STRING) /\ (t # <<>> => IsLeg(t) /\ ~Above(t, <<>>))
  BY <1>3, ThreadsAre
<1> HIDE DEF T
<1>9. Course(store')
  <2> SUFFICES ASSUME NEW u \in DOMAIN Tree, IsThread(u) PROVE OnCourse(store', u)
    BY DEF Course
  <2>1. u \in Seq(STRING)
    BY ThreadsAre
  <2>2. CASE Above(t, u)
    <3>1. OnCourse(T, u)
      BY <1>7 DEF Course
    <3>2. Agree(T, store', u)
      BY <1>2, <1>8, <2>1, <2>2, AgreeBelow
    <3>3. CASE u = <<>>
      <4>1. \A f \in Files \ Strays : store'[f] = T[f]
        BY <3>2, <3>3, FilesAt, AboveOrder DEF Agree
      <4>2. store'[InstanceFile] = T[InstanceFile]
        BY <4>1, NotStray
      <4> QED
        BY <1>2, <1>5, <3>1, <3>3, <4>1, <4>2, CourseSame
    <3>4. CASE u # <<>>
      BY <1>2, <1>5, <3>1, <3>2, <3>4, CourseSame
    <3> QED
      BY <3>3, <3>4
  <2>3. CASE ~Above(t, u)
    <3>1. t # <<>>
      BY <2>1, <2>3, AboveOrder
    <3>2. store[InstanceFile] # Missing /\ Inside(store, t)
      BY <1>3, <3>1 DEF Inside
    <3>3. OnCourse(store, u)
      BY DEF Courses, Course
    <3> QED
      BY <1>2, <1>5, <1>8, <2>3, <3>1, <3>2, <3>3, CourseAside
  <2> QED
    BY <2>2, <2>3
<1>10. ASSUME NEW q \in Hands(j.todo) PROVE Arrived(store', q)
  <2>1. q \in DOMAIN Tree \ {<<>>} /\ Above(t, q) /\ q \in Seq(STRING) /\ Arrived(T, q)
    BY <1>2, <1>7, NodesAreChildren
  <2>2. Agree(T, store', q)
    BY <1>2, <1>8, <2>1, AgreeBelow
  <2>3. Above(t, Thread(q)) /\ IsThread(Thread(q))
    <3>1. CASE t = q
      <4>1. Thread(q) = t
        BY <1>3, <2>1, <3>1, ThreadIs DEF IsThread
      <4> QED
        BY <1>8, <1>3, <4>1, AboveOrder
    <3>2. CASE t # q
      <4>1. Above(t, ParentPath(q))
        BY <1>8, <2>1, <3>2, AboveParent
      <4> QED
        BY <2>1, <4>1, ThreadIs
    <3> QED
      BY <3>1, <3>2
  <2>4. Thread(q) = <<>> => store'[InstanceFile] = T[InstanceFile]
    <3>1. Thread(q) = <<>> => t = <<>>
      BY <1>8, <2>3
    <3>2. t = <<>> => Above(t, InstanceFile[2])
      BY <1>3, ThreadsAre
    <3> QED
      BY <1>2, <3>1, <3>2, NotStray DEF Agree
  <2>5. Thread(q) \notin {<<>>, q} => store'[NodeFile(Thread(q))] = T[NodeFile(Thread(q))]
    <3>1. Thread(q) # <<>> => HasFile(Thread(q)) /\ Thread(q) \in DOMAIN Tree
      BY <2>3, ThreadsAre
    <3> QED
      BY <1>2, <2>3, <3>1, NotStray, FilePaths DEF Agree
  <2> QED
    BY <1>2, <2>1, <2>2, <2>4, <2>5, ArrivedSame
<1>11. ASSUME NEW q \in Others(j) PROVE Arrived(store', q)
  <2>1. /\ q \in DOMAIN Tree \ {<<>>} /\ q \in Seq(STRING)
        /\ ~Above(t, q) /\ ~Above(Thread(q), t) /\ Arrived(store, q)
    <3>1. q \in AtAll
      BY HoldersAre
    <3> QED
      BY <1>3, <3>1, NodesAreChildren DEF Courses
  <2>2. t # <<>>
    BY <2>1, AboveOrder
  <2>3. /\ Thread(q) \in Seq(STRING) /\ IsThread(Thread(q)) /\ Above(Thread(q), q)
        /\ Thread(q) \in DOMAIN Tree
    BY <2>1, ThreadIs
  <2>4. ~Above(t, Thread(q)) /\ ~Above(q, t)
    BY <1>8, <2>1, <2>3, AboveOrder
  <2>5. Agree(store, store', q)
    BY <1>2, <1>8, <2>1, <2>4, FilesAt, AboveOrder DEF Agree, AgreeOutside
  <2>6. store'[InstanceFile] = store[InstanceFile]
    BY <1>2, <1>8, <2>2, NotStray, FilePaths DEF AgreeOutside
  <2>7. Thread(q) \notin {<<>>, q} => store'[NodeFile(Thread(q))] = store[NodeFile(Thread(q))]
    <3>1. Thread(q) # <<>> => HasFile(Thread(q))
      BY <2>3, ThreadsAre
    <3> QED
      BY <1>2, <2>3, <2>4, <3>1, NotStray, FilePaths DEF AgreeOutside
  <2> QED
    BY <1>2, <2>1, <2>5, <2>6, <2>7, ArrivedSame
<1>12. \A i \in jobs' : Editing(i) => InCourse(i.clone, i.todo)
  <2>1. ~Editing(k)
    BY <1>4 DEF Editing
  <2> QED
    BY <1>4, <2>1 DEF Courses
<1>13. \A q \in AtAll' : Arrived(store', q)
  BY <1>4, <1>10, <1>11
<1>14. QED
  BY <1>9, <1>12, <1>13 DEF Courses

-----------------------------------------------------------------------------
(* The invariant. *)

LEMMA StutterCourse == Courses /\ UNCHANGED vars => Courses'
<1> SUFFICES ASSUME Courses, UNCHANGED <<store, jobs, waiting>>
             PROVE  Courses'
  BY DEF vars
<1>1. AtAll' = AtAll
  BY DEF AtAll, Woke
<1>2. QED
  BY <1>1 DEF Courses

LEMMA CourseNext ==
  EngineInv /\ OneStart /\ CommentInv /\ ThreadInv /\ CourseInv /\ [Next]_vars => CourseInv'
<1> SUFFICES ASSUME EngineInv, OneStart, CommentInv, ThreadInv, CourseInv, [Next]_vars,
                    PullRequest, GatesApart, Straight,
                    used'["start"] <= 1, used'["redelivery"] = 0
             PROVE  Courses'
  BY DEF CourseInv, Calm
<1>1. used["start"] <= 1 /\ used["redelivery"] = 0
  BY RegimeBefore
<1>2. Threads /\ Courses
  BY <1>1 DEF ThreadInv, CourseInv, Calm
<1>3. CASE Work
  <2>1. PICK j \in jobs : Step(j)
    BY <1>3 DEF Work
  <2>2. CASE Execute(j)
    BY <1>1, <1>2, <2>2, ExecuteCourse
  <2>3. CASE Report(j)
    BY <1>2, <2>3, ReportCourse
  <2>4. CASE Push(j)
    BY <1>1, <1>2, <2>4, PushCourse
  <2>5. CASE FailPush(j) \/ FailComment(j)
    BY <1>2, <2>5, EndsCourse
  <2>6. CASE Finish(j)
    BY <1>2, <2>6, FinishCourse
  <2>7. CASE MarkInProgress(j)
    BY <1>2, <2>7, MarkCourse
  <2>8. CASE StartLegs(j) \/ StartLegsWithComment(j)
    BY <1>2, <2>8, StartLegsCourse
  <2> QED
    BY <2>1, <2>2, <2>3, <2>4, <2>5, <2>6, <2>7, <2>8 DEF Step
<1>4. CASE \E command \in Commands : \E said \in SaidWith(command) : Comment(command, said)
  BY <1>2, <1>4, CommentCourse
<1>5. CASE \E p \in DOMAIN Tree \ {<<>>} : Redeliver(p)
  <2>1. Use("redelivery")
    BY <1>5 DEF Redeliver
  <2> QED
    BY <1>1, <2>1, UseOK DEF Bounds
<1>6. CASE \E j \in jobs : Die(j)
  BY <1>2, <1>6, EndsCourse
<1>7. CASE UNCHANGED vars
  BY <1>2, <1>7, StutterCourse
<1>8. QED
  BY <1>3, <1>4, <1>5, <1>6, <1>7 DEF Next

LEMMA InitCourse == Init => CourseInv
<1> SUFFICES ASSUME Init PROVE Courses
  BY DEF CourseInv
<1>1. jobs = {} /\ waiting = {} /\ \A f \in Files : store[f] = Missing
  BY DEF Init
<1>2. \A p : p \notin AtAll
  BY <1>1, WokenIs DEF AtAll, Woke
<1>3. ASSUME NEW t \in DOMAIN Tree, IsThread(t) PROVE OnCourse(store, t)
  <2>1. t # <<>> => NodeFile(t) \in Files
    BY <1>3, FilesAre, ThreadsAre DEF HasFile
  <2>2. ThreadFile(t) \in Files
    BY <2>1, FilesAre DEF ThreadFile
  <2> QED
    BY <1>1, <2>2 DEF OnCourse, Untouched
<1>4. QED
  BY <1>1, <1>2, <1>3 DEF Courses, Course

LEMMA CoursesKept == Spec => []CourseInv
BY InitThreads, ThreadNext, InitOneStart, OneStartNext, InitComment, CommentNext, InitCourse,
   CourseNext, EngineInvariant, PTL DEF Spec

-----------------------------------------------------------------------------
(* What follows from the invariant. *)

\* The fan-out p is over, and its join passes, as the properties say it.
LEMMA BarrierIs ==
  ASSUME NEW p
  PROVE  /\ Closed(store, p) <=> LegsIn(p, Terminal) = LegIds(store, p)
         /\ Clears(store, p) <=> Cleared(p)
<1>1. Closed(store, p) <=> LegsIn(p, Terminal) = LegIds(store, p)
  BY DEF Closed, AllTerminal, LegsIn
<1>2. LegsIn(p, {"done"}) = {l \in LegIds(store, p) : StateOf(store, Child(p, l)) = "done"}
  BY DEF LegsIn
<1>3. Clears(store, p) <=> Cleared(p)
  BY <1>2 DEF Clears, PolicyMet, Cleared
<1>4. QED
  BY <1>1, <1>3

\* A root state that is finished in the order of the root is so for the properties.
LEMMA PhaseIsFinished ==
  ASSUME NEW k \in DOMAIN RootIds, Finished(store, Nth(<<>>, k))
  PROVE  PhaseFinished(RootIds[k])
<1> DEFINE id == RootIds[k]
           c == Nth(<<>>, k)
<1>1. RootIds = Children(<<>>) /\ IsThread(<<>>)
  BY DEF RootIds, IsThread
<1>2. /\ c \in Seq(STRING) /\ Len(c) = 1 /\ LastId(c) = id
      /\ c \in DOMAIN Tree \ {<<>>}
  BY <1>1, NthIs
<1>3. c = <<id>>
  BY <1>1, <1>2 DEF Nth, Child
<1>4. /\ Closed(store, c) => LegsIn(c, Terminal) = LegIds(store, c)
      /\ Clears(store, c) => Cleared(c)
  BY BarrierIs
<1>5. CASE NodeKind(c) = "agent"
  <2>1. StateOf(store, c) = "done" \/ id \in store[InstanceFile].overrides
    BY <1>2, <1>5 DEF Finished
  <2> QED
    BY <1>3, <1>5, <2>1 DEF PhaseFinished
<1>6. CASE NodeKind(c) = "fanout"
  <2>1. Closed(store, c) /\ Clears(store, c)
    BY <1>6 DEF Finished
  <2> QED
    BY <1>3, <1>4, <1>6, <2>1 DEF PhaseFinished
<1>7. CASE NodeKind(c) = "gate"
  <2>1. store[NodeFile(c)] # Missing /\ store[NodeFile(c)].gate = "approved"
    BY <1>2, <1>7 DEF Finished
  <2> QED
    BY <1>3, <1>7, <2>1 DEF PhaseFinished
<1>8. CASE NodeKind(c) \notin {"agent", "fanout", "gate"}
  BY <1>3, <1>8 DEF PhaseFinished
<1>9. QED
  BY <1>5, <1>6, <1>7, <1>8

\* In every calm run of a protocol whose root and legs lead on, the cursor of the
\* instance passes a root state only once it is finished: an agent done or overridden,
\* every leg terminal and the policy met, the gate approved (next.py, advance.py,
\* join.py, for whatever order their jobs come in).
THEOREM PhasesAreExplained == Spec => [](Calm /\ Straight => PhaseExplained)
<1>1. CourseInv => (Calm /\ Straight => PhaseExplained)
  <2> SUFFICES ASSUME Courses, store[InstanceFile] # Missing,
                      NEW i \in DOMAIN RootIds, NEW k \in DOMAIN RootIds,
                      k < i, RootIds[i] = store[InstanceFile].phase
               PROVE  PhaseFinished(RootIds[k])
    BY DEF CourseInv, PhaseExplained
  <2>1. RootIds = Children(<<>>) /\ IsThread(<<>>) /\ <<>> \in DOMAIN Tree
    BY TreeAssumption DEF RootIds, IsThread
  <2>2. InOrder(store, <<>>, k)
    BY <2>1 DEF Courses, Course, OnCourse, ThreadFile
  <2>3. Passed(store, <<>>, k)
    BY <2>1 DEF Passed, Stage
  <2> QED
    BY <2>2, <2>3, PhaseIsFinished DEF InOrder
<1>2. QED
  BY <1>1, CoursesKept, PTL

\* A calm run that is recorded as done has finished all its phases (join.py, advance.py).
THEOREM DoneIsDeserved == Spec => [](Calm /\ Straight => DoneIsEarned)
<1>1. CourseInv => (Calm /\ Straight => DoneIsEarned)
  <2> SUFFICES ASSUME Courses, store[InstanceFile] # Missing,
                      store[InstanceFile].label = "done", NEW id \in PhaseIds
               PROVE  PhaseFinished(id)
    BY DEF CourseInv, DoneIsEarned
  <2>1. RootIds = Children(<<>>) /\ IsThread(<<>>) /\ <<>> \in DOMAIN Tree
    BY TreeAssumption DEF RootIds, IsThread
  <2>2. PICK k \in DOMAIN RootIds : RootIds[k] = id
    BY <2>1 DEF PhaseIds, ChildIds
  <2>3. InOrder(store, <<>>, k)
    BY <2>1 DEF Courses, Course, OnCourse, ThreadFile
  <2>4. Complete(store, <<>>)
    BY DEF Complete
  <2>5. PhaseFinished(RootIds[k])
    BY <2>3, <2>4, PhaseIsFinished DEF InOrder
  <2> QED
    BY <2>2, <2>5
<1>2. QED
  BY <1>1, CoursesKept, PTL

\* The gates and fan-outs in legs are children of the leg.
LEMMA InLegIs ==
  ASSUME NEW p \in LegGates \union NestedFanouts
  PROVE  /\ IsThread(ParentPath(p)) /\ ParentPath(p) # <<>> /\ ParentPath(p) \in DOMAIN Tree
         /\ p \in DOMAIN Tree \ {<<>>} /\ Len(p) # 1
         /\ \E k \in DOMAIN Children(ParentPath(p)) :
              p = Nth(ParentPath(p), k) /\ Children(ParentPath(p))[k] = LastId(p)
<1>1. p \in DOMAIN Tree /\ NodeKind(p) \in {"gate", "fanout"} /\ Len(p) # 1
  BY DEF LegGates, NestedFanouts, IsRootChild
<1>2. p # <<>>
  BY <1>1 DEF NodeKind, None
<1>3. ~IsLeg(p)
  BY <1>1, LegsKind
<1>4. Thread(p) = ParentPath(p) /\ IsThread(ParentPath(p)) /\ ParentPath(p) # <<>>
  BY <1>1, <1>2, <1>3, ThreadIs
<1>5. p = Child(ParentPath(p), LastId(p)) /\ LastId(p) \in ChildIds(ParentPath(p))
      /\ ParentPath(p) \in DOMAIN Tree
  BY <1>1, <1>2, NodesAreChildren
<1>6. PICK k \in DOMAIN Children(ParentPath(p)) : Children(ParentPath(p))[k] = LastId(p)
  BY <1>5 DEF ChildIds
<1>7. QED
  BY <1>1, <1>2, <1>4, <1>5, <1>6 DEF Nth

\* A leg of a calm run is past a data gate, or over, only when the gate is answered and
\* the answers it is resumed with cover the questions (do_answer, advance.py).
THEOREM GatesAreAnswered == Spec => [](Calm /\ Straight => GatesAnswered)
<1>1. CourseInv => (Calm /\ Straight => GatesAnswered)
  <2> SUFFICES ASSUME Courses, Straight, NEW p \in LegGates,
                      store[NodeFile(ParentPath(p))] # Missing,
                      \/ store[NodeFile(ParentPath(p))].state = "done"
                      \/ Index(Child(ParentPath(p), store[NodeFile(ParentPath(p))].sub_state))
                           > Index(p)
               PROVE  /\ store[NodeFile(p)].gate = "answered"
                      /\ store[NodeFile(p)].questions \subseteq AnsweredAt(store, p)
    BY DEF CourseInv, GatesAnswered
  <2> DEFINE t == ParentPath(p)
  <2>1. IsThread(t) /\ t # <<>> /\ t \in DOMAIN Tree /\ p \in DOMAIN Tree \ {<<>>} /\ Len(p) # 1
    BY InLegIs
  <2>2. PICK k \in DOMAIN Children(t) : p = Nth(t, k) /\ Children(t)[k] = LastId(p)
    BY InLegIs
  <2>3. /\ InOrder(store, t, k)
        /\ Stage(store, t) \in ChildIds(t)
    <3>1. Children(t) # <<>>
      BY <2>2
    <3> QED
      BY <2>1, <3>1 DEF Courses, Course, OnCourse, ThreadFile
  <2>4. PICK i \in DOMAIN Children(t) : Children(t)[i] = Stage(store, t)
    BY <2>3 DEF ChildIds
  <2>5. \A m \in DOMAIN Children(t) : \A n \in DOMAIN Children(t) :
          Children(t)[m] = Children(t)[n] => m = n
    BY <2>1, Distinct
  <2>6. Index(p) = k
    BY <2>2, <2>5 DEF Index
  <2>7. Index(Child(t, Stage(store, t))) = i
    <3>1. /\ ParentPath(Child(t, Stage(store, t))) = t
          /\ LastId(Child(t, Stage(store, t))) = Stage(store, t)
      BY <2>1, <2>3, ChildrenAreNodes
    <3> QED
      BY <2>4, <2>5, <3>1 DEF Index
  <2>8. Passed(store, t, k) \/ Complete(store, t)
    <3>1. CASE store[NodeFile(t)].state = "done"
      BY <2>1, <3>1 DEF Complete
    <3>2. CASE Index(Child(t, store[NodeFile(t)].sub_state)) > Index(p)
      <4>1. Stage(store, t) = store[NodeFile(t)].sub_state
        BY <2>1 DEF Stage
      <4>2. i > k /\ i \in Nat /\ k \in Nat
        BY <2>1, <2>6, <2>7, <3>2, <4>1, Distinct
      <4> QED
        BY <2>4, <4>2 DEF Passed
    <3> QED
      BY <3>1, <3>2
  <2>9. Finished(store, p)
    BY <2>2, <2>3, <2>8 DEF InOrder
  <2>10. NodeKind(p) = "gate"
    BY DEF LegGates
  <2> QED
    BY <2>1, <2>9, <2>10 DEF Finished
<1>2. QED
  BY <1>1, CoursesKept, PTL

\* The barrier of a nested fan-out of a calm run is closed after its last leg, with the
\* outcome its policy has, and the leg around it has gone on or ended (_nested_join).
THEOREM NestedJoinsAreSound == Spec => [](Calm /\ Straight => NestedJoinSound)
<1>1. CourseInv => (Calm /\ Straight => NestedJoinSound)
  <2> SUFFICES ASSUME Courses, Straight, GatesApart, NEW p \in NestedFanouts,
                      Read(store, JoinFile(p)) # Missing, store[JoinFile(p)].joined
               PROVE  /\ LegsIn(p, Terminal) = LegIds(store, p)
                      /\ store[JoinFile(p)].failed = ~Cleared(p)
                      /\ ~Cleared(p) => store[NodeFile(ParentPath(p))].state = "failed"
                      /\ Cleared(p) => \/ store[NodeFile(ParentPath(p))].state = "done"
                                       \/ store[NodeFile(ParentPath(p))].sub_state # LastId(p)
    BY DEF CourseInv, NestedJoinSound, Calm
  <2> DEFINE t == ParentPath(p)
  <2>1. IsThread(t) /\ t # <<>> /\ t \in DOMAIN Tree /\ p \in DOMAIN Tree \ {<<>>}
    BY InLegIs
  <2>2. PICK k \in DOMAIN Children(t) : p = Nth(t, k) /\ Children(t)[k] = LastId(p)
    BY InLegIs
  <2>3. store[JoinFile(p)] # Missing
    BY DEF Read
  <2>4. store[NodeFile(t)] # Missing
    <3>1. ~Untouched(store, t)
      <4>1. JoinFile(p) \in Files \ Strays /\ JoinFile(p)[2] = p
        BY NotStray, FilePaths
      <4>2. Above(t, p)
        BY <2>1, <2>2, NthIs
      <4> QED
        BY <2>3, <4>1, <4>2 DEF Untouched
    <3> QED
      BY <2>1, <3>1 DEF Courses, Course, OnCourse, ThreadFile
  <2>5. InOrder(store, t, k)
    BY <2>1, <2>4 DEF Courses, Course, OnCourse, ThreadFile
  <2>6. Barred(store, t, k)
    BY <2>2, <2>3, <2>5 DEF InOrder
  <2>7. /\ Closed(store, p) /\ store[JoinFile(p)].failed = ~Clears(store, p)
        /\ IF store[JoinFile(p)].failed THEN store[NodeFile(t)].state = "failed"
           ELSE store[NodeFile(t)].state = "done" \/ Passed(store, t, k)
    BY <2>2, <2>6 DEF Barred
  <2>8. Passed(store, t, k) => store[NodeFile(t)].sub_state # LastId(p)
    <3> SUFFICES ASSUME NEW i \in DOMAIN Children(t), k < i,
                        Children(t)[i] = store[NodeFile(t)].sub_state,
                        store[NodeFile(t)].sub_state = LastId(p)
                 PROVE  FALSE
      BY <2>1 DEF Passed, Stage
    <3>1. i = k /\ i \in Nat
      BY <2>1, <2>2, Distinct
    <3> QED
      BY <3>1
  <2>9. (Closed(store, p) <=> LegsIn(p, Terminal) = LegIds(store, p))
        /\ (Clears(store, p) <=> Cleared(p))
    BY BarrierIs
  <2>10. LegsIn(p, Terminal) = LegIds(store, p) /\ store[JoinFile(p)].failed = ~Cleared(p)
    BY <2>7, <2>9
  <2>11. CASE Cleared(p)
    BY <2>7, <2>8, <2>10, <2>11
  <2>12. CASE ~Cleared(p)
    BY <2>7, <2>10, <2>12
  <2> QED
    BY <2>10, <2>11, <2>12
<1>2. QED
  BY <1>1, CoursesKept, PTL

\* A unit of a calm run that is done or failed stays so, whatever is pushed after it.
LEMMA TerminalStep ==
  ASSUME EngineInv, OneStart, used["start"] <= 1, GatesApart, Threads, Courses,
         NEW j \in jobs, Push(j), NEW p \in Units, StateOf(store, p) \in Terminal
  PROVE  StateOf(store', p) = StateOf(store, p)
<1>1. PICK t : PushesAlone(j, t)
  BY PushesCourse
<1>2. /\ Agree(j.todo.store, store', t) /\ AgreeOutside(store, store', t)
      /\ DOMAIN store = Files /\ DOMAIN store' = Files /\ DOMAIN j.todo.store = Files
  BY <1>1, PushContext
<1>3. p \in DOMAIN Tree /\ NodeFile(p) \in Files \ Strays /\ NodeFile(p) \in Files
      /\ NodeFile(p)[2] = p
  BY UnitsAreAgents, NotStray, FilePaths DEF HasFile
<1>4. CASE ~Above(t, p)
  <2>1. store'[NodeFile(p)] = store[NodeFile(p)]
    BY <1>2, <1>3, <1>4 DEF AgreeOutside
  <2> QED
    BY <1>2, <1>3, <2>1 DEF StateOf, Read
<1>5. CASE Above(t, p)
  <2>1. store[NodeFile(p)] = j.clone[NodeFile(p)]
    BY <1>1, <1>3, <1>5 DEF PushesAlone, Synced
  <2>2. store'[NodeFile(p)] = j.todo.store[NodeFile(p)]
    BY <1>2, <1>3, <1>5 DEF Agree
  <2>3. Editing(j) /\ DOMAIN j.clone = Files
    BY DEF Editing, Push, Pushing, EngineInv, JobOK, StoreOK
  <2>4. StateOf(j.clone, p) = StateOf(store, p) /\ StateOf(j.todo.store, p) = StateOf(store', p)
    BY <1>2, <1>3, <2>1, <2>2, <2>3 DEF StateOf, Read
  <2>5. Steady(j.clone, j.todo.store)
    BY <2>3 DEF Courses, InCourse
  <2> QED
    BY <2>4, <2>5 DEF Steady
<1>6. QED
  BY <1>4, <1>5

\* No unit of a calm run that is done or failed is worked on again, or overwritten by
\* what another job read before (decide, seed_node, cas_push).
THEOREM TerminalUnitsStay == Spec /\ [](Calm /\ Straight) => TerminalStays
<1>1. EngineInv /\ OneStart /\ ThreadInv /\ CourseInv /\ Calm /\ Straight /\ [Next]_vars =>
        [\A p \in Units : StateOf(store, p) \in Terminal =>
           StateOf(store', p) = StateOf(store, p)]_vars
  <2> SUFFICES ASSUME EngineInv, OneStart, Calm, Threads, Courses, [Next]_vars,
                      NEW p \in Units, StateOf(store, p) \in Terminal
               PROVE  StateOf(store', p) = StateOf(store, p)
    BY DEF ThreadInv, CourseInv
  <2>1. CASE UNCHANGED store
    BY <2>1
  <2>2. CASE \E j \in jobs : Push(j)
    BY <2>2, TerminalStep DEF Calm
  <2>3. CASE \E j \in jobs : StartLegsWithComment(j)
    <3>1. store' = [store EXCEPT ![InstanceFile].comment = comments + 1]
      BY <2>3 DEF StartLegsWithComment
    <3>2. NodeFile(p) # InstanceFile /\ DOMAIN store = Files
      BY UnitsAreAgents, NotTheInstance DEF EngineInv, StoreOK
    <3>3. store'[NodeFile(p)] = store[NodeFile(p)] /\ DOMAIN store' = DOMAIN store
      BY <3>1, <3>2
    <3> QED
      BY <3>3 DEF StateOf, Read
  <2> QED
    BY <2>1, <2>2, <2>3, StoreChanges
<1>2. QED
  BY <1>1, CoursesKept, ThreadsApart, InitOneStart, OneStartNext, EngineInvariant, PTL
     DEF Spec, TerminalStays

-----------------------------------------------------------------------------
(* The check-run.  A script sets it before its push, so a protocol whose last state is *)
(* an agent is green before that agent is done on the branch.                          *)

NoAgentLast ==
  \A k \in DOMAIN RootIds : NodeKind(<<RootIds[k]>>) = "agent" => k < Len(RootIds)

\* Root fan-out c has been entered, its barrier is closed and its join passes.
Reviewed(S, c) ==
  /\ NodeKind(c) = "fanout"
  /\ \E l \in ChildIds(c) : Present(S, Child(c, l))
  /\ Closed(S, c)
  /\ Clears(S, c)

\* The instance has passed all its phases, but for one it is at whose legs are over.
Won(S) ==
  /\ S[InstanceFile] # Missing
  /\ \A k \in DOMAIN Children(<<>>) : NodeKind(Nth(<<>>, k)) \in {"agent", "fanout"} =>
       \/ Passed(S, <<>>, k)
       \/ Children(<<>>)[k] = S[InstanceFile].phase /\ Reviewed(S, Nth(<<>>, k))

\* Whoever shows green, or is about to, has seen all phases passed, and nobody takes
\* that back.
Greens ==
  /\ check = "success" => Won(store)
  /\ \A j \in jobs : j.stage = "edited" =>
       /\ j.todo.check = "success" => Won(store)
       /\ Won(j.clone) => Won(j.todo.store)

GreenInv == Calm /\ Straight /\ NoAgentLast => Greens

\* The instance goes on from where it is, or stays, and writes nothing at its fan-outs.
LEMMA WonGoesOn ==
  ASSUME GatesApart, Straight, NEW S, StoreOK(S), Won(S), NEW T, DOMAIN T = Files,
         T[InstanceFile] # Missing,
         \A f \in Files \ Strays :
           f \notin {InstanceFile, NodeFile(<<S[InstanceFile].phase>>)} => T[f] = S[f],
         \/ T[InstanceFile].phase = S[InstanceFile].phase
         \/ \E k \in DOMAIN Children(<<>>) :
              /\ Children(<<>>)[k] = S[InstanceFile].phase
              /\ T[InstanceFile].phase \in ChildIds(<<>>)
              /\ LeadsOn(<<>>, k, T[InstanceFile].phase)
  PROVE  Won(T)
<1> DEFINE was == S[InstanceFile].phase
           is == T[InstanceFile].phase
<1>1. IsThread(<<>>) /\ \A i \in DOMAIN Children(<<>>) : i \in Nat
  BY Distinct DEF IsThread
<1>2. SUFFICES ASSUME NEW m \in DOMAIN Children(<<>>), NodeKind(Nth(<<>>, m)) \in {"agent", "fanout"}
               PROVE  \/ Passed(T, <<>>, m)
                      \/ Children(<<>>)[m] = is /\ Reviewed(T, Nth(<<>>, m))
  BY DEF Won
<1>3. \/ Passed(S, <<>>, m)
      \/ Children(<<>>)[m] = was /\ Reviewed(S, Nth(<<>>, m))
  BY <1>2 DEF Won
<1>4. CASE is = was
  <2>1. Passed(S, <<>>, m) => Passed(T, <<>>, m)
    BY <1>4 DEF Passed, Stage
  <2>2. ASSUME Children(<<>>)[m] = was, Reviewed(S, Nth(<<>>, m))
        PROVE  Reviewed(T, Nth(<<>>, m))
    <3> DEFINE c == Nth(<<>>, m)
    <3>1. c \in DOMAIN Tree \ {<<>>} /\ NodeKind(c) = "fanout" /\ c = <<was>>
      <4>1. c = <<was>>
        BY <2>2 DEF Nth, Child
      <4>2. c \in DOMAIN Tree \ {<<>>}
        BY <1>1, NthIs
      <4> QED
        BY <2>2, <4>1, <4>2 DEF Reviewed
    <3>2. ASSUME NEW l \in ChildIds(c)
          PROVE  T[NodeFile(Child(c, l))] = S[NodeFile(Child(c, l))]
      <4>1. Child(c, l) \in DOMAIN Tree \ {<<>>} /\ HasFile(Child(c, l)) /\ Child(c, l) # c
        BY <3>1, LeafIs DEF HasFile
      <4>2. NodeFile(Child(c, l)) \in Files \ Strays
        BY <4>1, NotStray
      <4>3. NodeFile(Child(c, l)) # InstanceFile /\ NodeFile(Child(c, l)) # NodeFile(<<was>>)
        BY <3>1, <4>1, FilePaths, NotTheInstance
      <4> QED
        BY <4>2, <4>3
    <3>3. IsDynamic(c) => T[ManifestFile(c)] = S[ManifestFile(c)]
      BY <3>1, NotStray, FilePaths
    <3> HIDE DEF c
    <3>4. (Closed(T, c) <=> Closed(S, c)) /\ (Clears(T, c) <=> Clears(S, c))
      BY <3>1, <3>2, <3>3, SameLegs
    <3>5. Reviewed(S, c)
      BY <2>2 DEF c
    <3>6. Reviewed(T, c)
      BY <3>2, <3>4, <3>5 DEF Reviewed, Present
    <3> QED
      BY <3>6 DEF c
  <2> QED
    BY <1>3, <1>4, <2>1, <2>2
<1>5. CASE is # was
  <2>1. PICK k \in DOMAIN Children(<<>>) :
          Children(<<>>)[k] = was /\ is \in ChildIds(<<>>) /\ LeadsOn(<<>>, k, is)
    BY <1>5
  <2>2. PICK i \in DOMAIN Children(<<>>) : k < i /\ Children(<<>>)[i] = is
    BY <2>1 DEF LeadsOn
  <2>3. m < k \/ m = k
    <3>1. CASE Passed(S, <<>>, m)
      <4>1. PICK n \in DOMAIN Children(<<>>) : m < n /\ Children(<<>>)[n] = was
        BY <3>1 DEF Passed, Stage
      <4>2. n = k
        BY <1>1, <2>1, <4>1, Distinct
      <4> QED
        BY <4>1, <4>2
    <3>2. CASE Children(<<>>)[m] = was
      BY <1>1, <2>1, <3>2, Distinct
    <3> QED
      BY <1>3, <3>1, <3>2
  <2>4. m < i
    BY <1>1, <2>2, <2>3
  <2> QED
    BY <2>2, <2>4 DEF Passed, Stage
<1>6. QED
  BY <1>4, <1>5

\* Once it has, only the root is left, at its phase, which is no agent.
LEMMA WonAt ==
  ASSUME GatesApart, Straight, NEW S, StoreOK(S), Won(S), NEW a \in DOMAIN Tree \ {<<>>}, Inside(S, a)
  PROVE  /\ a = <<S[InstanceFile].phase>> /\ Len(a) = 1 /\ Thread(a) = <<>>
         /\ S[InstanceFile].phase \in ChildIds(<<>>)
         /\ NodeKind(a) \notin {"agent", "sequence"}
         /\ NodeKind(a) = "fanout" => Reviewed(S, a)
<1> DEFINE phase == S[InstanceFile].phase
           c == <<phase>>
<1>1. IsThread(<<>>) /\ S[InstanceFile] \in Instances /\ phase \in ChildIds(<<>>) /\ DOMAIN S = Files
  BY InstanceValue, InstancesChange DEF Won, IsThread, StoreOK
<1>2. PICK k \in DOMAIN Children(<<>>) : Children(<<>>)[k] = phase
  BY <1>1 DEF ChildIds
<1>3. c = Nth(<<>>, k) /\ c \in DOMAIN Tree \ {<<>>} /\ Len(c) = 1 /\ c \in Seq(STRING)
      /\ Thread(c) = <<>> /\ NodeKind(c) # "sequence"
  <2>1. c = Nth(<<>>, k)
    BY <1>2 DEF Nth, Child
  <2> QED
    BY <1>1, <2>1, NthIs
<1>4. ~Passed(S, <<>>, k)
  <2> SUFFICES ASSUME NEW i \in DOMAIN Children(<<>>), k < i, Children(<<>>)[i] = phase PROVE FALSE
    BY DEF Passed, Stage
  <2>1. i = k /\ i \in Nat
    BY <1>1, <1>2, Distinct
  <2> QED
    BY <2>1
<1>5. NodeKind(c) \in {"agent", "fanout"} => Reviewed(S, c)
  BY <1>3, <1>4 DEF Won
<1>6. NodeKind(c) # "agent"
  BY <1>5 DEF Reviewed
<1>7. a \in Seq(STRING) /\ a[1] = phase /\ Above(c, a)
  <2>1. a \in Seq(STRING) /\ a[1] = phase /\ Len(a) \in Nat \ {0}
    BY NodesAreChildren DEF Inside
  <2>2. Len(c) <= Len(a) /\ \A i \in 1 .. Len(c) : c[i] = a[i]
    BY <1>3, <2>1
  <2> HIDE DEF c
  <2> QED
    BY <1>3, <2>1, <2>2, AboveIs
<1> HIDE DEF c
<1>8. a = c
  <2> SUFFICES ASSUME a # c PROVE FALSE
    OBVIOUS
  <2>1. CASE NodeKind(c) = "fanout"
    <3>1. PICK x : IsLeg(x) /\ ParentPath(x) = c /\ Above(x, a) /\ x \in DOMAIN Tree
      BY <1>3, <1>7, <2>1, LegBetween DEF Over
    <3>2. Expected(S, x) /\ Going(S, x)
      BY <3>1 DEF Inside
    <3>3. ~Closed(S, c)
      BY <1>1, <3>1, <3>2, LegHolds
    <3> QED
      BY <1>5, <2>1, <3>3 DEF Reviewed
  <2>2. CASE NodeKind(c) # "fanout"
    <3>1. /\ Tree[c].kind \in Containers /\ Tree[c].kind # "root"
      <4>1. c = Prefix(a, 1) /\ Len(a) \in Nat /\ Len(c) = 1
        <5>1. Len(a) \in Nat /\ Len(c) = 1
          BY <1>3, <1>7
        <5>2. c = Prefix(a, Len(c))
          BY <1>7 DEF Above
        <5> QED
          BY <5>1, <5>2
      <4>2. Len(a) # 1
        <5> SUFFICES ASSUME Len(a) = 1 PROVE FALSE
          OBVIOUS
        <5>1. Above(a, c)
          BY <1>3, <1>7, AboveIs
        <5> QED
          BY <1>3, <1>7, <5>1, AboveOrder
      <4>3. 1 \in 0 .. Len(a) - 1
        BY <1>3, <1>7, <4>1, <4>2 DEF Above
      <4>4. Tree[SubSeq(a, 1, 1)].kind \in Containers
        BY <4>3, TreeAssumption
      <4> QED
        BY <1>3, <4>1, <4>4, TreeAssumption DEF Prefix
    <3>2. NodeKind(c) \in {"sequence", "fanout"}
      BY <1>3, <3>1 DEF NodeKind, Containers
    <3> QED
      BY <1>3, <2>2, <3>2
  <2> QED
    BY <2>1, <2>2
<1>9. QED
  BY <1>1, <1>3, <1>5, <1>6, <1>8 DEF c

\* Which check-run a result sets.
LEMMA CheckIs ==
  /\ \A T, E : /\ Pushes(T, E).check # "success" /\ Tells(Pushes(T, E)).check # "success"
               /\ Quiet(T).check # "success"
  /\ \A T, c, E : Concludes(T, c, E).check = c
BY DEF Pushes, Tells, Quiet, Concludes, Result, None

\* A root agent has a state after it.
LEMMA AgentsLead ==
  ASSUME Straight, NoAgentLast, NEW p \in Units, ParentPath(p) = <<>>
  PROVE  NextSibling(p) # None
<1>1. /\ p \in DOMAIN Tree \ {<<>>} /\ NodeKind(p) = "agent" /\ IsThread(<<>>)
      /\ p = Child(<<>>, LastId(p)) /\ LastId(p) \in ChildIds(<<>>)
  BY UnitsAreAgents, NodesAreChildren DEF IsThread
<1>2. PICK k \in DOMAIN Children(<<>>) : Children(<<>>)[k] = LastId(p)
  BY <1>1 DEF ChildIds
<1>3. \A i \in DOMAIN Children(<<>>) : Children(<<>>)[i] = LastId(p) => i = k
  BY <1>1, <1>2, Distinct
<1>4. Index(p) = k
  BY <1>2, <1>3 DEF Index
<1>5. <<RootIds[k]>> = p /\ k \in DOMAIN RootIds
  BY <1>1, <1>2 DEF RootIds, Child
<1>6. k < Len(Children(<<>>))
  BY <1>1, <1>5 DEF NoAgentLast, RootIds
<1>7. /\ Children(<<>>) \in Seq(STRING \ {None}) /\ DOMAIN Children(<<>>) = 1 .. Len(Children(<<>>))
      /\ Len(Children(<<>>)) \in Nat
  BY TreeAssumption, EmptySeq DEF Children
<1>8. 1 + k \in DOMAIN Children(<<>>)
  BY <1>6, <1>7
<1>9. NextSibling(p) = Children(<<>>)[1 + k]
  BY <1>4, <1>6 DEF NextSibling, NodeKind, None
<1>10. QED
  BY <1>7, <1>8, <1>9

\* An attempt at a unit concludes no run as green where a state follows the root's agents.
LEMMA AdvanceNotGreen ==
  ASSUME Straight, NoAgentLast, NEW p \in Units, NEW S, NEW tag,
         NEW r \in AdvanceOutcomes(S, p, tag)
  PROVE  r.check # "success"
<1>1. /\ p \in DOMAIN Tree \ {<<>>} /\ ParentPath(p) \in DOMAIN Tree
      /\ Tree[ParentPath(p)].kind \in Containers
  BY UnitsAreAgents, NodesAreChildren
<1>2. \/ \E blocked : \E asked : r = Done(S, p, tag, blocked, asked)
      \/ r = Iterate(S, p, tag)
      \/ r = Failed(S, p, tag)
  BY AttemptEnds
<1>3. CASE r = Iterate(S, p, tag)
  BY <1>3, CheckIs DEF Iterate
<1>4. CASE r = Failed(S, p, tag)
  <2>1. \E T, E : r = Tells(Pushes(T, E))
    BY <1>4 DEF Failed
  <2> QED
    BY <2>1, CheckIs
<1>5. ASSUME NEW blocked, NEW asked, r = Done(S, p, tag, blocked, asked)
      PROVE  r.check # "success"
  <2> DEFINE T == WithState(S, p, tag, "done")
  <2>1. CASE NodeKind(ParentPath(p)) = "fanout"
    BY <1>5, <2>1, CheckIs DEF Done
  <2>2. CASE NodeKind(ParentPath(p)) = "sequence"
    <3>1. r = AdvanceCursor(T, p, asked)
      BY <1>5, <2>2 DEF Done
    <3> HIDE DEF T
    <3>2. \E V, E : r = Tells(Pushes(V, E)) \/ r = Pushes(V, E)
      BY <3>1 DEF AdvanceCursor
    <3> QED
      BY <3>2, CheckIs
  <2>3. CASE NodeKind(ParentPath(p)) \notin {"fanout", "sequence"}
    <3>1. ParentPath(p) = <<>>
      <4>1. ParentPath(p) # <<>> => Tree[ParentPath(p)].kind # "root"
        BY <1>1, TreeAssumption
      <4> QED
        BY <1>1, <2>3, <4>1 DEF NodeKind, Containers
    <3>2. NextSibling(p) # None
      BY <3>1, AgentsLead
    <3>3. r = AdvanceRoot(T, p, blocked)
      BY <1>5, <2>3 DEF Done
    <3> HIDE DEF T
    <3>4. (\E V, E : r = Tells(Pushes(V, E))) \/ (\E V, E : r = Concludes(V, "failure", E))
      BY <3>2, <3>3 DEF AdvanceRoot
    <3> QED
      BY <3>4, CheckIs
  <2> QED
    BY <2>1, <2>2, <2>3
<1>6. QED
  BY <1>2, <1>3, <1>4, <1>5

\* Nor does the planner where it enters a node.
LEMMA EnterNotGreen ==
  ASSUME NEW S, NEW p, NEW command, NEW r \in Enter(S, p, command)
  PROVE  r.check # "success"
<1>1. CASE NodeKind(p) = "gate"
  BY <1>1, CheckIs DEF Enter
<1>2. CASE NodeKind(p) # "gate"
  <2>1. PICK e \in Entries(S, p, command) : r = Result(e.store, e.seeded, None, {}, TRUE, e.legs)
    BY <1>2 DEF Enter
  <2> QED
    BY <2>1 DEF Result, None
<1>3. QED
  BY <1>1, <1>2

\* A script concludes a run as green that has passed its phases, and keeps it so.
Earns(S, r) ==
  /\ r.check = "success" => Won(S)
  /\ r.push /\ Won(S) => Won(r.store)

\* The instance is at its last station, and that is over.
LEMMA EndWins ==
  ASSUME NEW S, S[InstanceFile] # Missing, NEW k \in DOMAIN Children(<<>>),
         Children(<<>>)[k] = S[InstanceFile].phase, LeadsOn(<<>>, k, None),
         \/ NodeKind(Nth(<<>>, k)) \notin {"agent", "fanout"}
         \/ Reviewed(S, Nth(<<>>, k))
  PROVE  Won(S)
<1>1. IsThread(<<>>) /\ Children(<<>>) \in Seq(STRING \ {None})
  BY TreeAssumption, EmptySeq DEF IsThread, Children
<1>2. None \notin ChildIds(<<>>)
  BY <1>1 DEF ChildIds
<1>3. SUFFICES ASSUME NEW m \in DOMAIN Children(<<>>),
                      NodeKind(Nth(<<>>, m)) \in {"agent", "fanout"}
               PROVE  \/ Passed(S, <<>>, m)
                      \/ Children(<<>>)[m] = S[InstanceFile].phase /\ Reviewed(S, Nth(<<>>, m))
  BY DEF Won
<1>4. ~(k < m)
  BY <1>2, <1>3 DEF LeadsOn, Station, Stations
<1>5. m = k \/ m < k
  BY <1>1, <1>4
<1>6. QED
  BY <1>3, <1>5 DEF Passed, Stage

\* A script that does nothing.
LEMMA QuietEarns ==
  ASSUME NEW S
  PROVE  Earns(S, Quiet(S)) /\ ~Quiet(S).push
BY CheckIs, ResultIs DEF Earns

\* A join at the cursor that pushes.
LEMMA TopJoinPushEarns ==
  ASSUME GatesApart, Straight, NEW S, StoreOK(S), RootEntered(S), \A q \in Places(S) : Inside(S, q),
         NEW r, r = TopJoin(S), r.push
  PROVE  Earns(S, r)
<1> DEFINE inst == S[InstanceFile]
           a == <<inst.phase>>
           next == NextOver(a)
           T == r.store
<1>1. /\ inst # Missing
      /\ a \in DOMAIN Tree \ {<<>>} /\ NodeKind(a) = "fanout" /\ Thread(a) = <<>>
      /\ LastId(a) = inst.phase /\ Waits(S, a) /\ PlaceGroup(a) = <<"join", <<>>>>
      /\ AllTerminal(S, a, a)
      /\ DOMAIN T = Files /\ \A f \in Files : f # InstanceFile => T[f] = S[f]
      /\ T[InstanceFile] # Missing /\ T[InstanceFile].overrides = inst.overrides
      /\ ~r.runs
      /\ \/ /\ Clears(S, a) /\ next \in ChildIds(<<>>)
            /\ T[InstanceFile].phase = next /\ T[InstanceFile].label = next
            /\ r.emit = {Continue(<<next>>)}
         \/ /\ Clears(S, a) /\ next \notin ChildIds(<<>>)
            /\ T[InstanceFile].phase = inst.phase /\ r.emit = {}
         \/ /\ T[InstanceFile].phase = inst.phase /\ T[InstanceFile].label = "failed"
            /\ r.emit = {}
  BY TopJoinIs
<1>2. \E l \in ChildIds(a) : Present(S, Child(a, l))
  BY TopJoinIs
<1>3. r.check = "success" => Clears(S, a) /\ next \notin ChildIds(<<>>)
  BY TopJoinIs
<1>4. PICK k \in DOMAIN Children(<<>>) :
        Nth(<<>>, k) = a /\ Children(<<>>)[k] = inst.phase /\ LeadsOn(<<>>, k, next)
  BY TopJoinIs
<1> HIDE DEF a, next, T
<1>5. ASSUME r.check = "success" PROVE Won(S)
  <2>1. Clears(S, a) /\ next \notin ChildIds(<<>>)
    BY <1>5, <1>3
  <2>2. Reviewed(S, a)
    BY <1>1, <1>2, <2>1 DEF Reviewed, Closed
  <2>3. LeadsOn(<<>>, k, None)
    <3>1. IsThread(<<>>)
      BY DEF IsThread
    <3> QED
      BY <1>4, <2>1, <3>1, LeadsToEnd
  <2> QED
    BY <1>1, <1>4, <2>2, <2>3, EndWins
<1>6. ASSUME Won(S) PROVE Won(T)
  <2>1. \/ T[InstanceFile].phase = S[InstanceFile].phase
        \/ \E i \in DOMAIN Children(<<>>) :
             /\ Children(<<>>)[i] = S[InstanceFile].phase
             /\ T[InstanceFile].phase \in ChildIds(<<>>)
             /\ LeadsOn(<<>>, i, T[InstanceFile].phase)
    BY <1>1, <1>4
  <2>2. /\ DOMAIN T = Files /\ T[InstanceFile] # Missing
        /\ \A f \in Files \ Strays :
             f \notin {InstanceFile, NodeFile(<<S[InstanceFile].phase>>)} => T[f] = S[f]
    BY <1>1
  <2> QED
    BY <1>6, <2>1, <2>2, WonGoesOn
<1>7. QED
  BY <1>5, <1>6 DEF Earns, T

\* The join of a root fan-out.
LEMMA TopJoinEarns ==
  ASSUME GatesApart, Straight, NEW S, StoreOK(S), RootEntered(S), \A q \in Places(S) : Inside(S, q),
         NEW r, r = TopJoin(S)
  PROVE  Earns(S, r)
<1>1. r = Quiet(S) \/ r.push
  <2> DEFINE inst == S[InstanceFile]
             p == CurrentFanout(inst.phase)
             prefix == IF IsMultiphase THEN <<inst.phase>> ELSE p
             over == JoinsOver(<<>>, LastId(p))
             joins == IF over # <<>> THEN over
                      ELSE SelectSeq([i \in DOMAIN RootIds |-> <<RootIds[i]>>],
                                     LAMBDA q : NodeKind(q) = "join")
             policy == IF joins = <<>> THEN AllPolicy ELSE Tree[joins[1]].policy
             next == IF joins = <<>> THEN None ELSE Tree[joins[1]].next
             met == PolicyMet(S, p, prefix, policy)
             Shut(phase, label) == Write(S, InstanceFile,
               [inst EXCEPT !.joined = TRUE, !.phase = phase, !.label = label])
             c1 == Pushes(Shut(next, next), {Continue(<<next>>)})
             c2 == Concludes(Shut(inst.phase, "done"), "success", {})
             c3 == Concludes(Shut(inst.phase, "failed"), "failure", {})
  <2>1. TopJoin(S) =
          IF inst = Missing \/ inst.joined \/ ~AllTerminal(S, p, prefix) THEN Quiet(S)
          ELSE CASE met /\ next \in ChildIds(<<>>) -> c1
                 [] met /\ next \notin ChildIds(<<>>) -> c2
                 [] ~met -> c3
    BY DEF TopJoin
  <2>2. c1.push /\ c2.push /\ c3.push
    <3>1. \A U, E, c : Pushes(U, E).push /\ Concludes(U, c, E).push
      BY ResultIs
    <3> HIDE DEF Shut, next, inst
    <3> QED
      BY <3>1
  <2> HIDE DEF c1, c2, c3, met, next, inst, p, prefix
  <2> QED
    BY <2>1, <2>2
<1>2. CASE r = Quiet(S)
  BY <1>2, QuietEarns
<1>3. CASE r.push
  BY <1>3, TopJoinPushEarns
<1>4. QED
  BY <1>1, <1>2, <1>3

\* An override: the phase it passes was an agent.
LEMMA OverrideEarns ==
  ASSUME GatesApart, Straight, NEW S, StoreOK(S), \A q \in Places(S) : Inside(S, q),
         NEW r \in Override(S)
  PROVE  Earns(S, r)
<1> DEFINE inst == S[InstanceFile]
           a == <<inst.halted>>
           next == NextSibling(a)
<1>1. Read(S, InstanceFile) = inst
  BY FilesAre DEF Read, StoreOK
<1>2. CASE r = Quiet(S)
  BY <1>2, QuietEarns
<1>3. CASE r # Quiet(S)
  <2>1. /\ inst # Missing /\ inst.halted # None /\ next # None
        /\ \E T, E : r = Pushes(T, E)
    BY <1>1, <1>3 DEF Override
  <2>2. inst.halted \in RootAgents
    BY <2>1, InstanceValue, InstancesChange
  <2>3. a \in DOMAIN Tree \ {<<>>} /\ NodeKind(a) = "agent"
    BY <2>2, RootChildIs DEF RootAgents
  <2>4. Inside(S, a)
    BY <2>1, <2>3, PlaceIs DEF Waits
  <2>5. ~Won(S)
    BY <2>3, <2>4, WonAt
  <2> QED
    BY <2>1, <2>5, CheckIs DEF Earns
<1>4. QED
  BY <1>2, <1>3

\* An answer: the leg it moves is not over.
LEMMA AnswerEarns ==
  ASSUME GatesApart, Straight, NEW S, StoreOK(S), S[InstanceFile] # Missing,
         \A q \in Places(S) : Inside(S, q), NEW said, NEW r \in Answer(S, said)
  PROVE  Earns(S, r)
<1> DEFINE p == FindOpenGate(S, said.branch)
<1>1. CASE p = <<>>
  <2>1. r = Quiet(S)
    BY <1>1 DEF Answer
  <2> QED
    BY <2>1, QuietEarns
<1>2. CASE p # <<>>
  <2>1. \E T, E : r = Pushes(T, E)
    BY <1>2 DEF Answer
  <2>2. p \in OpenGates(S, said.branch)
    BY <1>2 DEF FindOpenGate
  <2> HIDE DEF p
  <2>3. /\ p \in LegGates /\ p \in DOMAIN Tree \ {<<>>} /\ NodeKind(p) = "gate" /\ ~IsRootChild(p)
        /\ S[NodeFile(p)] # Missing /\ NodeFile(p) \in DOMAIN S
    <3>1. p \in LegGates /\ p \in DOMAIN Tree /\ NodeKind(p) = "gate" /\ ~IsRootChild(p)
          /\ S[NodeFile(p)] # Missing
      BY <2>2, OpenGatesAre
    <3> QED
      BY <1>2, <3>1, FilesAre DEF StoreOK
  <2>4. S[NodeFile(p)].gate = "open"
    BY <2>2, <2>3 DEF OpenGates
  <2>5. Inside(S, p)
    BY <2>3, <2>4, PlaceIs DEF Waits, Present
  <2>6. ~Won(S)
    BY <2>3, <2>5, WonAt DEF IsRootChild
  <2> QED
    BY <2>1, <2>6, CheckIs DEF Earns
<1>3. QED
  BY <1>1, <1>2

\* The join of a fan-out in a leg: that leg is not over.
LEMMA NestedJoinEarns ==
  ASSUME GatesApart, Straight, NEW S, StoreOK(S), S[InstanceFile] # Missing,
         \A q \in Places(S) : Inside(S, q), NEW p \in NestedFanouts,
         S[JoinFile(p)] # Missing, NEW r, r = NestedJoin(S, p)
  PROVE  Earns(S, r)
<1>1. \/ r = Quiet(S)
      \/ ~S[JoinFile(p)].joined /\ \E T, E : r = Pushes(T, E)
  BY DEF NestedJoin
<1>2. CASE r = Quiet(S)
  BY <1>2, QuietEarns
<1>3. CASE ~S[JoinFile(p)].joined /\ \E T, E : r = Pushes(T, E)
  <2>1. p \in DOMAIN Tree \ {<<>>} /\ NodeKind(p) = "fanout" /\ Len(p) # 1 /\ Len(p) > 1
    <3>1. p \in DOMAIN Tree \ {<<>>} /\ NodeKind(p) = "fanout" /\ Len(p) # 1
      BY InLegIs DEF NestedFanouts
    <3> QED
      BY <3>1, LongFanouts
  <2>2. Inside(S, p)
    BY <1>3, <2>1, PlaceIs DEF Waits
  <2>3. ~Won(S)
    BY <2>1, <2>2, WonAt
  <2> QED
    BY <1>3, <2>3, CheckIs DEF Earns
<1>4. QED
  BY <1>1, <1>2, <1>3

\* The state after the k-th of the root.
LEMMA RootNext ==
  ASSUME Straight, NEW k \in DOMAIN Children(<<>>)
  PROVE  LET next == NextSibling(Nth(<<>>, k)) IN
         /\ next # None => next \in ChildIds(<<>>) /\ LeadsOn(<<>>, k, next)
         /\ next = None => LeadsOn(<<>>, k, None)
<1> DEFINE a == Nth(<<>>, k)
           next == NextSibling(a)
<1>1. IsThread(<<>>) /\ LastId(a) = Children(<<>>)[k] /\ ParentPath(a) = <<>>
  BY NthIs DEF IsThread
<1>2. \A i \in DOMAIN Children(<<>>) : Children(<<>>)[i] = LastId(a) => i = k
  BY <1>1, Distinct
<1>3. Index(a) = k
  BY <1>1, <1>2 DEF Index
<1>4. /\ Children(<<>>) \in Seq(STRING \ {None}) /\ DOMAIN Children(<<>>) = 1 .. Len(Children(<<>>))
      /\ Len(Children(<<>>)) \in Nat
  BY TreeAssumption, EmptySeq DEF Children
<1> HIDE DEF a
<1>5. NodeKind(<<>>) # "fanout"
  BY DEF NodeKind, None
<1>6. CASE k < Len(Children(<<>>))
  <2>1. next = Children(<<>>)[1 + k] /\ 1 + k \in DOMAIN Children(<<>>)
    BY <1>1, <1>3, <1>4, <1>6, <1>5 DEF NextSibling
  <2>2. next \in ChildIds(<<>>) /\ next # None
    BY <1>4, <2>1 DEF ChildIds
  <2>3. LeadsOn(<<>>, k, next)
    <3>1. k \in Nat /\ k < 1 + k /\ \A m \in k + 1 .. (1 + k) - 1 : FALSE
      BY <1>4
    <3> QED
      BY <2>1, <2>2, <3>1 DEF LeadsOn
  <2> QED
    BY <2>2, <2>3 DEF a
<1>7. CASE ~(k < Len(Children(<<>>)))
  <2>1. next = None
    BY <1>1, <1>3, <1>7 DEF NextSibling
  <2>2. None \notin ChildIds(<<>>)
    BY <1>4 DEF ChildIds
  <2>3. LeadsOn(<<>>, k, None)
    BY <1>4, <1>7, <2>2 DEF LeadsOn
  <2> QED
    BY <2>1, <2>3 DEF a
<1>8. QED
  BY <1>6, <1>7

\* Where the instance is, among the states of the root.
LEMMA PhaseIsNth ==
  ASSUME NEW S, StoreOK(S), S[InstanceFile] # Missing
  PROVE  \E k \in DOMAIN Children(<<>>) :
           /\ Children(<<>>)[k] = S[InstanceFile].phase
           /\ Nth(<<>>, k) = <<S[InstanceFile].phase>>
<1>1. S[InstanceFile].phase \in ChildIds(<<>>)
  BY InstanceValue, InstancesChange
<1>2. PICK k \in DOMAIN Children(<<>>) : Children(<<>>)[k] = S[InstanceFile].phase
  BY <1>1 DEF ChildIds
<1>3. QED
  BY <1>2 DEF Nth, Child

\* A decision at the gate of the root that pushes.
LEMMA ResolvePushEarns ==
  ASSUME GatesApart, Straight, NEW S, StoreOK(S),
         NEW decision \in {"approve", "request-changes", "reject"}, NEW said,
         NEW r \in ResolveGate(S, decision, said), r.push
  PROVE  (r.check = "success" => NextSibling(<<S[InstanceFile].phase>>) = None) => Earns(S, r)
<1> DEFINE inst == S[InstanceFile]
           a == <<inst.phase>>
           next == NextSibling(a)
           T == r.store
<1>1. /\ inst # Missing /\ NodeKind(a) = "gate" /\ S[NodeFile(a)] # Missing
      /\ S[NodeFile(a)].gate \in {"open", "changes_requested"}
      /\ a \in DOMAIN Tree \ {<<>>} /\ Thread(a) = <<>> /\ inst \in Instances
      /\ DOMAIN T = Files /\ T[InstanceFile] # Missing /\ T[NodeFile(a)] # Missing
      /\ \A f \in Files : f \notin {InstanceFile, NodeFile(a)} => T[f] = S[f]
      /\ T[InstanceFile].overrides = inst.overrides /\ ~r.runs
      /\ \/ /\ next # None /\ T[InstanceFile].phase = next /\ T[InstanceFile].label = next
            /\ T[NodeFile(a)].gate = "approved" /\ r.emit = {Continue(<<next>>)}
         \/ /\ next = None /\ T[InstanceFile].phase = inst.phase
            /\ T[NodeFile(a)].gate = "approved" /\ r.emit = {}
         \/ T[InstanceFile] = inst /\ r.emit = {}
         \/ /\ T[InstanceFile].phase = inst.phase /\ T[InstanceFile].label = "failed"
            /\ r.emit = {}
  BY ResolveIs
<1>2. SUFFICES ASSUME r.check = "success" => next = None PROVE Earns(S, r)
  OBVIOUS
<1>3. PICK k \in DOMAIN Children(<<>>) : Children(<<>>)[k] = inst.phase /\ Nth(<<>>, k) = a
  BY <1>1, PhaseIsNth
<1>4. /\ next # None => next \in ChildIds(<<>>) /\ LeadsOn(<<>>, k, next)
      /\ next = None => LeadsOn(<<>>, k, None)
  BY <1>3, RootNext
<1> HIDE DEF a, next, T
<1>5. r.check = "success" => Won(S)
  BY <1>1, <1>2, <1>3, <1>4, EndWins
<1>6. ASSUME Won(S) PROVE Won(T)
  <2>1. \/ T[InstanceFile].phase = S[InstanceFile].phase
        \/ \E i \in DOMAIN Children(<<>>) :
             /\ Children(<<>>)[i] = S[InstanceFile].phase
             /\ T[InstanceFile].phase \in ChildIds(<<>>)
             /\ LeadsOn(<<>>, i, T[InstanceFile].phase)
    BY <1>1, <1>3, <1>4
  <2>2. /\ DOMAIN T = Files /\ T[InstanceFile] # Missing
        /\ \A f \in Files \ Strays :
             f \notin {InstanceFile, NodeFile(<<S[InstanceFile].phase>>)} => T[f] = S[f]
    BY <1>1 DEF a
  <2> QED
    BY <1>6, <2>1, <2>2, WonGoesOn
<1>7. QED
  BY <1>5, <1>6 DEF Earns, T

\* A decision at the gate of the root.
LEMMA ResolveEarns ==
  ASSUME GatesApart, Straight, NEW S, StoreOK(S),
         NEW decision \in {"approve", "request-changes", "reject"}, NEW said,
         NEW r \in ResolveGate(S, decision, said)
  PROVE  Earns(S, r)
<1> DEFINE next == NextSibling(<<S[InstanceFile].phase>>)
<1>1. \/ r = Quiet(S)
      \/ \E V, E : r = Pushes(V, E) \/ r = Tells(Pushes(V, E)) \/ r = Concludes(V, "failure", E)
      \/ next = None /\ \E V : r = Concludes(V, "success", {})
  <2>1. Read(S, InstanceFile) = S[InstanceFile]
    BY FilesAre DEF Read, StoreOK
  <2> QED
    BY <2>1 DEF ResolveGate
<1> HIDE DEF next
<1>2. CASE r = Quiet(S)
  BY <1>2, QuietEarns
<1>3. CASE r # Quiet(S)
  <2>1. \A V, c, E : Pushes(V, E).push /\ Tells(Pushes(V, E)).push /\ Concludes(V, c, E).push
    BY ResultIs
  <2>2. r.push
    BY <1>1, <1>3, <2>1
  <2>3. r.check = "success" => next = None
    <3>1. "failure" # "success"
      OBVIOUS
    <3> QED
      BY <1>1, <1>3, <3>1, CheckIs
  <2>4. r.check = "success" => NextSibling(<<S[InstanceFile].phase>>) = None
    BY <2>3 DEF next
  <2> QED
    BY <2>2, <2>4, ResolvePushEarns
<1>4. QED
  BY <1>2, <1>3

\* A `continue` that enters a node.
LEMMA EnterEarns ==
  ASSUME GatesApart, Straight, NEW S, StoreOK(S), NEW p \in DOMAIN Tree \ {<<>>}, Inside(S, p),
         Arrived(S, p), NEW command, NEW r \in Enter(S, p, command)
  PROVE  Earns(S, r)
<1>1. r.check # "success"
  BY EnterNotGreen
<1>2. SUFFICES ASSUME Won(S) PROVE Won(r.store)
  BY <1>1 DEF Earns
<1>3. /\ p = <<S[InstanceFile].phase>> /\ NodeKind(p) # "agent"
      /\ NodeKind(p) = "fanout" => Reviewed(S, p)
  BY <1>2, WonAt
<1>4. NodeKind(p) # "fanout"
  <2> SUFFICES ASSUME NodeKind(p) = "fanout" PROVE FALSE
    OBVIOUS
  <2>1. PICK l \in ChildIds(p) : Present(S, Child(p, l))
    BY <1>3 DEF Reviewed
  <2>2. /\ Child(p, l) \in DOMAIN Tree /\ HasFile(Child(p, l)) /\ Above(p, Child(p, l))
    BY LeafIs DEF HasFile
  <2>3. NodeFile(Child(p, l)) \in Files \ Strays /\ NodeFile(Child(p, l))[2] = Child(p, l)
    BY <2>2, NotStray, FilePaths
  <2>4. Untouched(S, p)
    BY DEF Arrived, Units
  <2> QED
    BY <2>1, <2>2, <2>3, <2>4 DEF Untouched, Present
<1>5. r.store = Write(S, RootGateFile(p), OpenGate(p, {}))
  BY <1>3, <1>4, EnterIs
<1>6. RootGateFile(p) = NodeFile(<<S[InstanceFile].phase>>)
  <2>1. LastId(p) = S[InstanceFile].phase
    BY <1>3 DEF LastId
  <2> QED
    BY <2>1 DEF RootGateFile
<1> DEFINE T == r.store
<1>7. /\ DOMAIN T = Files
      /\ \A f \in Files : f # NodeFile(<<S[InstanceFile].phase>>) => T[f] = S[f]
  <2>1. DOMAIN S = Files
    BY DEF StoreOK
  <2> QED
    BY <1>5, <1>6, <2>1, WriteIs
<1>8. T[InstanceFile] = S[InstanceFile] /\ S[InstanceFile] # Missing
  BY <1>2, <1>7, FilesAre, FilePaths DEF Won
<1> HIDE DEF T
<1>9. Won(T)
  BY <1>2, <1>7, <1>8, WonGoesOn
<1>10. QED
  BY <1>9 DEF T

\* A merge: in the root it is the last state.
LEMMA MergeEarns ==
  ASSUME GatesApart, Straight, NEW S, StoreOK(S), NEW p \in DOMAIN Tree \ {<<>>}, Inside(S, p),
         NodeKind(p) = "merge", NEW r \in Merge(S, p)
  PROVE  Earns(S, r)
<1> DEFINE inst == S[InstanceFile]
<1>1. CASE r = Quiet(S)
  BY <1>1, QuietEarns
<1>2. CASE r # Quiet(S) /\ Len(p) > 1
  <2>1. \E T, E : r = Pushes(T, E)
    BY <1>2 DEF Merge
  <2>2. ASSUME Won(S) PROVE FALSE
    <3>1. Len(p) = 1
      BY <2>2, WonAt
    <3> QED
      BY <1>2, <3>1
  <2> QED
    BY <2>1, <2>2, CheckIs DEF Earns
<1>3. CASE r # Quiet(S) /\ ~(Len(p) > 1)
  <2>1. inst # Missing /\ p[1] = inst.phase /\ p = <<inst.phase>>
    <3>1. p \in Seq(STRING) /\ Len(p) \in Nat \ {0}
      BY NodesAreChildren
    <3>2. Len(p) = 1
      <4>1. ~(Len(p) > 1)
        BY <1>3
      <4>2. \A n \in Nat \ {0} : ~(n > 1) => n = 1
        OBVIOUS
      <4> QED
        BY <3>1, <4>1, <4>2, Zenon
    <3>3. Len(p) = 1 /\ p \in Seq(STRING)
      BY <3>1, <3>2
    <3> QED
      BY <3>3 DEF Inside
  <2> DEFINE i == [inst EXCEPT !.phase = LastId(p), !.joined = TRUE, !.label = "done"]
             T == Write(S, InstanceFile, i)
  <2>2. \E c : r = Concludes(T, c, {})
    BY <1>3, <2>1 DEF Merge
  <2>3. i # Missing /\ i.phase = inst.phase
    <3>1. LastId(p) = inst.phase
      BY <2>1 DEF LastId
    <3>2. inst \in Instances
      BY <2>1, InstanceValue
    <3> QED
      BY <3>1, <3>2, InstanceFields
  <2> HIDE DEF i
  <2>4. DOMAIN T = Files /\ \A f \in Files : T[f] = IF f = InstanceFile THEN i ELSE S[f]
    BY WriteIs DEF StoreOK
  <2>5. T[InstanceFile] = i
    BY <2>4, FilesAre
  <2> HIDE DEF T
  <2>6. r.store = T
    <3>1. \A V, c, E : Concludes(V, c, E).store = V
      BY DEF Concludes, Tells, Result
    <3> QED
      BY <2>2, <3>1
  <2>7. PICK k \in DOMAIN Children(<<>>) : Children(<<>>)[k] = inst.phase /\ Nth(<<>>, k) = p
    BY <2>1, PhaseIsNth
  <2>8. LeadsOn(<<>>, k, None)
    BY <2>7, TreeAssumption DEF Straight, Sequential
  <2>9. Won(S)
    BY <2>1, <2>7, <2>8, EndWins
  <2>10. Won(T)
    BY <2>3, <2>4, <2>5, <2>9, WonGoesOn
  <2> QED
    BY <2>6, <2>9, <2>10 DEF Earns
<1>4. QED
  BY <1>1, <1>2, <1>3

\* What a script makes of its clone earns the green it shows.
LEMMA OutcomesEarn ==
  ASSUME EngineInv, GatesApart, Straight, NoAgentLast, Threads,
         \A q \in AtAll : Arrived(store, q), NEW j \in jobs, j.stage = "ready",
         j.command # "start", NEW r \in Outcomes(store, j)
  PROVE  Earns(store, r)
<1>1. JobOK(j) /\ UntilStarted /\ StoreOK(store) /\ Unpushed(j)
  BY DEF EngineInv, Unpushed
<1>2. /\ \A q \in Places(store) : Inside(store, q)
      /\ \A q \in AtAll : q \in DOMAIN Tree \ {<<>>} /\ Inside(store, q)
  BY DEF Threads, AllInside
<1>3. CASE j.role = "leg"
  <2>1. j.path \in Units /\ j.group \in RunTags /\ j.path \in DOMAIN Tree \ {<<>>}
        /\ NodeKind(j.path) = "agent"
    BY <1>1, <1>3, UnitsAreAgents DEF JobOK
  <2>2. r \in AdvanceOutcomes(store, j.path, j.group)
    BY <1>3 DEF Outcomes
  <2>3. j.path \in At(j)
    BY <1>1, <1>3 DEF At
  <2>4. Inside(store, j.path)
    BY <1>2, <2>3, HoldersAre
  <2>5. ~Won(store)
    BY <1>1, <2>1, <2>4, WonAt
  <2>6. r.check # "success"
    BY <2>1, <2>2, AdvanceNotGreen
  <2> QED
    BY <2>5, <2>6 DEF Earns
<1>4. CASE j.role = "plan" /\ j.command = "continue"
  <2>1. r \in ContinueAt(store, j.path)
    BY <1>4 DEF Outcomes, Plan, Replies
  <2>2. j.path \in At(j)
    BY <1>1, <1>4 DEF At
  <2>3. j.path \in DOMAIN Tree \ {<<>>} /\ Arrived(store, j.path) /\ Inside(store, j.path)
    BY <1>2, <2>2, HoldersAre
  <2>4. CASE NodeKind(j.path) \in {"fanout", "agent", "gate"}
    <3>1. r \in Enter(store, j.path, "continue")
      BY <2>1, <2>4 DEF ContinueAt
    <3> QED
      BY <1>1, <2>3, <3>1, EnterEarns
  <2>5. CASE NodeKind(j.path) = "merge"
    <3>1. r \in Merge(store, j.path)
      BY <2>1, <2>5 DEF ContinueAt
    <3> QED
      BY <1>1, <2>3, <2>5, <3>1, MergeEarns
  <2>6. CASE NodeKind(j.path) \notin {"fanout", "agent", "gate", "merge"}
    <3>1. r = Quiet(store)
      BY <2>1, <2>6 DEF ContinueAt
    <3> QED
      BY <3>1, QuietEarns
  <2> QED
    BY <2>4, <2>5, <2>6
<1>5. CASE j.command \in Replies
  <2>1. j.role = "plan" /\ j.command # "continue" /\ j.command # "start" /\ j.role # "leg"
    BY <1>1, <1>5 DEF JobOK, None, Replies
  <2>2. r \in Plan(store, j.command, j.path, j.said)
    BY <2>1 DEF Outcomes
  <2>3. CASE j.command = "override"
    <3>1. r \in Override(store)
      BY <2>2, <2>3 DEF Plan
    <3> QED
      BY <1>1, <1>2, <3>1, OverrideEarns
  <2>4. CASE j.command \in {"approve", "request-changes", "reject"}
    <3>1. r \in ResolveGate(store, j.command, j.said)
      BY <2>2, <2>4 DEF Plan
    <3> QED
      BY <1>1, <2>4, <3>1, ResolveEarns
  <2>5. CASE j.command = "answer"
    <3>1. r \in Answer(store, j.said)
      BY <2>2, <2>5 DEF Plan
    <3>2. r = Quiet(store) \/ r.push
      <4>1. \A T, E : Pushes(T, E).push
        BY ResultIs
      <4> QED
        BY <3>1, <4>1 DEF Answer
    <3>3. CASE r = Quiet(store)
      BY <3>3, QuietEarns
    <3>4. CASE r.push
      <4>1. Started
        BY <1>1, <1>5, <2>1, <3>4, OutcomesOK
      <4> QED
        BY <1>1, <1>2, <3>1, <4>1, AnswerEarns DEF Started
    <3> QED
      BY <3>2, <3>3, <3>4
  <2> QED
    BY <1>5, <2>3, <2>4, <2>5 DEF Replies
<1>6. CASE j.role = "join"
  <2>1. /\ Started /\ j.role # "leg" /\ j.command # "continue"
        /\ j.path \in NestedFanouts \union {<<>>}
    BY <1>1, <1>6 DEF JobOK, UntilStarted, Threads, GroupsNamed
  <2>2. r = Join(store, j.path)
    BY <1>6 DEF Outcomes
  <2>3. j.path \in ProbedAll
    <3>1. j.path \in Probed(j)
      BY <1>6 DEF Probed
    <3> QED
      BY <3>1, HoldersNow
  <2>4. /\ j.path = <<>> => RootEntered(store)
        /\ j.path # <<>> => store[JoinFile(j.path)] # Missing
    BY <2>3 DEF Threads, ProbesOK
  <2>5. CASE j.path = <<>>
    <3>1. ~(Len(j.path) > 1)
      BY <2>5
    <3>2. r = TopJoin(store)
      BY <2>2, <3>1 DEF Join
    <3> QED
      BY <1>1, <1>2, <2>4, <2>5, <3>2, TopJoinEarns
  <2>6. CASE j.path # <<>>
    <3>1. j.path \in NestedFanouts
      BY <2>1, <2>6
    <3>2. Len(j.path) > 1
      <4>1. /\ j.path \in DOMAIN Tree \ {<<>>} /\ NodeKind(j.path) = "fanout"
            /\ Len(j.path) # 1
        BY <2>6, <3>1 DEF NestedFanouts, IsRootChild
      <4> QED
        BY <4>1, LongFanouts
    <3>3. r = NestedJoin(store, j.path)
      BY <2>2, <3>2 DEF Join
    <3> QED
      BY <1>1, <1>2, <2>1, <2>4, <2>6, <3>1, <3>3, NestedJoinEarns DEF Started
  <2> QED
    BY <2>5, <2>6
<1>7. QED
  BY <1>1, <1>3, <1>4, <1>5, <1>6 DEF JobOK

\* A job goes on, and what it shows or writes is earned.
LEMMA GoesOnGreen ==
  ASSUME Greens, NEW j \in jobs, NEW k, Becomes(j, k), Won(store) => Won(store'),
         check' = "success" => check = "success" \/ Won(store),
         k.stage = "edited" => /\ k.todo.check = "success" => Won(store)
                               /\ Won(k.clone) => Won(k.todo.store)
  PROVE  Greens'
<1>1. jobs' = (jobs \ {j}) \union {k}
  BY DEF Becomes
<1>2. check' = "success" => Won(store')
  BY DEF Greens
<1>3. ASSUME NEW i \in jobs', i.stage = "edited"
      PROVE  /\ i.todo.check = "success" => Won(store')
             /\ Won(i.clone) => Won(i.todo.store)
  BY <1>1, <1>3 DEF Greens
<1>4. QED
  BY <1>2, <1>3 DEF Greens

\* Jobs come and go, and none of them edits.
LEMMA ArrivalGreen ==
  ASSUME EngineInv, Greens, NEW J, NEW E, Schedule(J, E), \A e \in E : EventOK(e),
         \A i \in J : i.stage = "edited" => i \in jobs, Won(store) => Won(store'),
         check' = check
  PROVE  Greens'
<1> DEFINE pending == {w \in waiting : \A e \in E : Group(e) # Group(w)} \union E
           free == {w \in pending : ~Busy(J, Group(w))}
<1>1. jobs' = J \union {Queued(w) : w \in free}
  BY DEF Schedule
<1>2. \A w \in free : EventOK(w)
  BY DEF EngineInv
<1> HIDE DEF pending, free
<1>3. \A i \in jobs' : i.stage = "edited" => i \in jobs
  BY <1>1, <1>2, QueuedAt
<1>4. check' = "success" => Won(store')
  BY DEF Greens
<1>5. ASSUME NEW i \in jobs', i.stage = "edited"
      PROVE  /\ i.todo.check = "success" => Won(store')
             /\ Won(i.clone) => Won(i.todo.store)
  BY <1>3, <1>5 DEF Greens
<1>6. QED
  BY <1>4, <1>5 DEF Greens

\* A job leaves, with the events it dispatches.
LEMMA LeaveGreen ==
  ASSUME EngineInv, Greens, NEW j \in jobs, NEW E, Leave(j, E), store' = store, check' = check,
         \A e \in E : EventOK(e)
  PROVE  Greens'
<1> DEFINE J == jobs \ {j}
<1>1. Schedule(J, E) /\ \A i \in J : i \in jobs
  BY DEF Leave
<1> HIDE DEF J
<1>2. QED
  BY <1>1, ArrivalGreen

\* The steps of a job.
LEMMA ReportGreen ==
  ASSUME EngineInv, Greens, NEW j \in jobs, Report(j)
  PROVE  Greens'
<1> DEFINE k == [j EXCEPT !.todo.check = None]
<1>1. JobOK(j) /\ j.stage = "edited" /\ check' = j.todo.check /\ store' = store /\ Becomes(j, k)
  BY DEF EngineInv, Report
<1>2. DOMAIN j = JobFields /\ DOMAIN j.todo = ResultFields
  BY <1>1 DEF JobOK, TodoOK
<1>3. k.clone = j.clone /\ k.todo.store = j.todo.store /\ k.todo.check = None
  BY <1>2 DEF JobFields, ResultFields
<1>4. /\ j.todo.check = "success" => Won(store)
      /\ Won(j.clone) => Won(j.todo.store)
  BY <1>1 DEF Greens
<1>5. None # "success"
  BY DEF None
<1> HIDE DEF k
<1>6. QED
  BY <1>1, <1>3, <1>4, <1>5, GoesOnGreen

LEMMA MarkGreen ==
  ASSUME EngineInv, Greens, NEW j \in jobs, MarkInProgress(j)
  PROVE  Greens'
<1>1. PICK k : Becomes(j, k) /\ k.stage = "marked"
  BY MarkOK
<1>2. store' = store /\ (check' = "success" => check = "success")
  BY DEF MarkInProgress
<1>3. QED
  BY <1>1, <1>2, GoesOnGreen

LEMMA EndsGreen ==
  ASSUME EngineInv, Greens, NEW j \in jobs, FailPush(j) \/ FailComment(j) \/ Die(j)
  PROVE  Greens'
<1>1. Leave(j, {}) /\ store' = store /\ check' = check
  BY DEF FailPush, FailComment, Die
<1>2. QED
  BY <1>1, LeaveGreen

LEMMA FinishGreen ==
  ASSUME EngineInv, Greens, NEW j \in jobs, Finish(j)
  PROVE  Greens'
<1>1. Leave(j, j.todo.emit) /\ store' = store /\ check' = check /\ Landed(j)
  BY DEF Finish
<1>2. EmitOK(j.todo.emit)
  BY <1>1, LandedStarted DEF TodoOK
<1>3. QED
  BY <1>1, <1>2, LeaveGreen DEF EmitOK

\* Whoever comments.
LEMMA CommentGreen ==
  ASSUME EngineInv, Greens, NEW command, NEW said, Comment(command, said)
  PROVE  Greens'
<1>1. PICK e : EventOK(e) /\ Schedule(jobs, {e})
  BY CommentEvent
<1>2. store' = store /\ check' = check
  BY DEF Comment
<1>3. \A i \in jobs : i.stage = "edited" => i \in jobs
  OBVIOUS
<1>4. QED
  BY <1>1, <1>2, <1>3, ArrivalGreen

LEMMA StutterGreen == Greens /\ UNCHANGED vars => Greens'
<1> SUFFICES ASSUME Greens, UNCHANGED <<store, jobs, check>>
             PROVE  Greens'
  BY DEF vars
<1>1. QED
  BY DEF Greens

\* The legs start; the second push only records the comment.
LEMMA StartLegsGreen ==
  ASSUME EngineInv, GatesApart, Straight, Greens, NEW j \in jobs, StartLegs(j) \/ StartLegsWithComment(j)
  PROVE  Greens'
<1> DEFINE J == Dispatched(j)
<1>1. Schedule(J, {}) /\ check' = check
  BY DEF StartLegs, StartLegsWithComment
<1>2. \A i \in J : i \in jobs \/ \E q \in j.todo.legs : i = Leg(j.group, q)
  BY DEF Dispatched
<1>3. \A q : Leg(j.group, q).stage = "ready"
  BY DEF Leg, Job
<1>4. \A i \in J : i.stage = "edited" => i \in jobs
  BY <1>2, <1>3
<1>5. Won(store) => Won(store')
  <2>1. CASE StartLegs(j)
    BY <2>1 DEF StartLegs
  <2>2. CASE StartLegsWithComment(j)
    <3> SUFFICES ASSUME Won(store) PROVE Won(store')
      OBVIOUS
    <3>1. /\ store' = [store EXCEPT ![InstanceFile].comment = comments + 1]
          /\ StoreOK(store) /\ InstanceFile \in Files
      BY <2>2, FilesAre DEF StartLegsWithComment, EngineInv
    <3>2. Started /\ StoreOK(store') /\ store'[InstanceFile] # Missing
      BY <2>2, CommentRecorded DEF Started
    <3>3. store[InstanceFile] \in Instances /\ DOMAIN store = Files /\ DOMAIN store' = Files
      BY <3>1, <3>2, InstanceValue DEF StoreOK, Started
    <3>4. store'[InstanceFile] = [store[InstanceFile] EXCEPT !.comment = comments + 1]
          /\ \A f \in Files \ {InstanceFile} : store'[f] = store[f]
      BY <3>1, <3>3
    <3>5. \A i \in Instances : \A n : [i EXCEPT !.comment = n].phase = i.phase
      BY InstanceFields
    <3>6. store'[InstanceFile].phase = store[InstanceFile].phase
      BY <3>3, <3>4, <3>5
    <3> QED
      BY <3>1, <3>2, <3>3, <3>4, <3>6, WonGoesOn
  <2> QED
    BY <2>1, <2>2
<1> HIDE DEF J
<1>6. QED
  BY <1>1, <1>4, <1>5, ArrivalGreen

\* A push brings what the clone has passed to the branch, where the root is where it was.
LEMMA PushGreen ==
  ASSUME EngineInv, OneStart, used["start"] <= 1, GatesApart, Straight, Threads, Greens,
         NEW j \in jobs, Push(j)
  PROVE  Greens'
<1> DEFINE T == j.todo.store
           C == j.clone
           V == store'
<1>1. PICK t : PushesAlone(j, t)
  BY PushesCourse
<1>2. /\ Agree(T, V, t)
      /\ DOMAIN store = Files /\ DOMAIN V = Files /\ DOMAIN T = Files
      /\ T[InstanceFile] # Missing /\ V[InstanceFile] # Missing
  BY <1>1, PushContext
<1>3. /\ IsThread(t) /\ (t # <<>> => Inside(store, t)) /\ Synced(C, t)
  BY <1>1 DEF PushesAlone, ByItself
<1>4. /\ StoreOK(store) /\ StoreOK(T) /\ StoreOK(C) /\ DOMAIN C = Files /\ j.stage = "edited"
  BY DEF Push, Pushing, EngineInv, JobOK, TodoOK, StoreOK
<1>5. Won(C) => Won(T)
  BY <1>4 DEF Greens
<1> HIDE DEF T, C, V
<1>6. Won(store) => Won(V)
  <2> SUFFICES ASSUME Won(store) PROVE Won(V)
    OBVIOUS
  <2>1. t = <<>>
    <3> SUFFICES ASSUME t # <<>> PROVE FALSE
      OBVIOUS
    <3>1. t \in DOMAIN Tree \ {<<>>} /\ Inside(store, t) /\ IsLeg(t)
      BY <1>3, ThreadsAre
    <3>2. t = <<store[InstanceFile].phase>> /\ Thread(t) = <<>> /\ Len(t) = 1
      BY <1>4, <3>1, WonAt
    <3>3. ParentPath(t) = <<>>
      <4>1. Len(t) - 1 = 0
        BY <3>2
      <4>2. ParentPath(t) = Prefix(t, Len(t) - 1) /\ Len(ParentPath(t)) = Len(t) - 1
            /\ ParentPath(t) \in Seq(STRING)
        BY <3>1, NodesAreChildren
      <4> QED
        BY <4>1, <4>2, EmptySeq
    <3> QED
      BY <3>1, <3>3 DEF IsLeg, NodeKind, None
  <2>2. \A f \in Files \ Strays : store[f] = C[f] /\ V[f] = T[f]
    BY <1>2, <1>3, <2>1, FilesAt, AboveOrder DEF Agree, Synced
  <2>3. /\ store[InstanceFile] = C[InstanceFile] /\ V[InstanceFile] = T[InstanceFile]
        /\ store[InstanceFile] # Missing
    BY <2>2, NotStray DEF Won
  <2>4. Won(C)
    BY <1>4, <2>2, <2>3, WonGoesOn
  <2>5. Won(T)
    BY <1>5, <2>4
  <2> QED
    BY <1>2, <1>4, <2>2, <2>3, <2>5, WonGoesOn
<1>7. PICK k : Becomes(j, k) /\ k.stage = "pushed"
  <2>1. [j EXCEPT !.stage = "pushed", !.clone = Rebased(j)].stage = "pushed"
    BY DEF EngineInv, JobOK, JobFields
  <2> QED
    BY <2>1 DEF Push
<1>8. check' = check
  BY DEF Push
<1>9. QED
  BY <1>6, <1>7, <1>8, GoesOnGreen DEF V

\* The start concludes nothing, and finds no instance.
LEMMA StartGreen ==
  ASSUME EngineInv, OneStart, used["start"] <= 1, Greens, NEW j \in jobs, Execute(j),
         j.command = "start"
  PROVE  Greens'
<1>1. PICK r \in Outcomes(store, j) : \E k : Executed(j, r, k)
  BY ExecuteIs
<1>2. PICK k : Executed(j, r, k)
  BY <1>1
<1>3. UNCHANGED <<store, check>> /\ j.stage = "ready" /\ StoreOK(store) /\ JobOK(j)
  BY DEF Execute, EngineInv
<1>4. Becomes(j, k) /\ k.clone = store
  BY <1>2 DEF Executed
<1>5. j.role = "plan" /\ ~Started
  BY <1>3 DEF JobOK, OneStart, StartsOnce, EngineInv, UntilStarted, None
<1>6. r \in EnterRoot(store, "start")
  BY <1>5 DEF Outcomes, Plan
<1>7. r.check # "success"
  BY <1>6, EnterNotGreen DEF EnterRoot
<1>8. k.todo.check = r.check
  <2>1. ResultOK(store, r)
    BY OutcomesOK
  <2>2. CASE r.tells /\ NeedsComment(r.store)
    <3>1. k.todo = [r EXCEPT !.store[InstanceFile].comment = comments + 1]
      BY <1>2, <2>2 DEF Executed
    <3> QED
      BY <2>1, <3>1 DEF ResultOK, ResultFields
  <2>3. CASE ~(r.tells /\ NeedsComment(r.store))
    BY <1>2, <2>3 DEF Executed
  <2> QED
    BY <2>2, <2>3
<1>9. ~Won(store)
  BY <1>5 DEF Won, Started
<1>10. QED
  BY <1>3, <1>4, <1>7, <1>8, <1>9, GoesOnGreen

\* Every other script.
LEMMA ExecuteGreen ==
  ASSUME EngineInv, CommentInv, used["start"] <= 1, used["redelivery"] = 0,
         GatesApart, Straight, NoAgentLast, Threads, Courses, Greens,
         NEW j \in jobs, Execute(j), j.command # "start"
  PROVE  Greens'
<1>1. PICK r \in Outcomes(store, j) : \E k : Executed(j, r, k)
  BY ExecuteIs
<1>2. PICK k : Executed(j, r, k)
  BY <1>1
<1>3. UNCHANGED <<store, check>> /\ j.stage = "ready"
  BY DEF Execute
<1>4. Becomes(j, k) /\ k.clone = store
  BY <1>2 DEF Executed
<1>5. k.todo = r
  BY <1>2, <1>3, NotCreated DEF Executed
<1>6. Earns(store, r)
  BY <1>3, OutcomesEarn DEF Courses
<1>7. Won(store) => Won(r.store)
  <2>1. r.push \/ r.store = store
    BY OutcomesOK DEF ResultOK
  <2> QED
    BY <1>6, <2>1 DEF Earns
<1>8. r.check = "success" => Won(store)
  BY <1>6 DEF Earns
<1>9. QED
  BY <1>3, <1>4, <1>5, <1>7, <1>8, GoesOnGreen

\* It is inductive.
LEMMA GreenNext ==
  EngineInv /\ OneStart /\ CommentInv /\ ThreadInv /\ CourseInv /\ GreenInv /\ [Next]_vars =>
    GreenInv'
<1> SUFFICES ASSUME EngineInv, OneStart, CommentInv, ThreadInv, CourseInv, GreenInv, [Next]_vars,
                    PullRequest, GatesApart, Straight, NoAgentLast,
                    used'["start"] <= 1, used'["redelivery"] = 0
             PROVE  Greens'
  BY DEF GreenInv, Calm
<1>1. used["start"] <= 1 /\ used["redelivery"] = 0
  BY RegimeBefore
<1>2. Threads /\ Courses /\ Greens
  BY <1>1 DEF ThreadInv, CourseInv, GreenInv, Calm
<1>3. CASE Work
  <2>1. PICK j \in jobs : Step(j)
    BY <1>3 DEF Work
  <2>2. CASE Execute(j)
    BY <1>1, <1>2, <2>2, StartGreen, ExecuteGreen
  <2>3. CASE Report(j)
    BY <1>2, <2>3, ReportGreen
  <2>4. CASE Push(j)
    BY <1>1, <1>2, <2>4, PushGreen
  <2>5. CASE FailPush(j) \/ FailComment(j)
    BY <1>2, <2>5, EndsGreen
  <2>6. CASE Finish(j)
    BY <1>2, <2>6, FinishGreen
  <2>7. CASE MarkInProgress(j)
    BY <1>2, <2>7, MarkGreen
  <2>8. CASE StartLegs(j) \/ StartLegsWithComment(j)
    BY <1>2, <2>8, StartLegsGreen
  <2> QED
    BY <2>1, <2>2, <2>3, <2>4, <2>5, <2>6, <2>7, <2>8 DEF Step
<1>4. CASE \E command \in Commands : \E said \in SaidWith(command) : Comment(command, said)
  BY <1>2, <1>4, CommentGreen
<1>5. CASE \E p \in DOMAIN Tree \ {<<>>} : Redeliver(p)
  <2>1. Use("redelivery")
    BY <1>5 DEF Redeliver
  <2> QED
    BY <1>1, <2>1, UseOK DEF Bounds
<1>6. CASE \E j \in jobs : Die(j)
  BY <1>2, <1>6, EndsGreen
<1>7. CASE UNCHANGED vars
  BY <1>2, <1>7, StutterGreen
<1>8. QED
  BY <1>3, <1>4, <1>5, <1>6, <1>7 DEF Next

LEMMA InitGreen == Init => GreenInv
<1> SUFFICES ASSUME Init PROVE Greens
  BY DEF GreenInv
<1>1. jobs = {} /\ check # "success"
  BY DEF Init, None
<1>2. QED
  BY <1>1 DEF Greens

LEMMA GreensKept == Spec => [](CourseInv /\ GreenInv)
BY InitThreads, ThreadNext, InitOneStart, OneStartNext, InitComment, CommentNext, InitCourse,
   CourseNext, InitGreen, GreenNext, EngineInvariant, PTL DEF Spec

\* The aggregate check-run of a calm run is green only when every phase is finished, in a
\* protocol whose last state is no agent: the script that would conclude it sees them all
\* passed, and no push takes that back (do_join, do_merge, resolve_gate).
THEOREM GreenIsDeserved == Spec => [](Calm /\ Straight /\ NoAgentLast => GreenIsEarned)
<1>1. CourseInv /\ GreenInv => (Calm /\ Straight /\ NoAgentLast => GreenIsEarned)
  <2> SUFFICES ASSUME Courses, Greens, check = "success", NEW id \in PhaseIds
               PROVE  PhaseFinished(id)
    BY DEF CourseInv, GreenInv, GreenIsEarned
  <2>1. RootIds = Children(<<>>) /\ IsThread(<<>>) /\ <<>> \in DOMAIN Tree
    BY TreeAssumption DEF RootIds, IsThread
  <2>2. PICK k \in DOMAIN RootIds : RootIds[k] = id
    BY <2>1 DEF PhaseIds, ChildIds
  <2>3. Won(store)
    BY DEF Greens
  <2>4. Nth(<<>>, k) = <<id>> /\ NodeKind(Nth(<<>>, k)) \in {"agent", "fanout"}
    BY <2>1, <2>2 DEF Nth, Child, PhaseIds
  <2>5. Passed(store, <<>>, k) \/ Reviewed(store, Nth(<<>>, k))
    BY <2>1, <2>3, <2>4 DEF Won
  <2>6. InOrder(store, <<>>, k)
    BY <2>1, <2>3 DEF Courses, Course, OnCourse, ThreadFile, Won
  <2>7. Finished(store, Nth(<<>>, k))
    <3>1. CASE Passed(store, <<>>, k)
      BY <2>6, <3>1 DEF InOrder
    <3>2. CASE Reviewed(store, Nth(<<>>, k))
      BY <3>2 DEF Reviewed, Finished
    <3> QED
      BY <2>5, <3>1, <3>2
  <2> QED
    BY <2>2, <2>7, PhaseIsFinished
<1>2. QED
  BY <1>1, GreensKept, PTL

-----------------------------------------------------------------------------
(* The gates legs have come to are open. *)

\* The agent before a gate opens it.  What a leg goes on to from a gate, or from a
\* barrier, is entered by next.py, which opens no gate of a leg (README, "In gates").
GatesAttended ==
  /\ \A g \in LegGates : Child(ParentPath(g), NextSibling(g)) \notin LegGates
  /\ \A p \in NestedFanouts : Child(ParentPath(p), NextOver(p)) \notin LegGates

\* A leg that is at gate g finds it open.
Opened(S, g) ==
  LET cursor == S[NodeFile(ParentPath(g))] IN
  cursor # Missing /\ cursor.state \notin Terminal /\ cursor.sub_state = LastId(g) =>
    S[NodeFile(g)] # Missing /\ S[NodeFile(g)].gate = "open"
AllOpened(S) == \A g \in LegGates : Opened(S, g)

Gates ==
  /\ AllOpened(store)
  /\ \A j \in jobs : Editing(j) => AllOpened(j.todo.store)

GatesInv == Calm /\ GatesAttended => Gates

LEMMA LegGatesAre ==
  ASSUME NEW g \in LegGates
  PROVE  LET c == ParentPath(g) IN
         /\ g \in DOMAIN Tree \ {<<>>} /\ NodeKind(g) = "gate" /\ NodeFile(g) \in Files
         /\ c \in DOMAIN Tree \ {<<>>} /\ NodeKind(c) = "sequence" /\ NodeFile(c) \in Files
         /\ IsLeg(c) /\ Len(c) # 1 /\ Len(g) # 1 /\ ~Above(g, c)
         /\ g = Child(c, LastId(g)) /\ LastId(g) # None
<1> DEFINE c == ParentPath(g)
<1>1. g \in DOMAIN Tree \ {<<>>} /\ IsThread(c) /\ c # <<>> /\ c \in DOMAIN Tree /\ Len(g) # 1
  BY InLegIs
<1>2. NodeKind(g) = "gate"
  BY DEF LegGates
<1>3. /\ g = Child(c, LastId(g)) /\ LastId(g) # None /\ Tree[c].kind \in Containers
      /\ g \in Seq(STRING) /\ Len(g) \in Nat /\ Len(c) = Len(g) - 1
  BY <1>1, NodesAreChildren
<1>4. IsLeg(c) /\ HasFile(c)
  BY <1>1, ThreadsAre
<1>5. NodeKind(c) = "sequence"
  BY <1>1, <1>3, <1>4, LegsKind DEF NodeKind, Containers
<1>6. Len(c) # 1
  <2>1. Len(c) > 1 /\ Len(c) \in Nat
    BY <1>4, LegsParent
  <2> QED
    BY <2>1
<1>7. ~Above(g, c)
  BY <1>3 DEF Above
<1>8. QED
  BY <1>1, <1>2, <1>3, <1>4, <1>5, <1>6, <1>7, FilesAre

\* The files no leg that is at a gate depends on.
Plain(f) == \A g \in LegGates : f # NodeFile(g) /\ f # NodeFile(ParentPath(g))

LEMMA PlainAre ==
  /\ \A f : f[1] # "node" => Plain(f)
  /\ \A p : NodeKind(p) = "agent" => Plain(NodeFile(p))
  /\ \A p : Len(p) = 1 => Plain(NodeFile(p))
  /\ Plain(InstanceFile)
  /\ \A p : Plain(JoinFile(p)) /\ Plain(ManifestFile(p)) /\ Plain(AnswersFile(p))
<1>1. ASSUME NEW f, f[1] # "node" PROVE Plain(f)
  BY <1>1, FilePaths DEF Plain
<1>2. ASSUME NEW p, NodeKind(p) = "agent" \/ Len(p) = 1 PROVE Plain(NodeFile(p))
  <2> SUFFICES ASSUME NEW g \in LegGates, p = g \/ p = ParentPath(g) PROVE FALSE
    BY FilePaths DEF Plain
  <2> QED
    BY <1>2, LegGatesAre
<1>3. QED
  BY <1>1, <1>2, FilePaths

\* What edits a leg's cursor and the gates it leads to is right if it is so there.
LEMMA LegEdit ==
  ASSUME NEW S, AllOpened(S), NEW T, NEW leg, NodeKind(leg) = "sequence",
         \A f \in Files : \/ T[f] = S[f] \/ Plain(f) \/ f = NodeFile(leg)
                          \/ \E g \in LegGates : ParentPath(g) = leg /\ f = NodeFile(g),
         \A g \in LegGates : ParentPath(g) = leg => Opened(T, g)
  PROVE  AllOpened(T)
<1> SUFFICES ASSUME NEW g \in LegGates, ParentPath(g) # leg PROVE Opened(T, g)
  BY DEF AllOpened
<1> DEFINE c == ParentPath(g)
<1>1. NodeKind(g) = "gate" /\ NodeKind(c) = "sequence" /\ NodeFile(g) \in Files /\ NodeFile(c) \in Files
  BY LegGatesAre
<1>2. ~Plain(NodeFile(g)) /\ ~Plain(NodeFile(c))
  BY DEF Plain
<1>3. T[NodeFile(g)] = S[NodeFile(g)]
  <2>1. NodeFile(g) # NodeFile(leg)
    BY <1>1, FilePaths
  <2>2. \A h \in LegGates : ParentPath(h) = leg => NodeFile(g) # NodeFile(h)
    BY FilePaths
  <2> QED
    BY <1>1, <1>2, <2>1, <2>2
<1>4. T[NodeFile(c)] = S[NodeFile(c)]
  <2>1. NodeFile(c) # NodeFile(leg)
    BY FilePaths
  <2>2. \A h \in LegGates : NodeFile(c) # NodeFile(h)
    <3>1. \A h \in LegGates : NodeKind(h) = "gate"
      BY DEF LegGates
    <3> QED
      BY <1>1, <3>1, FilePaths
  <2> QED
    BY <1>1, <1>2, <2>1, <2>2
<1>5. Opened(S, g)
  BY DEF AllOpened
<1>6. QED
  BY <1>3, <1>4, <1>5 DEF Opened

LEMMA PlainEdit ==
  ASSUME NEW S, AllOpened(S), NEW T, \A f \in Files : T[f] = S[f] \/ Plain(f)
  PROVE  AllOpened(T)
<1> SUFFICES ASSUME NEW g \in LegGates PROVE Opened(T, g)
  BY DEF AllOpened
<1>1. /\ NodeFile(g) \in Files /\ NodeFile(ParentPath(g)) \in Files
      /\ ~Plain(NodeFile(g)) /\ ~Plain(NodeFile(ParentPath(g)))
  BY LegGatesAre DEF Plain
<1>2. T[NodeFile(g)] = S[NodeFile(g)] /\ T[NodeFile(ParentPath(g))] = S[NodeFile(ParentPath(g))]
  BY <1>1
<1>3. QED
  BY <1>2 DEF AllOpened, Opened

\* The cursor of a leg is moved to a node that is no gate, or ended.
LEMMA CursorEdit ==
  ASSUME NEW S, AllOpened(S), NEW T, NEW leg, NodeKind(leg) = "sequence",
         \A f \in Files : \/ T[f] = S[f] \/ Plain(f) \/ f = NodeFile(leg)
                          \/ \E g \in LegGates : ParentPath(g) = leg /\ f = NodeFile(g),
         \/ T[NodeFile(leg)].state \in Terminal
         \/ Child(leg, T[NodeFile(leg)].sub_state) \notin LegGates
  PROVE  AllOpened(T)
<1>1. ASSUME NEW g \in LegGates, ParentPath(g) = leg PROVE Opened(T, g)
  <2>1. g = Child(leg, LastId(g))
    BY <1>1, LegGatesAre
  <2>2. \/ T[NodeFile(ParentPath(g))].state \in Terminal
        \/ T[NodeFile(ParentPath(g))].sub_state # LastId(g)
    BY <1>1, <2>1
  <2> QED
    BY <2>2 DEF Opened
<1>2. QED
  BY <1>1, LegEdit

\* What a script makes of a leg: it ends, or goes on to a node that is no gate.
LEMMA LegEnds ==
  ASSUME NEW S, StoreOK(S), AllOpened(S), NEW leg, NodeKind(leg) = "sequence", NEW T, DOMAIN T = Files,
         T[NodeFile(leg)] = S[NodeFile(leg)], \A f \in Files : T[f] = S[f] \/ Plain(f),
         NEW s \in Terminal
  PROVE  AllOpened(Write(T, NodeFile(leg), [CursorAt(T, leg) EXCEPT !.state = s]))
<1> DEFINE c == [CursorAt(T, leg) EXCEPT !.state = s]
           U == Write(T, NodeFile(leg), c)
<1>1. leg \in DOMAIN Tree /\ NodeFile(leg) \in Files
  BY FilesAre DEF NodeKind, None
<1>2. c.state = s
  <2>1. CASE T[NodeFile(leg)] = Missing
    BY <2>1 DEF CursorAt, Cursor
  <2>2. CASE T[NodeFile(leg)] # Missing
    <3>1. NodeOK(leg, S[NodeFile(leg)])
      BY <1>1, <2>2, NodeValue
    <3>2. "state" \in DOMAIN S[NodeFile(leg)]
      BY <3>1 DEF NodeOK
    <3> QED
      BY <2>2, <3>2 DEF CursorAt
  <2> QED
    BY <2>1, <2>2
<1> HIDE DEF c
<1>3. DOMAIN U = Files /\ \A f \in Files : U[f] = IF f = NodeFile(leg) THEN c ELSE T[f]
  BY WriteIs
<1> HIDE DEF U
<1>4. AllOpened(U)
  BY <1>1, <1>2, <1>3, CursorEdit
<1>5. QED
  BY <1>4 DEF U, c

LEMMA LegMoves ==
  ASSUME NEW S, AllOpened(S), NEW leg, NodeKind(leg) = "sequence", NEW T, DOMAIN T = Files,
         \A f \in Files : \/ T[f] = S[f] \/ Plain(f)
                          \/ \E g \in LegGates : ParentPath(g) = leg /\ f = NodeFile(g),
         NEW s, NEW id, s \in Terminal \/ Child(leg, id) \notin LegGates
  PROVE  AllOpened(Write(T, NodeFile(leg), Cursor(s, id)))
<1> DEFINE c == Cursor(s, id)
           U == Write(T, NodeFile(leg), c)
<1>1. leg \in DOMAIN Tree /\ NodeFile(leg) \in Files
  BY FilesAre DEF NodeKind, None
<1>2. c.state = s /\ c.sub_state = id
  BY DEF Cursor
<1> HIDE DEF c
<1>3. DOMAIN U = Files /\ \A f \in Files : U[f] = IF f = NodeFile(leg) THEN c ELSE T[f]
  BY WriteIs
<1> HIDE DEF U
<1>4. AllOpened(U)
  BY <1>1, <1>2, <1>3, CursorEdit
<1>5. QED
  BY <1>4 DEF U, c

\* advance.py opens the gate it moves a leg to.
LEMMA GateOpens ==
  ASSUME NEW S, AllOpened(S), NEW leg, NodeKind(leg) = "sequence", NEW T, DOMAIN T = Files,
         \A f \in Files : T[f] = S[f] \/ Plain(f),
         NEW s, NEW id, Child(leg, id) \in LegGates, NEW asked
  PROVE  AllOpened(Write(Write(T, NodeFile(leg), Cursor(s, id)), NodeFile(Child(leg, id)),
                         OpenGate(Child(leg, id), asked)))
<1> DEFINE q == Child(leg, id)
           c == Cursor(s, id)
           v == OpenGate(q, asked)
           U == Write(T, NodeFile(leg), c)
           V == Write(U, NodeFile(q), v)
<1>1. leg \in DOMAIN Tree /\ NodeFile(leg) \in Files /\ leg \in Seq(STRING)
  BY FilesAre, TreeAssumption DEF NodeKind, None
<1>2. c.sub_state = id /\ v # Missing /\ v.gate = "open"
  <2>1. DOMAIN v = GateFields /\ v.gate = "open"
    BY DEF OpenGate, GateFields
  <2> QED
    BY <2>1, InstanceFields DEF Cursor, GateFields
<1>3. q \in LegGates /\ q \in DOMAIN Tree \ {<<>>} /\ NodeFile(q) \in Files /\ NodeKind(q) = "gate"
  BY LegGatesAre
<1>4. ParentPath(q) = leg /\ NodeFile(q) # NodeFile(leg)
  <2>1. q = Append(leg, id) /\ q \in Seq(STRING)
    BY <1>3, NodesAreChildren DEF Child
  <2>2. q = Append(leg, id) /\ Len(q) = Len(leg) + 1 /\ id \in STRING
    <3>1. Len(q) = Len(leg) + 1 /\ q[Len(leg) + 1] = id
      BY <1>1, <2>1
    <3>2. Len(leg) + 1 \in 1 .. Len(q)
      BY <1>1, <3>1
    <3> QED
      BY <2>1, <3>1, <3>2
  <2>3. ParentPath(q) = leg
    BY <1>1, <2>2, AppendProperties, SubSeqProperties DEF ParentPath
  <2> QED
    BY <1>3, <2>3, FilePaths
<1> HIDE DEF c, v
<1>5. DOMAIN U = Files /\ \A f \in Files : U[f] = IF f = NodeFile(leg) THEN c ELSE T[f]
  BY WriteIs
<1> HIDE DEF U, q
<1>6. DOMAIN V = Files /\ \A f \in Files : V[f] = IF f = NodeFile(q) THEN v ELSE U[f]
  BY <1>5, WriteIs
<1> HIDE DEF V
<1>7. ASSUME NEW g \in LegGates, ParentPath(g) = leg PROVE Opened(V, g)
  <2>1. CASE g = q
    BY <1>2, <1>3, <1>6, <2>1 DEF Opened
  <2>2. CASE g # q
    <3>1. g = Child(leg, LastId(g))
      BY <1>7, LegGatesAre
    <3>2. LastId(g) # id
      BY <2>2, <3>1 DEF q
    <3>3. V[NodeFile(leg)] = c
      BY <1>1, <1>4, <1>5, <1>6
    <3> QED
      BY <1>2, <1>7, <3>2, <3>3 DEF Opened
  <2> QED
    BY <2>1, <2>2
<1>8. \A f \in Files : \/ V[f] = S[f] \/ Plain(f) \/ f = NodeFile(leg)
                       \/ \E g \in LegGates : ParentPath(g) = leg /\ f = NodeFile(g)
  BY <1>3, <1>4, <1>5, <1>6
<1>9. AllOpened(V)
  BY <1>7, <1>8, LegEdit
<1>10. QED
  BY <1>9 DEF V, U, q, c, v

LEMMA AdvanceOpens ==
  ASSUME NEW S, StoreOK(S), AllOpened(S), NEW p \in Units, NEW tag,
         NEW r \in AdvanceOutcomes(S, p, tag)
  PROVE  AllOpened(r.store)
<1> DEFINE leg == ParentPath(p)
           next == NextSibling(p)
           q == Child(leg, next)
<1>1. /\ p \in DOMAIN Tree \ {<<>>} /\ NodeKind(p) = "agent" /\ DOMAIN S = Files
      /\ Plain(NodeFile(p)) /\ Plain(InstanceFile)
  BY UnitsAreAgents, PlainAre DEF StoreOK
<1>2. ASSUME NEW x
      PROVE  /\ DOMAIN Write(S, NodeFile(p), x) = Files
             /\ \A f \in Files : Write(S, NodeFile(p), x)[f] = S[f] \/ Plain(f)
             /\ NodeKind(leg) = "sequence" => Write(S, NodeFile(p), x)[NodeFile(leg)] = S[NodeFile(leg)]
  <2>1. DOMAIN Write(S, NodeFile(p), x) = Files
        /\ \A f \in Files : Write(S, NodeFile(p), x)[f] = IF f = NodeFile(p) THEN x ELSE S[f]
    BY <1>1, WriteIs
  <2>2. NodeKind(leg) = "sequence" => NodeFile(leg) \in Files /\ NodeFile(leg) # NodeFile(p)
    BY <1>1, FilesAre, FilePaths DEF NodeKind, None
  <2> QED
    BY <1>1, <2>1, <2>2
<1>3. \A s : /\ DOMAIN WithState(S, p, tag, s) = Files
             /\ \A f \in Files : WithState(S, p, tag, s)[f] = S[f] \/ Plain(f)
             /\ NodeKind(leg) = "sequence" => WithState(S, p, tag, s)[NodeFile(leg)] = S[NodeFile(leg)]
  BY <1>2 DEF WithState
<1>4. ASSUME NEW T, DOMAIN T = Files, \A f \in Files : T[f] = S[f] \/ Plain(f), NEW i
      PROVE  AllOpened(Write(T, InstanceFile, i))
  <2>1. \A f \in Files : Write(T, InstanceFile, i)[f] = IF f = InstanceFile THEN i ELSE T[f]
    BY <1>4, WriteIs
  <2> QED
    BY <1>1, <1>4, <2>1, PlainEdit
<1>5. ASSUME NEW T, \A f \in Files : T[f] = S[f] \/ Plain(f) PROVE AllOpened(T)
  BY <1>5, PlainEdit
<1>6. ASSUME r = Iterate(S, p, tag) PROVE AllOpened(r.store)
  <2>1. \E x : r.store = Write(S, NodeFile(p), x)
    BY <1>6, ResultIs DEF Iterate
  <2> QED
    BY <1>2, <1>5, <2>1
<1>7. ASSUME r = Failed(S, p, tag) PROVE AllOpened(r.store)
  <2> DEFINE T == WithState(S, p, tag, "failed")
  <2>1. CASE NodeKind(leg) = "fanout"
    <3>1. r.store = T
      BY <1>7, <2>1, ResultIs DEF Failed
    <3> QED
      BY <1>3, <1>5, <3>1
  <2>2. CASE NodeKind(leg) = "sequence"
    <3>1. r.store = Write(T, NodeFile(leg), [CursorAt(T, leg) EXCEPT !.state = "failed"])
      BY <1>7, <2>2, ResultIs DEF Failed
    <3> HIDE DEF T
    <3>2. /\ DOMAIN T = Files /\ T[NodeFile(leg)] = S[NodeFile(leg)]
          /\ \A f \in Files : T[f] = S[f] \/ Plain(f)
      BY <1>3, <2>2 DEF T
    <3>3. "failed" \in Terminal
      BY DEF Terminal
    <3> QED
      BY <2>2, <3>1, <3>2, <3>3, LegEnds
  <2>3. CASE NodeKind(leg) \notin {"fanout", "sequence"}
    <3>1. r.store = T \/ \E i : r.store = Write(T, InstanceFile, i)
      BY <1>7, <2>3, ResultIs DEF Failed
    <3> QED
      BY <1>3, <1>4, <1>5, <3>1
  <2> QED
    BY <2>1, <2>2, <2>3
<1>8. ASSUME NEW blocked, NEW asked, r = Done(S, p, tag, blocked, asked) PROVE AllOpened(r.store)
  <2> DEFINE T == WithState(S, p, tag, "done")
  <2>0. /\ DOMAIN T = Files /\ \A f \in Files : T[f] = S[f] \/ Plain(f)
        /\ NodeKind(leg) = "sequence" => T[NodeFile(leg)] = S[NodeFile(leg)]
    BY <1>3
  <2>1. CASE NodeKind(leg) = "fanout"
    <3>1. r.store = T
      BY <1>8, <2>1, ResultIs DEF Done
    <3> QED
      BY <1>5, <2>0, <3>1
  <2>2. CASE NodeKind(leg) = "sequence"
    <3>1. r = AdvanceCursor(T, p, asked)
      BY <1>8, <2>2 DEF Done
    <3> HIDE DEF T
    <3>2. CASE next # None /\ q \in LegGates
      <4>1. r.store = Write(Write(T, NodeFile(leg), Cursor(LifeState(p), next)), NodeFile(q),
                            OpenGate(q, asked))
        BY <3>1, <3>2, ResultIs DEF AdvanceCursor
      <4> QED
        BY <2>0, <2>2, <3>2, <4>1, GateOpens
    <3>3. CASE next # None /\ q \notin LegGates
      <4>1. r.store = Write(T, NodeFile(leg), Cursor(LifeState(p), next))
        BY <3>1, <3>3, ResultIs DEF AdvanceCursor
      <4> QED
        BY <2>0, <2>2, <3>3, <4>1, LegMoves
    <3>4. CASE next = None
      <4>1. r.store = Write(T, NodeFile(leg), [CursorAt(T, leg) EXCEPT !.state = "done"])
        BY <3>1, <3>4, ResultIs DEF AdvanceCursor
      <4>2. "done" \in Terminal
        BY DEF Terminal
      <4> QED
        BY <2>0, <2>2, <4>1, <4>2, LegEnds
    <3> QED
      BY <3>2, <3>3, <3>4
  <2>3. CASE NodeKind(leg) \notin {"fanout", "sequence"}
    <3>1. r = AdvanceRoot(T, p, blocked)
      BY <1>8, <2>3 DEF Done
    <3> HIDE DEF T
    <3> DEFINE inst == InstanceAt(T)
               halt == [inst EXCEPT !.halted = LastId(p), !.label = "blocked"]
               go == [inst EXCEPT !.phase = next, !.label = next]
               over == [inst EXCEPT !.label = "done"]
               x == [T[NodeFile(p)] EXCEPT !.state = "failed"]
    <3>2. \/ r = Concludes(Write(Write(T, NodeFile(p), x), InstanceFile, halt), "failure", {})
          \/ r = Tells(Pushes(Write(T, InstanceFile, go), {Continue(<<next>>)}))
          \/ r = Concludes(Write(T, InstanceFile, over), "success", {})
      BY <3>1 DEF AdvanceRoot
    <3> HIDE DEF inst, halt, go, over, x
    <3>4. \/ r.store = Write(Write(T, NodeFile(p), x), InstanceFile, halt)
          \/ r.store = Write(T, InstanceFile, go)
          \/ r.store = Write(T, InstanceFile, over)
      <4> DEFINE A == Write(Write(T, NodeFile(p), x), InstanceFile, halt)
                 B == Write(T, InstanceFile, go)
                 C == Write(T, InstanceFile, over)
      <4> HIDE DEF A, B, C
      <4>1. \/ r = Concludes(A, "failure", {}) \/ r = Tells(Pushes(B, {Continue(<<next>>)}))
            \/ r = Concludes(C, "success", {})
        BY <3>2 DEF A, B, C
      <4>2. r = Concludes(A, "failure", {}) => r.store = A
        BY DEF Concludes, Tells, Result
      <4>3. r = Tells(Pushes(B, {Continue(<<next>>)})) => r.store = B
        BY ResultIs
      <4>4. r = Concludes(C, "success", {}) => r.store = C
        BY DEF Concludes, Tells, Result
      <4> QED
        BY <4>1, <4>2, <4>3, <4>4 DEF A, B, C
    <3>3. ASSUME NEW y, NEW i PROVE AllOpened(Write(Write(T, NodeFile(p), y), InstanceFile, i))
      <4>1. DOMAIN Write(T, NodeFile(p), y) = Files
            /\ \A f \in Files : Write(T, NodeFile(p), y)[f] = S[f] \/ Plain(f)
        BY <1>1, <2>0, WriteIs
      <4> QED
        BY <1>4, <4>1
    <3> QED
      BY <1>4, <2>0, <3>3, <3>4
  <2> QED
    BY <2>1, <2>2, <2>3
<1>9. QED
  BY <1>6, <1>7, <1>8, AttemptEnds

\* What enter_node seeds, or opens for the root.
LEMMA EnterOpens ==
  ASSUME NEW S, DOMAIN S = Files, AllOpened(S), NEW p \in DOMAIN Tree \ {<<>>}, NEW command,
         NEW r \in Enter(S, p, command)
  PROVE  AllOpened(r.store)
<1>1. CASE NodeKind(p) = "gate"
  <2>1. r.store = Write(S, RootGateFile(p), OpenGate(p, {}))
    BY <1>1, EnterIs
  <2>2. Len(<<LastId(p)>>) = 1
    OBVIOUS
  <2>3. Plain(RootGateFile(p))
    BY <2>2, PlainAre, FilePaths
  <2>4. \A f \in Files : r.store[f] = S[f] \/ Plain(f)
    BY <2>1, <2>3, WriteIs
  <2> QED
    BY <2>4, PlainEdit
<1>2. CASE NodeKind(p) = "agent"
  <2>1. r.store = S \/ r.store = Write(S, NodeFile(p), FreshUnit(p))
    BY <1>2, EnterIs
  <2>2. \A f \in Files : r.store[f] = S[f] \/ Plain(f)
    BY <1>2, <2>1, PlainAre, WriteIs
  <2> QED
    BY <2>2, PlainEdit
<1>3. CASE NodeKind(p) = "fanout"
  <2>1. PICK L \in LegSets(p) : r.store = EnterFanout(S, p, L)
    BY <1>3, EnterIs
  <2> DEFINE T == r.store
  <2>2. Seeds(S, T, p, L)
    BY <1>3, <2>1, SeededIs
  <2> HIDE DEF T
  <2> SUFFICES ASSUME NEW g \in LegGates PROVE Opened(T, g)
    BY DEF AllOpened, T
  <2> DEFINE c == ParentPath(g)
  <2>3. /\ g \in DOMAIN Tree \ {<<>>} /\ NodeKind(g) = "gate" /\ NodeFile(g) \in Files
        /\ c \in DOMAIN Tree \ {<<>>} /\ NodeKind(c) = "sequence" /\ NodeFile(c) \in Files
        /\ g = Child(c, LastId(g))
    BY LegGatesAre
  <2>4. \A l \in L : /\ NodeKind(LeafPath(p, l)) = "agent"
                     /\ NodeKind(Child(p, l)) \in {"agent", "sequence"}
                     /\ T[NodeFile(Child(p, l))] = Seeded(Child(p, l))
    BY <1>3, <2>2, LeafIs DEF Seeds
  <2>5. T[NodeFile(g)] = S[NodeFile(g)]
    BY <2>2, <2>3, <2>4, FilePaths DEF Seeds
  <2>6. CASE T[NodeFile(c)] = S[NodeFile(c)]
    BY <2>5, <2>6 DEF AllOpened, Opened
  <2>7. CASE T[NodeFile(c)] # S[NodeFile(c)]
    <3>1. PICK l \in L : c = Child(p, l)
      BY <2>2, <2>3, <2>4, <2>7, FilePaths DEF Seeds
    <3>2. T[NodeFile(c)] = Cursor(EnclosingFanoutId(c), FirstChildId(c))
      BY <2>3, <2>4, <3>1 DEF Seeded
    <3>3. NodeKind(Child(c, FirstChildId(c))) = "agent"
      BY <2>3, LegAssumption
    <3>4. T[NodeFile(c)].sub_state # LastId(g)
      BY <2>3, <3>2, <3>3 DEF Cursor
    <3> QED
      BY <3>4 DEF Opened
  <2> QED
    BY <2>6, <2>7
<1>4. CASE NodeKind(p) \notin {"gate", "agent", "fanout"}
  BY <1>4, EnterIs
<1>5. QED
  BY <1>1, <1>2, <1>3, <1>4

\* A start keeps no file of a leg.
LEMMA StartOpens ==
  ASSUME NEW S, StoreOK(S), NEW r \in EnterRoot(S, "start")
  PROVE  AllOpened(r.store)
<1> DEFINE first == RootIds[1]
           T == Write(Wiped(S), InstanceFile, NewInstance(first))
           p == <<first>>
<1>1. p \in DOMAIN Tree \ {<<>>}
  <2>1. RootIds # <<>> /\ RootIds \in Seq(STRING \ {None})
    BY NamesAssumption, TreeAssumption DEF RootIds, Children
  <2>2. 1 \in DOMAIN RootIds
    BY <2>1, EmptySeq, LenProperties
  <2>3. first \in ChildIds(<<>>)
    BY <2>2 DEF ChildIds, RootIds
  <2> QED
    BY <2>3, RootChildIs
<1>2. r \in Enter(T, p, "start")
  BY DEF EnterRoot
<1>3. DOMAIN Wiped(S) = Files /\ DOMAIN S = Files
  BY DEF Wiped, StoreOK
<1>4. DOMAIN T = Files /\ \A f \in Files : T[f] = IF f = InstanceFile THEN NewInstance(first) ELSE Wiped(S)[f]
  BY <1>3, WriteIs
<1> HIDE DEF T, p
<1>5. AllOpened(T)
  <2> SUFFICES ASSUME NEW g \in LegGates PROVE Opened(T, g)
    BY DEF AllOpened
  <2> DEFINE c == ParentPath(g)
  <2>1. Len(c) # 1 /\ NodeFile(c) \in Files /\ c \in DOMAIN Tree
    BY LegGatesAre
  <2>2. Wiped(S)[NodeFile(c)] = Missing
    BY <1>3, <2>1, FilePaths DEF Wiped
  <2>3. NodeFile(c) # InstanceFile
    BY NotTheInstance
  <2>4. T[NodeFile(c)] = Missing
    BY <1>4, <2>1, <2>2, <2>3
  <2> QED
    BY <2>4 DEF Opened
<1>6. QED
  BY <1>1, <1>2, <1>4, <1>5, EnterOpens

LEMMA OverrideOpens ==
  ASSUME NEW S, StoreOK(S), AllOpened(S), NEW r \in Override(S)
  PROVE  AllOpened(r.store)
<1> DEFINE inst == Read(S, InstanceFile)
           next == NextSibling(<<inst.halted>>)
           i == [inst EXCEPT !.phase = next, !.label = next, !.halted = None,
                             !.overrides = @ \union {inst.halted}]
<1>1. r = Quiet(S) \/ r = Pushes(Write(S, InstanceFile, i), {Continue(<<next>>)})
  BY DEF Override
<1> HIDE DEF i
<1>2. r.store = S \/ r.store = Write(S, InstanceFile, i)
  BY <1>1, ResultIs DEF Quiet, Result
<1>3. \A f \in Files : r.store[f] = S[f] \/ Plain(f)
  BY <1>2, PlainAre, WriteIs DEF StoreOK
<1>4. QED
  BY <1>3, PlainEdit

LEMMA ResolveOpens ==
  ASSUME NEW S, StoreOK(S), AllOpened(S), NEW decision \in {"approve", "request-changes", "reject"},
         NEW said, NEW r \in ResolveGate(S, decision, said), r.push
  PROVE  AllOpened(r.store)
<1> DEFINE inst == S[InstanceFile]
           a == <<inst.phase>>
           next == NextSibling(a)
           T == r.store
<1>1. /\ inst # Missing /\ NodeKind(a) = "gate" /\ S[NodeFile(a)] # Missing
      /\ S[NodeFile(a)].gate \in {"open", "changes_requested"}
      /\ a \in DOMAIN Tree \ {<<>>} /\ Thread(a) = <<>> /\ inst \in Instances
      /\ DOMAIN T = Files /\ T[InstanceFile] # Missing /\ T[NodeFile(a)] # Missing
      /\ \A f \in Files : f \notin {InstanceFile, NodeFile(a)} => T[f] = S[f]
      /\ T[InstanceFile].overrides = inst.overrides /\ ~r.runs
      /\ \/ /\ next # None /\ T[InstanceFile].phase = next /\ T[InstanceFile].label = next
            /\ T[NodeFile(a)].gate = "approved" /\ r.emit = {Continue(<<next>>)}
         \/ /\ next = None /\ T[InstanceFile].phase = inst.phase
            /\ T[NodeFile(a)].gate = "approved" /\ r.emit = {}
         \/ T[InstanceFile] = inst /\ r.emit = {}
         \/ /\ T[InstanceFile].phase = inst.phase /\ T[InstanceFile].label = "failed"
            /\ r.emit = {}
  BY ResolveIs
<1>2. Plain(NodeFile(a)) /\ Plain(InstanceFile)
  <2>1. Len(a) = 1
    OBVIOUS
  <2> QED
    BY <2>1, PlainAre
<1> HIDE DEF a, next, T
<1>3. \A f \in Files : T[f] = S[f] \/ Plain(f)
  BY <1>1, <1>2
<1>4. QED
  BY <1>3, PlainEdit DEF T

\* The answers at a gate leave it open until they cover its questions.
LEMMA AnswerOpens ==
  ASSUME GatesAttended, NEW S, StoreOK(S), AllOpened(S), NEW said, NEW r \in Answer(S, said)
  PROVE  AllOpened(r.store)
<1> DEFINE p == FindOpenGate(S, said.branch)
           leg == ParentPath(p)
           next == NextSibling(p)
           v == S[NodeFile(p)]
           questions == v.questions
           answered == AllAnswers(S, p, said)
           A == Answers(questions, answered)
           T == Write(S, AnswersFile(p), A)
           w(gate) == [v EXCEPT !.gate = gate, !.history = Append(@, said.answered)]
           U(gate) == Write(T, NodeFile(p), w(gate))
           over == [S[NodeFile(leg)] EXCEPT !.state = "done"]
<1>1. CASE p = <<>>
  <2>1. r = Quiet(S)
    BY <1>1 DEF Answer
  <2> QED
    BY <2>1 DEF Quiet, Result
<1>2. CASE p # <<>>
  <2>1. p \in OpenGates(S, said.branch)
    BY <1>2 DEF FindOpenGate
  <2>2. \/ r = Pushes(U("open"), {})
        \/ /\ next # None
           /\ r = Pushes(Write(U("answered"), NodeFile(leg), Cursor(LifeState(p), next)),
                         {Continue(Child(leg, next))})
        \/ r = Pushes(Write(U("answered"), NodeFile(leg), over), {FireJoin(p)})
    BY <1>2 DEF Answer
  <2> HIDE DEF p
  <2>3. /\ p \in LegGates /\ NodeKind(leg) = "sequence" /\ leg \in DOMAIN Tree
        /\ v # Missing /\ S[NodeFile(leg)] # Missing /\ NodeKind(p) = "gate" /\ p \in DOMAIN Tree
    BY <2>1, OpenGatesAre
  <2>4. DOMAIN v = GateFields
    BY <2>3, NodeValue DEF NodeOK
  <2>5. /\ w("open") # Missing /\ w("open").gate = "open"
    <3> DEFINE history == Append(v.history, said.answered)
    <3>1. w("open") = [v EXCEPT !.gate = "open", !.history = history]
      OBVIOUS
    <3> HIDE DEF history, v
    <3> QED
      BY <2>4, <3>1, InstanceFields DEF GateFields
  <2>6. over.state = "done"
    <3>1. NodeOK(leg, S[NodeFile(leg)])
      BY <2>3, NodeValue
    <3> QED
      BY <2>3, <3>1 DEF NodeOK
  <2> HIDE DEF leg, next, over, w, A
  <2>7. DOMAIN T = Files /\ \A f \in Files : T[f] = S[f] \/ Plain(f)
    BY PlainAre, WriteIs DEF StoreOK
  <2> HIDE DEF T
  <2>8. \A gate : /\ DOMAIN U(gate) = Files
                  /\ \A f \in Files : IF f = NodeFile(p) THEN U(gate)[f] = w(gate)
                                      ELSE U(gate)[f] = S[f] \/ Plain(f)
    BY <2>7, WriteIs
  <2> HIDE DEF U
  <2>9. \A gate : \A f \in Files :
          U(gate)[f] = S[f] \/ Plain(f) \/ \E g \in LegGates : ParentPath(g) = leg /\ f = NodeFile(g)
    BY <2>3, <2>8 DEF leg
  <2>10. CASE r = Pushes(U("open"), {})
    <3>1. r.store = U("open")
      BY <2>10, ResultIs
    <3>2. ASSUME NEW g \in LegGates, ParentPath(g) = leg PROVE Opened(U("open"), g)
      <4>1. /\ NodeFile(g) \in Files /\ NodeFile(leg) \in Files /\ NodeKind(g) = "gate"
            /\ ~Plain(NodeFile(g)) /\ ~Plain(NodeFile(leg))
        BY <3>2, LegGatesAre DEF Plain
      <4>2. CASE g = p
        BY <2>5, <2>8, <4>1, <4>2 DEF Opened
      <4>3. CASE g # p
        <5>1. NodeFile(g) # NodeFile(p) /\ NodeFile(leg) # NodeFile(p)
          BY <2>3, <4>3, FilePaths
        <5>2. U("open")[NodeFile(g)] = S[NodeFile(g)] /\ U("open")[NodeFile(leg)] = S[NodeFile(leg)]
          BY <2>8, <4>1, <5>1
        <5> QED
          BY <3>2, <5>2 DEF AllOpened, Opened
      <4> QED
        BY <4>2, <4>3
    <3> QED
      BY <2>3, <2>9, <3>1, <3>2, LegEdit
  <2>11. CASE /\ next # None
              /\ r = Pushes(Write(U("answered"), NodeFile(leg), Cursor(LifeState(p), next)),
                            {Continue(Child(leg, next))})
    <3>1. r.store = Write(U("answered"), NodeFile(leg), Cursor(LifeState(p), next))
      BY <2>11, ResultIs
    <3>2. Child(leg, next) \notin LegGates
      BY <2>3 DEF GatesAttended, leg, next
    <3> QED
      BY <2>3, <2>8, <2>9, <3>1, <3>2, LegMoves
  <2>12. CASE r = Pushes(Write(U("answered"), NodeFile(leg), over), {FireJoin(p)})
    <3> DEFINE V == Write(U("answered"), NodeFile(leg), over)
    <3>1. r.store = V
      BY <2>12, ResultIs
    <3>2. \A f \in Files : V[f] = IF f = NodeFile(leg) THEN over ELSE U("answered")[f]
      BY <2>8, WriteIs
    <3> HIDE DEF V
    <3>3. V[NodeFile(leg)] = over /\ over.state \in Terminal
      BY <2>3, <2>6, <3>2, FilesAre DEF Terminal
    <3> QED
      BY <2>3, <2>9, <3>1, <3>2, <3>3, CursorEdit
  <2> QED
    BY <2>2, <2>10, <2>11, <2>12
<1>3. QED
  BY <1>1, <1>2

LEMMA MergeOpens ==
  ASSUME NEW S, StoreOK(S), AllOpened(S), NEW p, NodeKind(p) = "merge", NEW r \in Merge(S, p)
  PROVE  AllOpened(r.store)
<1> DEFINE leg == ParentPath(p)
           cursor == NodeFile(leg)
           inst == IF S[InstanceFile] = Missing THEN NewInstance(None) ELSE S[InstanceFile]
           sub == IF S[cursor] = Missing THEN None ELSE S[cursor].sub_state
           i == [inst EXCEPT !.phase = LastId(p), !.joined = TRUE, !.label = "done"]
           T == Write(S, cursor, Cursor("done", sub))
           U == Write(S, InstanceFile, i)
<1>1. \/ r = Quiet(S)
      \/ Len(p) > 1 /\ r = Pushes(T, {FireJoin(p)})
      \/ \E conclusion : r = Concludes(U, conclusion, {})
  BY DEF Merge
<1> HIDE DEF T, U, i, sub
<1>2. CASE r = Quiet(S)
  BY <1>2 DEF Quiet, Result
<1>3. CASE Len(p) > 1 /\ r = Pushes(T, {FireJoin(p)})
  <2>1. r.store = T
    BY <1>3, ResultIs
  <2>2. NodeKind(leg) = "sequence"
    <3>1. p \in DOMAIN Tree /\ p # <<>>
      BY DEF NodeKind, None
    <3>2. Len(p) # 1
      <4>1. Len(p) = 1 => ~(Len(p) > 1)
        OBVIOUS
      <4> QED
        BY <1>3, <4>1
    <3> QED
      BY <3>1, <3>2, InSubPipeline
  <2>3. "done" \in Terminal
    BY DEF Terminal
  <2>4. AllOpened(T)
    BY <2>2, <2>3, LegMoves DEF T, StoreOK
  <2> QED
    BY <2>1, <2>4
<1>4. CASE \E conclusion : r = Concludes(U, conclusion, {})
  <2>1. r.store = U
    BY <1>4 DEF Concludes, Tells, Result
  <2>2. \A f \in Files : U[f] = S[f] \/ Plain(f)
    BY PlainAre, WriteIs DEF U, StoreOK
  <2> QED
    BY <2>1, <2>2, PlainEdit
<1>5. QED
  BY <1>1, <1>2, <1>3, <1>4

LEMMA NestedJoinOpens ==
  ASSUME GatesAttended, NEW S, StoreOK(S), AllOpened(S), NEW p \in NestedFanouts,
         NEW r, r = NestedJoin(S, p)
  PROVE  AllOpened(r.store)
<1> DEFINE leg == ParentPath(p)
           joins == JoinsOver(leg, LastId(p))
           policy == IF joins = <<>> THEN AllPolicy ELSE Tree[joins[1]].policy
           next == IF joins = <<>> THEN None ELSE Tree[joins[1]].next
           cursor == IF S[NodeFile(leg)] = Missing THEN Cursor(None, None) ELSE S[NodeFile(leg)]
           T(failed) == Write(S, JoinFile(p), Marker(TRUE, failed))
           ended(failed, s) == Write(T(failed), NodeFile(leg), [cursor EXCEPT !.state = s])
           moved == Write(T(FALSE), NodeFile(leg), Cursor(EnclosingFanoutId(leg), next))
           met == PolicyMet(S, p, p, policy)
           over == (S[JoinFile(p)] # Missing /\ S[JoinFile(p)].joined) \/ ~AllTerminal(S, p, p)
           c1 == Pushes(ended(TRUE, "failed"), {FireJoin(leg)})
           c2 == Pushes(moved, {Continue(Child(leg, next))})
           c3 == Pushes(ended(FALSE, "done"), {FireJoin(leg)})
<1>1. NestedJoin(S, p) =
        IF over THEN Quiet(S)
        ELSE CASE ~met -> c1 [] met /\ next # None -> c2 [] met /\ next = None -> c3
  BY DEF NestedJoin
<1> HIDE DEF over, met, c1, c2, c3, next
<1>2. r = Quiet(S) \/ r = c1 \/ r = c2 \/ r = c3
  BY <1>1
<1>3. NodeKind(leg) = "sequence" /\ NodeFile(leg) \in Files
  <2>1. p \in DOMAIN Tree \ {<<>>} /\ NodeKind(p) = "fanout" /\ ~IsRootChild(p)
    BY DEF NestedFanouts, NodeKind, None
  <2>2. NodeKind(leg) = "sequence"
    BY <2>1, InSubPipeline DEF IsRootChild
  <2> QED
    BY <2>2, FilesAre DEF NodeKind, None
<1>4. \A failed : /\ DOMAIN T(failed) = Files /\ T(failed)[NodeFile(leg)] = S[NodeFile(leg)]
                  /\ \A f \in Files : T(failed)[f] = S[f] \/ Plain(f)
  <2> SUFFICES ASSUME NEW failed
               PROVE  /\ DOMAIN T(failed) = Files /\ T(failed)[NodeFile(leg)] = S[NodeFile(leg)]
                      /\ \A f \in Files : T(failed)[f] = S[f] \/ Plain(f)
    OBVIOUS
  <2>1. NodeFile(leg) # JoinFile(p) /\ Plain(JoinFile(p))
    BY FilePaths, PlainAre
  <2> DEFINE m == Marker(TRUE, failed)
  <2>2. T(failed) = Write(S, JoinFile(p), m) /\ DOMAIN S = Files
    BY DEF StoreOK
  <2> HIDE DEF T, m
  <2> QED
    BY <1>3, <2>1, <2>2, WriteIs
<1>5. \A failed : cursor = CursorAt(T(failed), leg)
  <2> HIDE DEF T
  <2> QED
    BY <1>4 DEF CursorAt
<1> HIDE DEF T, cursor
<1>6. ASSUME NEW failed, NEW s \in Terminal PROVE AllOpened(ended(failed, s))
  <2>1. AllOpened(Write(T(failed), NodeFile(leg), [CursorAt(T(failed), leg) EXCEPT !.state = s]))
    BY <1>3, <1>4, LegEnds
  <2> QED
    BY <1>5, <2>1
<1>7. AllOpened(moved)
  <2>1. next = NextOver(p)
    BY DEF next, NextOver
  <2>2. Child(leg, next) \notin LegGates
    BY <2>1 DEF GatesAttended
  <2> QED
    BY <1>3, <1>4, <2>2, LegMoves
<1> HIDE DEF ended, moved
<1>8. "done" \in Terminal /\ "failed" \in Terminal
  BY DEF Terminal
<1>9. \/ r.store = S \/ r.store = ended(TRUE, "failed")
      \/ r.store = moved \/ r.store = ended(FALSE, "done")
  <2>1. Quiet(S).store = S
    BY DEF Quiet, Result
  <2>2. c1.store = ended(TRUE, "failed") /\ c2.store = moved /\ c3.store = ended(FALSE, "done")
    BY DEF c1, c2, c3, Pushes, Result
  <2> QED
    BY <1>2, <2>1, <2>2
<1>10. QED
  BY <1>6, <1>7, <1>8, <1>9

LEMMA TopJoinOpens ==
  ASSUME NEW S, StoreOK(S), AllOpened(S), NEW r, r = TopJoin(S)
  PROVE  AllOpened(r.store)
<1> DEFINE inst == S[InstanceFile]
           p == CurrentFanout(inst.phase)
           prefix == IF IsMultiphase THEN <<inst.phase>> ELSE p
           over == JoinsOver(<<>>, LastId(p))
           joins == IF over # <<>> THEN over
                    ELSE SelectSeq([i \in DOMAIN RootIds |-> <<RootIds[i]>>],
                                   LAMBDA q : NodeKind(q) = "join")
           policy == IF joins = <<>> THEN AllPolicy ELSE Tree[joins[1]].policy
           next == IF joins = <<>> THEN None ELSE Tree[joins[1]].next
           met == PolicyMet(S, p, prefix, policy)
           T(phase, label) ==
             Write(S, InstanceFile, [inst EXCEPT !.joined = TRUE, !.phase = phase, !.label = label])
           still == inst = Missing \/ inst.joined \/ ~AllTerminal(S, p, prefix)
           c1 == Pushes(T(next, next), {Continue(<<next>>)})
           c2 == Concludes(T(inst.phase, "done"), "success", {})
           c3 == Concludes(T(inst.phase, "failed"), "failure", {})
<1>1. TopJoin(S) =
        IF still THEN Quiet(S)
        ELSE CASE met /\ next \in ChildIds(<<>>) -> c1
               [] met /\ next \notin ChildIds(<<>>) -> c2
               [] ~met -> c3
  BY DEF TopJoin
<1> HIDE DEF still, met, next, c1, c2, c3
<1>2. r = Quiet(S) \/ r = c1 \/ r = c2 \/ r = c3
  BY <1>1
<1> HIDE DEF inst
<1>3. \A phase, label : \A f \in Files : T(phase, label)[f] = S[f] \/ Plain(f)
  BY PlainAre, WriteIs DEF StoreOK
<1> HIDE DEF T
<1>4. r.store = S \/ \E phase, label : r.store = T(phase, label)
  <2>1. Quiet(S).store = S /\ c1.store = T(next, next)
    BY DEF Quiet, Result, c1, Pushes
  <2>2. c2.store = T(inst.phase, "done") /\ c3.store = T(inst.phase, "failed")
    BY DEF Concludes, Tells, Result, c2, c3
  <2> QED
    BY <1>2, <2>1, <2>2
<1>5. QED
  BY <1>3, <1>4, PlainEdit

\* No script leaves a leg at a gate that is closed.
LEMMA OutcomesOpen ==
  ASSUME EngineInv, GatesAttended, AllOpened(store), NEW j \in jobs, NEW r \in Outcomes(store, j), r.push
  PROVE  AllOpened(r.store)
<1>1. JobOK(j) /\ StoreOK(store) /\ DOMAIN store = Files
  BY DEF EngineInv, StoreOK
<1>2. CASE j.role = "leg"
  <2>1. j.path \in Units /\ r \in AdvanceOutcomes(store, j.path, j.group)
    BY <1>1, <1>2 DEF JobOK, Outcomes
  <2> QED
    BY <1>1, <2>1, AdvanceOpens
<1>3. CASE j.role = "join"
  <2>1. j.path \in NestedFanouts \union {<<>>} /\ r = Join(store, j.path)
    BY <1>1, <1>3 DEF JobOK, Outcomes
  <2>2. r = TopJoin(store) \/ (j.path \in NestedFanouts /\ r = NestedJoin(store, j.path))
    BY <2>1 DEF Join
  <2> QED
    BY <1>1, <2>2, TopJoinOpens, NestedJoinOpens
<1>4. CASE j.role = "plan"
  <2>1. r \in Plan(store, j.command, j.path, j.said) /\ j.command \in Replies \union {"start", "continue"}
    BY <1>1, <1>4 DEF JobOK, Outcomes
  <2>2. CASE j.command = "start"
    <3>1. r \in EnterRoot(store, "start")
      BY <2>1, <2>2 DEF Plan
    <3> QED
      BY <1>1, <3>1, StartOpens
  <2>3. CASE j.command = "override"
    <3>1. r \in Override(store)
      BY <2>1, <2>3 DEF Plan
    <3> QED
      BY <1>1, <3>1, OverrideOpens
  <2>4. CASE j.command \in {"approve", "request-changes", "reject"}
    <3>1. r \in ResolveGate(store, j.command, j.said)
      BY <2>1, <2>4 DEF Plan
    <3> QED
      BY <1>1, <2>4, <3>1, ResolveOpens
  <2>5. CASE j.command = "answer"
    <3>1. r \in Answer(store, j.said)
      BY <2>1, <2>5 DEF Plan
    <3> QED
      BY <1>1, <3>1, AnswerOpens
  <2>6. CASE j.command = "continue"
    <3>1. r \in ContinueAt(store, j.path)
      BY <2>1, <2>6 DEF Plan
    <3>2. CASE NodeKind(j.path) \in {"fanout", "agent", "gate"}
      <4>1. r \in Enter(store, j.path, "continue") /\ j.path \in DOMAIN Tree \ {<<>>}
        BY <3>1, <3>2 DEF ContinueAt, NodeKind, None
      <4> QED
        BY <1>1, <4>1, EnterOpens
    <3>3. CASE NodeKind(j.path) = "merge"
      <4>1. r \in Merge(store, j.path)
        BY <3>1, <3>3 DEF ContinueAt
      <4> QED
        BY <1>1, <3>3, <4>1, MergeOpens
    <3>4. CASE NodeKind(j.path) \notin {"fanout", "agent", "gate", "merge"}
      <4>1. r = Quiet(store)
        BY <3>1, <3>4 DEF ContinueAt
      <4> QED
        BY <4>1, ResultIs
    <3> QED
      BY <3>2, <3>3, <3>4
  <2> QED
    BY <2>1, <2>2, <2>3, <2>4, <2>5, <2>6 DEF Replies
<1>5. QED
  BY <1>1, <1>2, <1>3, <1>4 DEF JobOK

-----------------------------------------------------------------------------
(* Every step keeps them open. *)

LEMMA GatesGoOn ==
  ASSUME Gates, NEW j \in jobs, NEW k, Becomes(j, k), store' = store,
         Editing(k) => AllOpened(k.todo.store)
  PROVE  Gates'
BY DEF Gates, Becomes

LEMMA GatesArrival ==
  ASSUME EngineInv, Gates, NEW J, NEW E, Schedule(J, E), \A e \in E : EventOK(e),
         \A i \in J : Editing(i) => i \in jobs, AllOpened(store')
  PROVE  Gates'
<1> DEFINE pending == {w \in waiting : \A e \in E : Group(e) # Group(w)} \union E
           free == {w \in pending : ~Busy(J, Group(w))}
<1>1. jobs' = J \union {Queued(w) : w \in free}
  BY DEF Schedule
<1>2. \A w \in free : EventOK(w)
  BY DEF EngineInv
<1> HIDE DEF free
<1>3. \A k \in jobs' : Editing(k) => k \in jobs
  BY <1>1, <1>2, QueuedAt
<1>4. QED
  BY <1>3 DEF Gates

LEMMA GatesLeft ==
  ASSUME EngineInv, Gates, NEW j \in jobs, NEW E, Leave(j, E), store' = store, \A e \in E : EventOK(e)
  PROVE  Gates'
<1> DEFINE J == jobs \ {j}
<1>1. Schedule(J, E)
  BY DEF Leave
<1>2. \A i \in J : Editing(i) => i \in jobs
  OBVIOUS
<1> HIDE DEF J
<1>3. QED
  BY <1>1, <1>2, GatesArrival DEF Gates

\* Steps that neither edit nor push.
LEMMA GatesAside ==
  ASSUME EngineInv, Gates, NEW j \in jobs,
         \/ FailPush(j) \/ FailComment(j) \/ Die(j) \/ Finish(j)
         \/ Report(j) \/ MarkInProgress(j) \/ StartLegs(j) \/ StartLegsWithComment(j)
  PROVE  Gates'
<1>1. CASE FailPush(j) \/ FailComment(j) \/ Die(j)
  <2>1. Leave(j, {}) /\ store' = store
    BY <1>1 DEF FailPush, FailComment, Die
  <2> QED
    BY <2>1, GatesLeft
<1>2. CASE Finish(j)
  <2>1. Leave(j, j.todo.emit) /\ store' = store /\ Landed(j)
    BY <1>2 DEF Finish
  <2>2. EmitOK(j.todo.emit)
    BY <2>1, LandedStarted DEF TodoOK
  <2> QED
    BY <2>1, <2>2, GatesLeft DEF EmitOK
<1>3. CASE Report(j)
  <2>1. PICK k : /\ Becomes(j, k)
                  /\ k.role = j.role /\ k.command = j.command /\ k.path = j.path
                  /\ k.stage = "edited" /\ k.clone = j.clone
                  /\ k.todo.store = j.todo.store /\ k.todo.push = j.todo.push
                  /\ k.todo.emit = j.todo.emit /\ k.todo.runs = j.todo.runs
                  /\ k.todo.legs = j.todo.legs
    BY <1>3, ReportOK
  <2>2. j.stage = "edited" /\ store' = store
    BY <1>3 DEF Report
  <2>3. Editing(k) => AllOpened(k.todo.store)
    BY <2>1, <2>2 DEF Editing, Gates
  <2> QED
    BY <2>1, <2>2, <2>3, GatesGoOn
<1>4. CASE MarkInProgress(j)
  <2>1. PICK k : /\ Becomes(j, k)
                  /\ k.role = j.role /\ k.command = j.command /\ k.path = j.path
                  /\ k.stage = "marked" /\ k.todo = j.todo
    BY <1>4, MarkOK
  <2>2. store' = store
    BY <1>4 DEF MarkInProgress
  <2> QED
    BY <2>1, <2>2, GatesGoOn DEF Editing
<1>5. CASE StartLegs(j) \/ StartLegsWithComment(j)
  <2> DEFINE J == Dispatched(j)
  <2>1. Schedule(J, {})
    BY <1>5 DEF StartLegs, StartLegsWithComment
  <2>2. \A i \in J : i \in jobs \ {j} \/ \E q \in j.todo.legs : i = Leg(j.group, q)
    BY DEF Dispatched
  <2>3. \A i \in J : Editing(i) => i \in jobs
    BY <2>2, LegAt
  <2>4. AllOpened(store')
    <3>1. store' = store \/ store' = [store EXCEPT ![InstanceFile].comment = comments + 1]
      BY <1>5 DEF StartLegs, StartLegsWithComment
    <3>2. DOMAIN store = Files
      BY DEF EngineInv, StoreOK
    <3>3. \A f \in Files : store'[f] = store[f] \/ f = InstanceFile
      BY <3>1, <3>2
    <3> QED
      BY <3>3, PlainAre, PlainEdit DEF Gates
  <2> HIDE DEF J
  <2> QED
    BY <2>1, <2>3, <2>4, GatesArrival
<1>6. QED
  BY <1>1, <1>2, <1>3, <1>4, <1>5

LEMMA GatesComment ==
  ASSUME EngineInv, Gates, NEW command, NEW said, Comment(command, said)
  PROVE  Gates'
<1>1. PICK e : EventOK(e) /\ Schedule(jobs, {e})
  BY CommentEvent
<1>2. store' = store
  BY DEF Comment
<1>3. QED
  BY <1>1, <1>2, GatesArrival DEF Gates

LEMMA GatesExecute ==
  ASSUME EngineInv, GatesAttended, Gates, NEW j \in jobs, Execute(j)
  PROVE  Gates'
<1>1. PICK r \in Outcomes(store, j) : \E k : Executed(j, r, k)
  BY ExecuteIs
<1>2. PICK k : Executed(j, r, k)
  BY <1>1
<1>3. Becomes(j, k) /\ store' = store
  BY <1>2 DEF Executed, Execute
<1>4. ResultOK(store, r) /\ (r.store[InstanceFile] # Missing \/ Inert(r))
  BY OutcomesOK
<1>5. ASSUME r.push PROVE AllOpened(k.todo.store)
  <2>1. AllOpened(r.store)
    BY <1>5, OutcomesOpen DEF Gates
  <2>2. CASE r.tells /\ NeedsComment(r.store)
    <3> DEFINE n == comments + 1
               q == [r EXCEPT !.store[InstanceFile].comment = n]
    <3>1. k.todo = q /\ n \in Nat
      BY <1>2, <2>2 DEF Executed, EngineInv
    <3>2. r.store[InstanceFile] # Missing
      BY <2>2 DEF NeedsComment
    <3> HIDE DEF n
    <3>3. SameBut(r.store, q.store)
      BY <1>4, <3>1, <3>2, NumberedSame
    <3> HIDE DEF q
    <3>4. \A f \in Files : q.store[f] = r.store[f] \/ f = InstanceFile
      BY <3>3 DEF SameBut
    <3> QED
      BY <2>1, <3>1, <3>4, PlainAre, PlainEdit
  <2>3. CASE ~(r.tells /\ NeedsComment(r.store))
    BY <1>2, <2>1, <2>3 DEF Executed
  <2> QED
    BY <2>2, <2>3
<1>6. Editing(k) => r.push
  <2>1. CASE r.tells /\ NeedsComment(r.store)
    BY <1>4, <2>1 DEF ResultOK
  <2>2. CASE ~(r.tells /\ NeedsComment(r.store))
    BY <1>2, <2>2 DEF Executed, Editing
  <2> QED
    BY <2>1, <2>2
<1>7. QED
  BY <1>3, <1>5, <1>6, GatesGoOn

\* What one job pushes is of one thread: the cursor of a leg and its gates come from it,
\* or from the branch.
LEMMA GatesPush ==
  ASSUME EngineInv, OneStart, used["start"] <= 1, GatesApart, Threads, Gates,
         NEW j \in jobs, Push(j)
  PROVE  Gates'
<1>1. PICK t : PushesAlone(j, t)
  BY PushesCourse
<1> DEFINE T == j.todo.store
<1>2. Agree(T, store', t) /\ AgreeOutside(store, store', t)
  BY <1>1, PushContext
<1>3. PICK k : jobs' = (jobs \ {j}) \union {k} /\ k.stage = "pushed"
  BY <1>1, PushTokens DEF Threads
<1>4. AllOpened(store) /\ AllOpened(T)
  BY DEF Gates, Editing, Push, Pushing
<1>5. IsThread(t) /\ t \in Seq(STRING)
  BY <1>1, ThreadsAre DEF PushesAlone, ByItself
<1> HIDE DEF T
<1>6. ASSUME NEW g \in LegGates PROVE Opened(store', g)
  <2> DEFINE c == ParentPath(g)
  <2>1. /\ g \in DOMAIN Tree \ {<<>>} /\ c \in DOMAIN Tree \ {<<>>} /\ IsLeg(c) /\ ~Above(g, c)
        /\ NodeKind(g) = "gate" /\ NodeKind(c) = "sequence"
    BY LegGatesAre
  <2>2. g \in Seq(STRING) /\ c \in Seq(STRING)
    BY <2>1, NodesAreChildren
  <2>3. NodeFile(g) \in Files \ Strays /\ NodeFile(c) \in Files \ Strays
    BY <2>1, NotStray DEF HasFile
  <2>4. NodeFile(g)[2] = g /\ NodeFile(c)[2] = c
    BY FilePaths
  <2>5. CASE Above(t, c)
    <3>1. Above(t, g)
      BY <1>5, <2>1, <2>2, <2>5, AboveParent, AboveOrder
    <3>2. store'[NodeFile(g)] = T[NodeFile(g)] /\ store'[NodeFile(c)] = T[NodeFile(c)]
      BY <1>2, <2>3, <2>4, <2>5, <3>1 DEF Agree
    <3> QED
      BY <1>4, <3>2 DEF AllOpened, Opened
  <2>6. CASE ~Above(t, c)
    <3>1. ~Above(t, g)
      <4>1. t # g
        BY <1>5, <2>1, LegsKind DEF IsThread
      <4> QED
        BY <1>5, <2>1, <2>2, <2>6, <4>1, AboveParent
    <3>2. store'[NodeFile(g)] = store[NodeFile(g)] /\ store'[NodeFile(c)] = store[NodeFile(c)]
      BY <1>2, <2>3, <2>4, <2>6, <3>1 DEF AgreeOutside
    <3> QED
      BY <1>4, <3>2 DEF AllOpened, Opened
  <2> QED
    BY <2>5, <2>6
<1>7. QED
  BY <1>3, <1>4, <1>6 DEF Gates, AllOpened, Editing

LEMMA GatesNext ==
  EngineInv /\ OneStart /\ ThreadInv /\ GatesInv /\ [Next]_vars => GatesInv'
<1> SUFFICES ASSUME EngineInv, OneStart, ThreadInv, GatesInv, [Next]_vars,
                    PullRequest, GatesApart, GatesAttended,
                    used'["start"] <= 1, used'["redelivery"] = 0
             PROVE  Gates'
  BY DEF GatesInv, Calm
<1>1. used["start"] <= 1 /\ used["redelivery"] = 0
  BY RegimeBefore
<1>2. Threads /\ Gates
  BY <1>1 DEF ThreadInv, GatesInv, Calm
<1>3. CASE Work
  <2>1. PICK j \in jobs : Step(j)
    BY <1>3 DEF Work
  <2>2. CASE Execute(j)
    BY <1>2, <2>2, GatesExecute
  <2>3. CASE Push(j)
    BY <1>1, <1>2, <2>3, GatesPush
  <2>4. CASE \/ FailPush(j) \/ FailComment(j) \/ Finish(j) \/ Report(j)
             \/ MarkInProgress(j) \/ StartLegs(j) \/ StartLegsWithComment(j)
    BY <1>2, <2>4, GatesAside
  <2> QED
    BY <2>1, <2>2, <2>3, <2>4 DEF Step
<1>4. CASE \E command \in Commands : \E said \in SaidWith(command) : Comment(command, said)
  BY <1>2, <1>4, GatesComment
<1>5. CASE \E p \in DOMAIN Tree \ {<<>>} : Redeliver(p)
  <2>1. Use("redelivery")
    BY <1>5 DEF Redeliver
  <2> QED
    BY <1>1, <2>1, UseOK DEF Bounds
<1>6. CASE \E j \in jobs : Die(j)
  BY <1>2, <1>6, GatesAside
<1>7. CASE UNCHANGED vars
  BY <1>2, <1>7 DEF Gates, vars
<1>8. QED
  BY <1>3, <1>4, <1>5, <1>6, <1>7 DEF Next

LEMMA InitGates == Init => GatesInv
<1> SUFFICES ASSUME Init PROVE Gates
  BY DEF GatesInv
<1>1. jobs = {} /\ \A f \in Files : store[f] = Missing
  BY DEF Init
<1>2. \A g \in LegGates : NodeFile(ParentPath(g)) \in Files
  BY LegGatesAre
<1>3. QED
  BY <1>1, <1>2 DEF Gates, AllOpened, Opened

LEMMA GatesKept == Spec => []GatesInv
BY InitThreads, ThreadNext, InitOneStart, OneStartNext, InitComment, CommentNext, InitGates,
   GatesNext, EngineInvariant, PTL DEF Spec

\* The gates the engine looks for: _find_open_gate does not go into dynamic fan-outs.
GatesStatic == \A p \in LegGates : \A k \in 1 .. Len(p) : ~IsDynamic(Prefix(p, k))

LEMMA GateIsOpen ==
  ASSUME AllOpened(store), DOMAIN store = Files, GatesStatic
  PROVE  GateOpened
<1> SUFFICES ASSUME NEW p \in LegGates, Started, Live(p) PROVE p \in OpenGates(store, None)
  BY DEF GateOpened, Started
<1> DEFINE t == ParentPath(p)
<1>1. /\ p \in DOMAIN Tree \ {<<>>} /\ NodeFile(p) \in Files
      /\ t \in DOMAIN Tree \ {<<>>} /\ NodeKind(t) = "sequence" /\ NodeFile(t) \in Files
  BY LegGatesAre
<1>2. /\ p \in Seq(STRING) /\ Len(p) \in Nat \ {0} /\ Len(t) = Len(p) - 1
      /\ t = Prefix(p, Len(p) - 1) /\ Len(t) \in Nat \ {0} /\ t \in Seq(STRING)
  BY <1>1, NodesAreChildren
<1>3. /\ store[NodeFile(t)].sub_state = p[Len(p)]
      /\ Read(store, NodeFile(t)) # Missing
      /\ StateOf(store, t) \notin Terminal
  <2>1. Len(p) - 1 \in 1 .. Len(p) - 1 /\ (Len(p) - 1) + 1 = Len(p)
    BY <1>2
  <2>2. NodeKind(Prefix(p, Len(p) - 1)) = "sequence" =>
          /\ Read(store, NodeFile(Prefix(p, Len(p) - 1))) # Missing
          /\ store[NodeFile(Prefix(p, Len(p) - 1))].sub_state = p[(Len(p) - 1) + 1]
          /\ StateOf(store, Prefix(p, Len(p) - 1)) \notin Terminal
    BY <2>1 DEF Live, OnCursors
  <2> QED
    BY <1>1, <1>2, <2>1, <2>2
<1>4. store[NodeFile(p)] # Missing /\ store[NodeFile(p)].gate = "open"
  <2>1. /\ store[NodeFile(t)] # Missing /\ store[NodeFile(t)].state \notin Terminal
        /\ store[NodeFile(t)].sub_state = LastId(p)
    BY <1>1, <1>3 DEF Read, StateOf, LastId
  <2> QED
    BY <2>1 DEF AllOpened, Opened
<1>5. Prefix(p, 1) = CurrentFanout(store[InstanceFile].phase)
  <2> DEFINE c == Prefix(p, 1)
  <2>1. 1 \in 0 .. Len(p) /\ 1 < Len(p)
    BY <1>2
  <2>2. c \in DOMAIN Tree /\ c # <<>> /\ Tree[c].kind \in Containers /\ Len(c) = 1 /\ LastId(c) = p[1]
    <3>1. /\ Prefix(p, 1) \in DOMAIN Tree
          /\ Len(Prefix(p, 1)) = 1
          /\ 1 < Len(p) => Tree[Prefix(p, 1)].kind \in Containers
          /\ 1 > 0 => /\ Prefix(p, 1) # <<>>
                      /\ LastId(Prefix(p, 1)) = p[1]
      BY <1>1, <2>1, PrefixesAreNodes
    <3> QED
      BY <2>1, <3>1
  <2>3. ParentPath(c) = <<>>
    <3>1. ParentPath(c) \in Seq(STRING) /\ Len(ParentPath(c)) = 0
      BY <2>2, NodesAreChildren
    <3> QED
      BY <3>1
  <2>4. NodeKind(c) = "fanout"
    <3>1. NodeKind(c) # "sequence"
      BY <2>2, <2>3, LegAssumption DEF NodeKind, None
    <3> QED
      BY <2>2, <3>1, TreeAssumption DEF NodeKind, Containers
  <2>5. p[1] \in ChildIds(<<>>) /\ c = <<p[1]>>
    BY <2>2, <2>3, NodesAreChildren DEF Child
  <2>6. p[1] \in FanoutIds
    BY <2>4, <2>5 DEF FanoutIds
  <2>7. p[1] = store[InstanceFile].phase
    BY DEF Live
  <2> QED
    BY <2>5, <2>6, <2>7, CurrentIs
<1>6. OnCursors(store, p)
  BY DEF Live
<1>7. QED
  BY <1>1, <1>4, <1>5, <1>6 DEF OpenGates, GatesStatic, Started, Read

\* In every calm run of a protocol whose leg gates follow agents, outside dynamic fan-outs,
\* the gate a leg has come to is one that an answer finds: whatever the jobs do that push
\* meanwhile, the cursor of the leg and the file of the gate say the same (advance.py,
\* next.py, _find_open_gate).
THEOREM GatesAreOpen == Spec => [](Calm /\ GatesAttended /\ GatesStatic => GateOpened)
<1>1. EngineInv /\ GatesInv => (Calm /\ GatesAttended /\ GatesStatic => GateOpened)
  BY GateIsOpen DEF EngineInv, StoreOK, GatesInv, Gates
<1>2. QED
  BY <1>1, EngineInvariant, GatesKept, PTL
=============================================================================

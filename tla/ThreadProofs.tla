---------------------------- MODULE ThreadProofs -----------------------------
(***************************************************************************)
(* The threads of control of an instance that is started once and whose    *)
(* events arrive once, for every protocol.                                 *)
(*                                                                         *)
(* The root and every leg of a fan-out are a thread.  A thread is at a     *)
(* node if a `continue` to it is on its way or a job there has not pushed  *)
(* yet; it waits at a node if the branch says so: a barrier, a gate, a     *)
(* phase that halted.  At most one of the two, at one node, and within     *)
(* that node only if it is a fan-out whose barrier is open.                *)
(***************************************************************************)
EXTENDS ControlProofs, FiniteSetTheorems, WellFoundedInduction

\* t is p or above it.
Above(t, p) == Len(t) <= Len(p) /\ t = Prefix(p, Len(t))

IsLeg(p) == p \in DOMAIN Tree /\ p # <<>> /\ NodeKind(ParentPath(p)) = "fanout"

\* The thread node p is of: the leg it is or that it is a child of, or the root.
Thread(p) == IF NodeKind(ParentPath(p)) = "fanout" THEN p ELSE ParentPath(p)

\* No gate of a leg has the name of a gate of the root: enter_node opens both in
\* one file.  Nobody reads the files it opens for the others.
GatesApart == \A p \in LegGates : NodeKind(<<LastId(p)>>) # "gate"
Strays == {RootGateFile(p) : p \in LegGates}

-----------------------------------------------------------------------------
(* What the branch says of threads. *)

Present(S, p) == S[NodeFile(p)] # Missing
Going(S, p) == Present(S, p) /\ S[NodeFile(p)].state \notin Terminal

\* Where a thread waits: where the root halted, an open gate, an open barrier.
Waits(S, p) ==
  /\ S[InstanceFile] # Missing
  /\ \/ p = <<S[InstanceFile].halted>>
     \/ /\ NodeKind(p) = "gate" /\ Present(S, p)
        /\ S[NodeFile(p)].gate \in {"open", "changes_requested"}
     \/ /\ NodeKind(p) = "fanout"
        /\ IF Len(p) > 1 THEN S[JoinFile(p)] # Missing /\ ~S[JoinFile(p)].joined
           ELSE ~S[InstanceFile].joined /\ \E l \in ChildIds(p) : Present(S, Child(p, l))
Places(S) == {p \in DOMAIN Tree \ {<<>>} : Waits(S, p)}

\* Leg x is one that its fan-out waits for.
Expected(S, x) ==
  /\ LastId(x) \in LegIds(S, ParentPath(x))
  /\ Len(x) > 2 => S[JoinFile(ParentPath(x))] # Missing

\* p is of the current phase, and in no leg that is over.
Inside(S, p) ==
  /\ S[InstanceFile] # Missing
  /\ p[1] = S[InstanceFile].phase
  /\ \A x \in DOMAIN Tree : IsLeg(x) /\ Above(x, p) => Expected(S, x) /\ Going(S, x)

\* The attempts of a unit are in its history, the one under way is not.
HistoryOK(S, p) ==
  Present(S, p) =>
    LET unit == S[NodeFile(p)] IN
    /\ unit.history = IF unit.state = LifeState(p) THEN unit.iteration - 1 ELSE unit.iteration
    /\ unit.state = "failed" /\ ~IsRootChild(p) => unit.iteration = Tree[p].max

-----------------------------------------------------------------------------
(* What the jobs and events hold. *)

Woken(E) == {e.path : e \in {d \in E : d.command = "continue"}}
Called(E) == {e.path : e \in {d \in E : d.command = "join"}}

Editing(j) == j.stage = "edited" /\ j.todo.push

\* Where a result goes on.
Hands(r) == IF r.runs THEN r.legs ELSE Woken(r.emit)

At(j) ==
  IF Unpushed(j) THEN IF j.role = "leg" \/ j.command = "continue" THEN {j.path} ELSE {}
  ELSE Hands(j.todo)
Woke == Woken(waiting)
AtAll == (UNION {At(j) : j \in jobs}) \union Woke

\* The units whose agents run or will.
Running(j) ==
  IF Unpushed(j) THEN IF j.role = "leg" THEN {j.path} ELSE {}
  ELSE IF j.todo.runs THEN j.todo.legs ELSE {}
RunningAll == UNION {Running(j) : j \in jobs}

\* The joins that were called, or will be.
Probed(j) ==
  (IF j.role = "join" THEN {j.path} ELSE {}) \union
  (IF Unpushed(j) \/ j.todo.runs THEN {} ELSE Called(j.todo.emit))
ProbedAll == (UNION {Probed(j) : j \in jobs}) \union Called(waiting)

\* Two nodes neither of whose threads is around the other.
Far(p, q) == ~Above(Thread(p), q) /\ ~Above(Thread(q), p)
\* q is a fan-out around p.
Over(q, p) == NodeKind(q) = "fanout" /\ q # p /\ Above(q, p)

\* One job or event at a node, and at nodes of one thread.
Sole ==
  /\ \A j, k \in jobs : j # k => At(j) \cap At(k) = {}
  /\ \A j \in jobs : At(j) \cap Woke = {}
Spaced ==
  /\ \A p, q \in AtAll : p # q => Far(p, q)
  /\ \A p \in AtAll, q \in Places(store) : Far(p, q) \/ Over(q, p)
  /\ \A p, q \in Places(store) : p # q => Far(p, q) \/ Over(q, p) \/ Over(p, q)

AllInside == \A p \in AtAll \union Places(store) : p \in DOMAIN Tree \ {<<>>} /\ Inside(store, p)

RunningUnits == \A p \in RunningAll :
  Present(store, p) /\ store[NodeFile(p)].state = LifeState(p)

\* The fan-out whose barrier a join is to look at is there.
RootEntered(S) ==
  /\ S[InstanceFile] # Missing
  /\ S[InstanceFile].joined \/ \E p \in Places(S) : Len(p) = 1 /\ NodeKind(p) = "fanout"
ProbesOK == \A f \in ProbedAll :
  IF f = <<>> THEN RootEntered(store) ELSE store[JoinFile(f)] # Missing

Histories == \A p \in Units : HistoryOK(store, p)

-----------------------------------------------------------------------------
(* What a script promises to do to the thread it works for. *)

\* The group of the runs that may end the wait at p.
PlaceGroup(p) ==
  IF NodeKind(p) = "fanout" THEN <<"join", IF Len(p) > 1 THEN p ELSE <<>>>> ELSE RootGroup

\* Job j, on clone S, works for the thread at p, or the one that waits at p.
WorksAt(j, S, p) ==
  \/ p = j.path /\ (j.role = "leg" \/ j.command = "continue")
  \/ /\ j.role # "leg" /\ j.command # "continue"
     /\ Waits(S, p)
     /\ j.group = PlaceGroup(p)
     /\ NodeKind(p) = "fanout" => AllTerminal(S, p, p)

\* The join that is called when the leg t is over.
CalledBy(t) == IF t = <<>> THEN {} ELSE {IF Len(t) > 2 THEN ParentPath(t) ELSE <<>>}

\* The places of T in thread t.
Within(T, t) == {q \in Places(T) : Above(t, q)}

\* The result r on clone S stays in thread t, and goes on or waits at nodes of it, or
\* enters a fan-out of it.
Moves(S, r, t) ==
  LET T == r.store IN
  /\ \A f \in Files : T[f] # S[f] => f \in Strays \/ Above(t, f[2])
  /\ \A q \in Hands(r) \union Within(T, t) :
       /\ q \in DOMAIN Tree \ {<<>>} /\ Above(t, q)
       /\ t = <<>> => T[InstanceFile] # Missing /\ q[1] = T[InstanceFile].phase
       /\ \A x \in DOMAIN Tree : IsLeg(x) /\ Above(t, x) /\ Above(x, q) =>
            Going(T, x) /\ (x # t => Expected(T, x))
  /\ \A p, q \in Hands(r) : p # q => Far(p, q)
  /\ \A p \in Hands(r), q \in Within(T, t) : Far(p, q) \/ Over(q, p)
  /\ \A p, q \in Within(T, t) : p # q => Far(p, q) \/ Over(q, p) \/ Over(p, q)
  /\ r.runs => \A p \in r.legs : Present(T, p) /\ T[NodeFile(p)].state = LifeState(p)
  /\ ~r.runs => Called(r.emit) \subseteq CalledBy(t)
  /\ t = <<>> /\ RootEntered(S) => RootEntered(T)
  /\ \A p \in Units : Above(t, p) /\ HistoryOK(S, p) => HistoryOK(T, p)

\* The thread's files are still those of the clone.
Synced(S, t) == \A f \in Files \ Strays : Above(t, f[2]) => store[f] = S[f]

EditsOK == \A j \in jobs : Editing(j) /\ j.command # "start" =>
  \E p \in DOMAIN Tree \ {<<>>} :
    WorksAt(j, j.clone, p) /\ Moves(j.clone, j.todo, Thread(p)) /\ Synced(j.clone, Thread(p))

-----------------------------------------------------------------------------
(* The start, and the names of the groups. *)

StartAlone == \A j \in jobs : j.command = "start" =>
  /\ jobs = {j}
  /\ \A w \in waiting : Group(w) = RootGroup /\ w.command \in Replies
  /\ Editing(j) => Moves(j.clone, j.todo, <<>>)
  /\ j.stage # "ready" => j.todo.runs \/ j.todo.emit = {}

GroupsNamed ==
  /\ \A j \in jobs :
       /\ j.command = "continue" => j.group = <<"engine", j.path>>
       /\ j.role = "join" => j.group = <<"join", j.path>>
       /\ j.role = "plan" /\ j.command # "continue" => j.group = RootGroup
  /\ \A w \in waiting :
       /\ w.command = "continue" => w.workflow = "engine"
       /\ w.command \in Replies \union {"start"} => Group(w) = RootGroup

Calm == /\ PullRequest /\ GatesApart
        /\ used["start"] <= 1 /\ used["redelivery"] = 0

Threads ==
  /\ Sole
  /\ Spaced
  /\ AllInside
  /\ RunningUnits
  /\ ProbesOK
  /\ Histories
  /\ EditsOK
  /\ StartAlone
  /\ GroupsNamed

ThreadInv == Calm => Threads

-----------------------------------------------------------------------------
(* Nodes above and below each other. *)

LEMMA AboveIs ==
  ASSUME NEW a \in Seq(STRING), NEW b \in Seq(STRING)
  PROVE  Above(a, b) <=> Len(a) <= Len(b) /\ \A i \in 1 .. Len(a) : a[i] = b[i]
<1>1. Len(a) \in Nat /\ Len(b) \in Nat
  OBVIOUS
<1>2. ASSUME Len(a) <= Len(b)
      PROVE  a = Prefix(b, Len(a)) <=> \A i \in 1 .. Len(a) : a[i] = b[i]
  <2>1. /\ Prefix(b, Len(a)) \in Seq(STRING) /\ Len(Prefix(b, Len(a))) = Len(a)
        /\ \A i \in 1 .. Len(a) : Prefix(b, Len(a))[i] = b[i]
    BY <1>1, <1>2, PrefixProperties
  <2> QED
    BY <2>1
<1>3. QED
  BY <1>2 DEF Above

LEMMA AboveOrder ==
  ASSUME NEW a \in Seq(STRING), NEW b \in Seq(STRING), NEW c \in Seq(STRING)
  PROVE  /\ Above(a, a) /\ Above(<<>>, a)
         /\ Above(a, b) /\ Above(b, c) => Above(a, c)
         /\ Above(a, b) /\ Above(b, a) => a = b
         /\ Above(a, c) /\ Above(b, c) => Above(a, b) \/ Above(b, a)
<1>1. Len(a) \in Nat /\ Len(b) \in Nat /\ Len(c) \in Nat
  OBVIOUS
<1>2. <<>> \in Seq(STRING) /\ Len(<<>>) = 0
  OBVIOUS
<1>3. Above(a, a) /\ Above(<<>>, a)
  <2>1. ASSUME NEW z \in Seq(STRING), Len(z) = 0 PROVE Above(z, a)
    <3>1. Above(z, a) <=> 0 <= Len(a) /\ \A i \in 1 .. 0 : z[i] = a[i]
      BY <2>1, AboveIs
    <3> QED
      BY <1>1, <3>1
  <2>2. Above(<<>>, a)
    BY <1>2, <2>1
  <2> QED
    BY <1>1, <2>2, AboveIs
<1>4. Above(a, b) /\ Above(b, c) => Above(a, c)
  BY <1>1, AboveIs
<1>5. Above(a, b) /\ Above(b, a) => a = b
  BY <1>1, AboveIs
<1>6. Above(a, c) /\ Above(b, c) => Above(a, b) \/ Above(b, a)
  <2>1. CASE Len(a) <= Len(b)
    BY <1>1, <2>1, AboveIs
  <2>2. CASE Len(b) <= Len(a)
    BY <1>1, <2>2, AboveIs
  <2> QED
    BY <1>1, <2>1, <2>2
<1>7. QED
  BY <1>3, <1>4, <1>5, <1>6

LEMMA AboveFirst ==
  ASSUME NEW a \in Seq(STRING), NEW b \in Seq(STRING), a # <<>>, Above(a, b)
  PROVE  a[1] = b[1] /\ b # <<>>
<1>1. Len(a) \in Nat \ {0} /\ Len(b) \in Nat
  BY EmptySeq
<1>2. QED
  BY <1>1, AboveIs

\* What is above a node and is not it is above its parent.
LEMMA AboveParent ==
  ASSUME NEW p \in DOMAIN Tree, p # <<>>, NEW a \in Seq(STRING)
  PROVE  /\ ParentPath(p) \in DOMAIN Tree /\ ParentPath(p) \in Seq(STRING)
         /\ p \in Seq(STRING)
         /\ Above(ParentPath(p), p) /\ ~Above(p, ParentPath(p)) /\ ParentPath(p) # p
         /\ Above(a, p) /\ a # p => Above(a, ParentPath(p))
<1> DEFINE up == ParentPath(p)
<1>1. /\ p \in Seq(STRING) /\ Len(p) \in Nat \ {0}
      /\ up \in DOMAIN Tree /\ up \in Seq(STRING)
      /\ up = Prefix(p, Len(p) - 1) /\ Len(up) = Len(p) - 1
  BY NodesAreChildren
<1>2. \A i \in 1 .. Len(p) - 1 : up[i] = p[i]
  <2>1. PICK k \in 0 .. Len(p) : k = Len(p) - 1
    BY <1>1
  <2>2. \A i \in 1 .. k : Prefix(p, k)[i] = p[i]
    BY <1>1, PrefixProperties
  <2> QED
    BY <1>1, <2>1, <2>2
<1> HIDE DEF up
<1>3. Above(up, p) /\ ~Above(p, up) /\ up # p
  BY <1>1, <1>2, AboveIs
<1>4. ASSUME Above(a, p), a # p PROVE Above(a, up)
  <2>1. Len(a) \in Nat /\ Len(a) <= Len(p) /\ \A i \in 1 .. Len(a) : a[i] = p[i]
    BY <1>1, <1>4, AboveIs
  <2>2. Len(a) # Len(p)
    BY <1>1, <1>4, <2>1
  <2>3. Len(a) <= Len(up) /\ \A i \in 1 .. Len(a) : a[i] = up[i]
    BY <1>1, <1>2, <2>1, <2>2
  <2> QED
    BY <1>1, <2>3, AboveIs
<1>5. QED
  BY <1>1, <1>3, <1>4 DEF up

-----------------------------------------------------------------------------
(* Threads. *)

IsThread(t) == t = <<>> \/ IsLeg(t)

LEMMA LegsKind ==
  ASSUME NEW t, IsLeg(t)
  PROVE  NodeKind(t) \in {"agent", "sequence"} /\ t \in DOMAIN Tree \ {<<>>}
BY LegAssumption DEF IsLeg

LEMMA ThreadIs ==
  ASSUME NEW p \in DOMAIN Tree, p # <<>>
  PROVE  /\ Thread(p) \in DOMAIN Tree /\ Thread(p) \in Seq(STRING)
         /\ IsThread(Thread(p))
         /\ Above(Thread(p), p)
         /\ IsLeg(p) => Thread(p) = p
         /\ ~IsLeg(p) => Thread(p) = ParentPath(p)
         /\ Thread(p) = <<>> <=> Len(p) = 1
<1>1. /\ p \in Seq(STRING) /\ Len(p) \in Nat \ {0}
      /\ ParentPath(p) \in DOMAIN Tree /\ Len(ParentPath(p)) = Len(p) - 1
      /\ ParentPath(p) \in Seq(STRING)
      /\ Tree[ParentPath(p)].kind \in Containers
  BY NodesAreChildren
<1>2. ParentPath(p) = <<>> <=> Len(p) = 1
  <2>1. ParentPath(p) = <<>> <=> Len(ParentPath(p)) = 0
    BY <1>1, EmptySeq
  <2> QED
    BY <1>1, <2>1
<1>3. NodeKind(<<>>) # "fanout"
  BY DEF NodeKind, None
<1>4. CASE IsLeg(p)
  BY <1>1, <1>2, <1>3, <1>4, AboveOrder DEF Thread, IsLeg, IsThread
<1>5. CASE ~IsLeg(p)
  <2>1. Thread(p) = ParentPath(p)
    BY <1>5 DEF Thread, IsLeg
  <2>2. IsThread(ParentPath(p))
    <3> SUFFICES ASSUME ParentPath(p) # <<>> PROVE IsLeg(ParentPath(p))
      BY DEF IsThread
    <3>1. NodeKind(ParentPath(p)) = Tree[ParentPath(p)].kind
      BY <1>1 DEF NodeKind
    <3>2. NodeKind(ParentPath(p)) # "root" /\ NodeKind(ParentPath(p)) # "fanout"
      BY <1>1, <1>5, <3>1, TreeAssumption DEF IsLeg
    <3>3. NodeKind(ParentPath(p)) = "sequence"
      BY <1>1, <3>1, <3>2 DEF Containers
    <3> QED
      BY <1>1, <3>3, LegAssumption DEF IsLeg
  <2> QED
    BY <1>1, <1>2, <1>5, <2>1, <2>2, AboveParent
<1>6. QED
  BY <1>4, <1>5

\* The thread of a node is the last above it; a fan-out around it is above that.
LEMMA ThreadsAbove ==
  ASSUME NEW p \in DOMAIN Tree, p # <<>>
  PROVE  /\ \A t : IsThread(t) /\ Above(t, p) => Above(t, Thread(p))
         /\ \A q \in DOMAIN Tree : Over(q, p) => Above(q, Thread(p)) /\ q # Thread(p)
<1>1. /\ Thread(p) \in DOMAIN Tree /\ IsThread(Thread(p)) /\ Above(Thread(p), p)
      /\ IsLeg(p) => Thread(p) = p
      /\ ~IsLeg(p) => Thread(p) = ParentPath(p)
      /\ Thread(p) \in Seq(STRING) /\ p \in Seq(STRING)
  BY ThreadIs, TreeAssumption
<1>2. \A a \in Seq(STRING) : Above(a, p) /\ a # p => Above(a, ParentPath(p))
  BY AboveParent
<1>3. ASSUME NEW t, IsThread(t), Above(t, p)
      PROVE  Above(t, Thread(p))
  <2>1. t \in Seq(STRING)
    BY <1>3, TreeAssumption DEF IsThread, IsLeg
  <2>2. CASE t = p
    <3>1. IsLeg(p)
      BY <1>3, <2>2 DEF IsThread
    <3> QED
      BY <1>1, <2>1, <2>2, <3>1, AboveOrder
  <2>3. CASE t # p
    BY <1>1, <1>2, <1>3, <2>1, <2>3
  <2> QED
    BY <2>2, <2>3
<1>4. ASSUME NEW q \in DOMAIN Tree, Over(q, p)
      PROVE  Above(q, Thread(p)) /\ q # Thread(p)
  <2>1. q \in Seq(STRING) /\ Above(q, p) /\ q # p /\ NodeKind(q) = "fanout"
    BY <1>4, TreeAssumption DEF Over
  <2>2. Above(q, Thread(p))
    BY <1>1, <1>2, <2>1
  <2>3. q # Thread(p)
    BY <1>1, <2>1, LegsKind DEF IsThread, NodeKind, None
  <2> QED
    BY <2>2, <2>3
<1>5. QED
  BY <1>3, <1>4

\* Where neither node is in the other's thread.
LEMMA Aside ==
  ASSUME NEW t, IsThread(t),
         NEW p \in DOMAIN Tree \ {<<>>}, NEW q \in DOMAIN Tree \ {<<>>},
         Above(t, q), ~Above(t, p)
  PROVE  /\ ~Above(Thread(p), t) => Far(p, q)
         /\ NodeKind(p) = "fanout" /\ Above(p, t) => Over(p, q)
         /\ p # q
<1>1. t \in Seq(STRING) /\ p \in Seq(STRING) /\ q \in Seq(STRING)
  BY TreeAssumption DEF IsThread, IsLeg
<1>2. /\ Thread(p) \in Seq(STRING) /\ Above(Thread(p), p)
      /\ Thread(q) \in Seq(STRING) /\ Above(Thread(q), q)
      /\ Above(t, Thread(q))
  BY ThreadIs, ThreadsAbove
<1>3. p # q
  OBVIOUS
<1>4. ASSUME ~Above(Thread(p), t) PROVE Far(p, q)
  <2>1. ~Above(Thread(q), p)
    BY <1>1, <1>2, AboveOrder
  <2>2. ASSUME Above(Thread(p), q) PROVE FALSE
    <3>1. Above(Thread(p), t) \/ Above(t, Thread(p))
      BY <1>1, <1>2, <2>2, AboveOrder
    <3>2. Above(t, p)
      BY <1>1, <1>2, <1>4, <3>1, AboveOrder
    <3> QED
      BY <3>2
  <2> QED
    BY <2>1, <2>2 DEF Far
<1>5. ASSUME NodeKind(p) = "fanout", Above(p, t) PROVE Over(p, q)
  <2>1. Above(p, q)
    BY <1>1, <1>5, AboveOrder
  <2> QED
    BY <1>3, <1>5, <2>1 DEF Over
<1>6. QED
  BY <1>3, <1>4, <1>5

\* Nodes that are far apart, or a fan-out around a node, are outside its thread.
LEMMA Outside ==
  ASSUME NEW p \in DOMAIN Tree \ {<<>>}, NEW a \in DOMAIN Tree \ {<<>>},
         Far(p, a) \/ Over(p, a)
  PROVE  /\ ~Above(Thread(a), p)
         /\ ~Above(Thread(p), Thread(a)) \/ (NodeKind(p) = "fanout" /\ Above(p, Thread(a)))
<1>1. p \in Seq(STRING) /\ a \in Seq(STRING)
  BY TreeAssumption
<1>2. /\ Thread(p) \in Seq(STRING) /\ Above(Thread(p), p)
      /\ Thread(a) \in Seq(STRING) /\ Above(Thread(a), a)
  BY ThreadIs
<1>3. CASE Far(p, a)
  BY <1>1, <1>2, <1>3, AboveOrder DEF Far
<1>4. CASE Over(p, a)
  <2>1. Above(p, Thread(a)) /\ p # Thread(a) /\ NodeKind(p) = "fanout"
    BY <1>4, ThreadsAbove DEF Over
  <2> QED
    BY <1>1, <1>2, <2>1, AboveOrder
<1>5. QED
  BY <1>3, <1>4

LEMMA FarIs ==
  ASSUME NEW p \in DOMAIN Tree \ {<<>>}, NEW q \in DOMAIN Tree \ {<<>>}
  PROVE  /\ Far(p, q) <=> Far(q, p)
         /\ Far(p, q) => p # q
<1>1. Above(Thread(p), p)
  BY ThreadIs
<1>2. QED
  BY <1>1 DEF Far

-----------------------------------------------------------------------------
(* What is read of a store, thread by thread. *)

LEMMA FilePaths ==
  /\ InstanceFile[1] = "instance" /\ InstanceFile[2] = <<>>
  /\ \A p : /\ NodeFile(p)[1] = "node" /\ NodeFile(p)[2] = p
            /\ JoinFile(p)[1] = "join" /\ JoinFile(p)[2] = p
            /\ ManifestFile(p)[1] = "manifest" /\ ManifestFile(p)[2] = p
            /\ AnswersFile(p)[1] = "answers" /\ AnswersFile(p)[2] = p
            /\ RootGateFile(p) = NodeFile(<<LastId(p)>>)
BY DEF InstanceFile, NodeFile, JoinFile, ManifestFile, AnswersFile, RootGateFile

\* The files of gates that leg gates share are those of no node that has a file.
LEMMA NoStrays ==
  ASSUME GatesApart
  PROVE  /\ \A f \in Strays : f[1] = "node"
         /\ \A p \in DOMAIN Tree : NodeKind(p) \in {"agent", "sequence", "gate"} =>
              NodeFile(p) \notin Strays
<1>1. \A f \in Strays : \E g \in LegGates : f = NodeFile(<<LastId(g)>>)
  BY DEF Strays, RootGateFile
<1>2. ASSUME NEW p \in DOMAIN Tree, NodeKind(p) \in {"agent", "sequence", "gate"},
             NEW g \in LegGates, NodeFile(p) = NodeFile(<<LastId(g)>>)
      PROVE  FALSE
  <2>1. p = <<LastId(g)>>
    BY <1>2, FilePaths
  <2>2. NodeKind(p) = "sequence"
    BY <1>2, <2>1, NamesAssumption DEF GatesApart
  <2>3. p # <<>> /\ NodeKind(ParentPath(p)) = "fanout"
    BY <1>2, <2>2, LegAssumption DEF NodeKind, None
  <2>4. ParentPath(p) \in DOMAIN Tree /\ Len(ParentPath(p)) = Len(p) - 1 /\ Len(p) = 1
        /\ ParentPath(p) \in Seq(STRING)
    <3>1. Len(<<LastId(g)>>) = 1
      OBVIOUS
    <3> QED
      BY <1>2, <2>1, <2>3, <3>1, NodesAreChildren
  <2>5. ParentPath(p) = <<>>
    BY <2>4, EmptySeq
  <2> QED
    BY <2>3, <2>5 DEF NodeKind, None
<1>3. \A f \in Strays : f[1] = "node"
  BY <1>1, FilePaths
<1>4. QED
  BY <1>1, <1>2, <1>3, Zenon

\* S and T agree on thread t; outside it.
Agree(S, T, t) == \A f \in Files \ Strays : Above(t, f[2]) => T[f] = S[f]
AgreeOutside(S, T, t) == \A f \in Files \ Strays : ~Above(t, f[2]) => T[f] = S[f]

HasFile(p) == NodeKind(p) \in {"agent", "sequence", "gate"}

LEMMA NotStray ==
  ASSUME GatesApart
  PROVE  /\ InstanceFile \in Files \ Strays
         /\ \A p \in DOMAIN Tree : HasFile(p) => NodeFile(p) \in Files \ Strays
         /\ \A p \in NestedFanouts : JoinFile(p) \in Files \ Strays
         /\ \A p \in DOMAIN Tree : IsDynamic(p) => ManifestFile(p) \in Files \ Strays
BY FilesAre, NoStrays, FilePaths DEF HasFile

LEMMA LongFanouts ==
  ASSUME NEW p \in DOMAIN Tree \ {<<>>}, NodeKind(p) = "fanout"
  PROVE  /\ Len(p) > 1 => p \in NestedFanouts
         /\ Len(p) \in Nat \ {0}
         /\ Len(p) = 1 \/ Len(p) > 1
         /\ Len(p) = 1 <=> ParentPath(p) = <<>>
<1>1. Len(p) \in Nat \ {0}
  BY NodesAreChildren
<1>2. ParentPath(p) = <<>> <=> Len(ParentPath(p)) = 0
  BY NodesAreChildren, EmptySeq
<1>3. Len(ParentPath(p)) = Len(p) - 1
  BY NodesAreChildren
<1>4. QED
  BY <1>1, <1>2, <1>3 DEF NestedFanouts, IsRootChild

\* The fan-out around a leg.
LEMMA LegsParent ==
  ASSUME NEW x, IsLeg(x)
  PROVE  /\ x \in DOMAIN Tree \ {<<>>} /\ HasFile(x) /\ x \in Seq(STRING)
         /\ ParentPath(x) \in DOMAIN Tree \ {<<>>} /\ NodeKind(ParentPath(x)) = "fanout"
         /\ Above(ParentPath(x), x) /\ ParentPath(x) # x
         /\ Len(x) > 1 /\ Len(x) \in Nat
         /\ Len(x) > 2 => ParentPath(x) \in NestedFanouts
         /\ ~(Len(x) > 2) => Len(ParentPath(x)) = 1
         /\ LastId(x) \in ChildIds(ParentPath(x)) /\ x = Child(ParentPath(x), LastId(x))
<1>1. /\ x \in DOMAIN Tree \ {<<>>} /\ HasFile(x) /\ NodeKind(ParentPath(x)) = "fanout"
  BY LegsKind DEF IsLeg, HasFile
<1>2. /\ x \in Seq(STRING) /\ Len(x) \in Nat \ {0} /\ Len(ParentPath(x)) = Len(x) - 1
      /\ ParentPath(x) \in DOMAIN Tree /\ LastId(x) \in ChildIds(ParentPath(x))
      /\ x = Child(ParentPath(x), LastId(x))
  BY <1>1, NodesAreChildren
<1>3. ParentPath(x) # <<>>
  BY <1>1 DEF NodeKind, None
<1>4. Above(ParentPath(x), x) /\ ParentPath(x) # x
  BY <1>1, <1>2, AboveParent
<1>5. Len(ParentPath(x)) \in Nat \ {0} /\ (Len(ParentPath(x)) > 1 => ParentPath(x) \in NestedFanouts)
  BY <1>1, <1>2, <1>3, LongFanouts
<1>6. QED
  BY <1>1, <1>2, <1>3, <1>4, <1>5

LEMMA ThreadsAre ==
  ASSUME NEW t, IsThread(t)
  PROVE  /\ t \in Seq(STRING) /\ t \in DOMAIN Tree /\ Above(t, t)
         /\ t # <<>> => /\ IsLeg(t) /\ t \in DOMAIN Tree \ {<<>>} /\ HasFile(t)
                        /\ ~Above(t, <<>>) /\ ~Above(t, InstanceFile[2])
                        /\ ~Above(t, ParentPath(t))
         /\ t = <<>> => Above(t, InstanceFile[2])
<1>1. t \in Seq(STRING) /\ t \in DOMAIN Tree
  BY TreeAssumption DEF IsThread, IsLeg
<1>2. Above(t, t) /\ Above(<<>>, t)
  BY <1>1, AboveOrder
<1>3. t = <<>> => Above(t, InstanceFile[2])
  BY <1>2, FilePaths
<1>4. ASSUME t # <<>>
      PROVE  /\ IsLeg(t) /\ t \in DOMAIN Tree \ {<<>>} /\ HasFile(t)
             /\ ~Above(t, <<>>) /\ ~Above(t, InstanceFile[2])
             /\ ~Above(t, ParentPath(t))
  <2>1. <<>> \in Seq(STRING)
    OBVIOUS
  <2>2. ~Above(t, <<>>)
    BY <1>1, <1>2, <1>4, <2>1, AboveOrder
  <2>3. ~Above(t, ParentPath(t))
    BY <1>1, <1>4, AboveParent
  <2>4. IsLeg(t)
    BY <1>4 DEF IsThread
  <2> QED
    BY <2>2, <2>3, <2>4, LegsParent, FilePaths
<1>5. QED
  BY <1>1, <1>2, <1>3, <1>4

-----------------------------------------------------------------------------
(* What is read of two stores that agree on a thread, or outside it. *)

LEMMA SameLeg ==
  ASSUME NEW S, NEW T, DOMAIN S = Files, DOMAIN T = Files, NEW x, IsLeg(x),
         IsDynamic(ParentPath(x)) => T[ManifestFile(ParentPath(x))] = S[ManifestFile(ParentPath(x))],
         Len(x) > 2 => T[JoinFile(ParentPath(x))] = S[JoinFile(ParentPath(x))]
  PROVE  Expected(T, x) <=> Expected(S, x)
<1>1. LegIds(T, ParentPath(x)) = LegIds(S, ParentPath(x))
  <2>1. CASE IsDynamic(ParentPath(x))
    <3>1. ManifestFile(ParentPath(x)) \in Files
      BY <2>1, FilesAre, LegsParent
    <3> QED
      BY <2>1, <3>1 DEF LegIds, Read
  <2>2. CASE ~IsDynamic(ParentPath(x))
    BY <2>2 DEF LegIds
  <2> QED
    BY <2>1, <2>2
<1>2. QED
  BY <1>1 DEF Expected

\* A node outside a thread waits, and is inside, whatever the thread does.
LEMMA ReadOutside ==
  ASSUME GatesApart, NEW S, NEW T, DOMAIN S = Files, DOMAIN T = Files,
         NEW t, IsThread(t), AgreeOutside(S, T, t), t # <<>> => Present(S, t) /\ Present(T, t),
         NEW p \in DOMAIN Tree \ {<<>>}, ~Above(t, p)
  PROVE  /\ Waits(T, p) <=> Waits(S, p)
         /\ Inside(T, p) <=> Inside(S, p)
         /\ HasFile(p) => T[NodeFile(p)] = S[NodeFile(p)]
         /\ T[InstanceFile] = S[InstanceFile]
         /\ t # <<>>
<1>1. t \in Seq(STRING) /\ p \in Seq(STRING) /\ <<>> \in Seq(STRING)
  BY TreeAssumption DEF IsThread, IsLeg
<1>2. t # <<>> /\ ~Above(t, <<>>)
  BY <1>1, AboveOrder
<1>3. T[InstanceFile] = S[InstanceFile]
  BY <1>2, NotStray, FilePaths DEF AgreeOutside
<1>4. \A q \in DOMAIN Tree : HasFile(q) /\ ~Above(t, q) => T[NodeFile(q)] = S[NodeFile(q)]
  BY NotStray, FilePaths DEF AgreeOutside
<1>5. \A q \in NestedFanouts : ~Above(t, q) => T[JoinFile(q)] = S[JoinFile(q)]
  BY NotStray, FilePaths DEF AgreeOutside
<1>6. \A q \in DOMAIN Tree : IsDynamic(q) /\ ~Above(t, q) => T[ManifestFile(q)] = S[ManifestFile(q)]
  BY NotStray, FilePaths DEF AgreeOutside
<1>7. Waits(T, p) <=> Waits(S, p)
  <2>1. CASE NodeKind(p) = "gate"
    BY <1>3, <1>4, <2>1 DEF Waits, Present, HasFile
  <2>2. CASE NodeKind(p) = "fanout"
    <3>1. Len(p) > 1 => T[JoinFile(p)] = S[JoinFile(p)]
      BY <1>5, <2>2, LongFanouts
    <3>2. ASSUME NEW l \in ChildIds(p)
          PROVE  Present(T, Child(p, l)) <=> Present(S, Child(p, l))
      <4>1. /\ Child(p, l) \in DOMAIN Tree /\ Child(p, l) # <<>>
            /\ ParentPath(Child(p, l)) = p
        BY ChildrenAreNodes
      <4>2. HasFile(Child(p, l))
        BY <2>2, LegsAre DEF HasFile
      <4>3. CASE ~Above(t, Child(p, l))
        BY <1>4, <4>1, <4>2, <4>3 DEF Present
      <4>4. CASE Above(t, Child(p, l))
        <5>1. t = Child(p, l)
          BY <1>1, <4>1, <4>4, AboveParent
        <5> QED
          BY <1>2, <5>1
      <4> QED
        BY <4>3, <4>4
    <3> QED
      BY <1>3, <2>2, <3>1, <3>2 DEF Waits
  <2>3. CASE NodeKind(p) \notin {"gate", "fanout"}
    BY <1>3, <2>3 DEF Waits
  <2> QED
    BY <2>1, <2>2, <2>3
<1>8. ASSUME NEW x, IsLeg(x), Above(x, p)
      PROVE  /\ Expected(T, x) <=> Expected(S, x)
             /\ Going(T, x) <=> Going(S, x)
  <2>1. /\ x \in DOMAIN Tree \ {<<>>} /\ HasFile(x) /\ x \in Seq(STRING)
        /\ ParentPath(x) \in DOMAIN Tree \ {<<>>} /\ Above(ParentPath(x), x)
        /\ Len(x) > 2 => ParentPath(x) \in NestedFanouts
    BY <1>8, LegsParent
  <2>2. ~Above(t, x)
    BY <1>1, <1>8, <2>1, AboveOrder
  <2>3. ~Above(t, ParentPath(x))
    BY <1>1, <2>1, <2>2, AboveOrder, TreeAssumption
  <2>4. Expected(T, x) <=> Expected(S, x)
    BY <1>5, <1>6, <1>8, <2>1, <2>3, SameLeg
  <2> QED
    BY <1>4, <2>1, <2>2, <2>4 DEF Going, Present
<1>9. Inside(T, p) <=> Inside(S, p)
  BY <1>3, <1>8 DEF Inside
<1>10. QED
  BY <1>2, <1>3, <1>4, <1>7, <1>9

\* What is read of a thread is its own files.
LEMMA ReadWithin ==
  ASSUME GatesApart, NEW S, NEW T, DOMAIN S = Files, DOMAIN T = Files,
         NEW t, IsThread(t), Agree(S, T, t),
         S[InstanceFile] # Missing <=> T[InstanceFile] # Missing,
         NEW p \in DOMAIN Tree \ {<<>>}, Above(t, p)
  PROVE  /\ Waits(T, p) <=> Waits(S, p)
         /\ HasFile(p) => T[NodeFile(p)] = S[NodeFile(p)]
         /\ Going(T, p) /\ IsLeg(p) <=> Going(S, p) /\ IsLeg(p)
         /\ IsLeg(p) /\ p # t => (Expected(T, p) <=> Expected(S, p))
<1>1. t \in Seq(STRING) /\ p \in Seq(STRING) /\ <<>> \in Seq(STRING)
  BY TreeAssumption DEF IsThread, IsLeg
<1>2. t = <<>> => T[InstanceFile] = S[InstanceFile]
  <2>1. t = <<>> => Above(t, InstanceFile[2])
    BY <1>1, FilePaths, AboveOrder
  <2> QED
    BY <2>1, NotStray DEF Agree
<1>3. \A q \in DOMAIN Tree : HasFile(q) /\ Above(t, q) => T[NodeFile(q)] = S[NodeFile(q)]
  BY NotStray, FilePaths DEF Agree
<1>4. \A q \in NestedFanouts : Above(t, q) => T[JoinFile(q)] = S[JoinFile(q)]
  BY NotStray, FilePaths DEF Agree
<1>5. \A q \in DOMAIN Tree : IsDynamic(q) /\ Above(t, q) => T[ManifestFile(q)] = S[ManifestFile(q)]
  BY NotStray, FilePaths DEF Agree
<1>6. t # <<>> => Len(p) # 1
  <2>1. ASSUME t # <<>>, Len(p) = 1 PROVE FALSE
    <3>1. Len(t) > 1 /\ Len(t) \in Nat
      BY <2>1, LegsParent DEF IsThread
    <3>2. Len(t) <= Len(p)
      BY <1>1, AboveIs
    <3> QED
      BY <2>1, <3>1, <3>2
  <2> QED
    BY <2>1
<1>7. Waits(T, p) <=> Waits(S, p)
  <2>1. \A h : p = <<h>> => Len(p) = 1
    OBVIOUS
  <2>2. p = <<T[InstanceFile].halted>> <=> p = <<S[InstanceFile].halted>>
    BY <1>2, <1>6, <2>1
  <2>3. CASE NodeKind(p) = "gate"
    BY <1>3, <2>2, <2>3 DEF Waits, Present, HasFile
  <2>4. CASE NodeKind(p) = "fanout"
    <3>1. Len(p) > 1 => T[JoinFile(p)] = S[JoinFile(p)]
      BY <1>4, <2>4, LongFanouts
    <3>2. ASSUME NEW l \in ChildIds(p)
          PROVE  Present(T, Child(p, l)) <=> Present(S, Child(p, l))
      <4>1. /\ Child(p, l) \in DOMAIN Tree /\ Child(p, l) # <<>>
            /\ ParentPath(Child(p, l)) = p /\ Child(p, l) \in Seq(STRING)
        BY ChildrenAreNodes
      <4>2. HasFile(Child(p, l))
        BY <2>4, LegsAre DEF HasFile
      <4>3. Above(t, Child(p, l))
        BY <1>1, <4>1, AboveParent, AboveOrder
      <4> QED
        BY <1>3, <4>1, <4>2, <4>3 DEF Present
    <3>3. ~(Len(p) > 1) => t = <<>>
      BY <1>6, <2>4, LongFanouts, Zenon
    <3>4. CASE Len(p) > 1
      BY <2>2, <2>4, <3>1, <3>4 DEF Waits
    <3>5. CASE ~(Len(p) > 1)
      <4>1. T[InstanceFile] = S[InstanceFile]
        BY <1>2, <3>3, <3>5
      <4> QED
        BY <2>4, <3>2, <3>5, <4>1 DEF Waits
    <3> QED
      BY <3>4, <3>5
  <2>5. CASE NodeKind(p) \notin {"gate", "fanout"}
    BY <2>2, <2>5 DEF Waits
  <2> QED
    BY <2>3, <2>4, <2>5
<1>8. ASSUME IsLeg(p)
      PROVE  /\ Going(T, p) <=> Going(S, p)
             /\ p # t => (Expected(T, p) <=> Expected(S, p))
  <2>1. /\ HasFile(p) /\ p \in DOMAIN Tree
        /\ ParentPath(p) \in DOMAIN Tree \ {<<>>} 
        /\ Len(p) > 2 => ParentPath(p) \in NestedFanouts
    BY <1>8, LegsParent
  <2>2. Going(T, p) <=> Going(S, p)
    BY <1>3, <2>1 DEF Going, Present
  <2>3. p # t => Above(t, ParentPath(p))
    BY <1>1, AboveParent
  <2>4. p # t => (Expected(T, p) <=> Expected(S, p))
    BY <1>4, <1>5, <1>8, <2>1, <2>3, SameLeg
  <2> QED
    BY <2>2, <2>4
<1>9. QED
  BY <1>3, <1>7, <1>8

-----------------------------------------------------------------------------
(* The nodes that jobs, events and the branch are at. *)

\* The leg of a fan-out that a node under it is in.
LEMMA LegBetween ==
  ASSUME NEW a \in DOMAIN Tree \ {<<>>}, NEW p \in DOMAIN Tree \ {<<>>}, Over(a, p)
  PROVE  \E x : IsLeg(x) /\ ParentPath(x) = a /\ Above(x, p) /\ Above(a, x) /\ ~Above(x, a)
                /\ x \in DOMAIN Tree
<1>1. a \in Seq(STRING) /\ p \in Seq(STRING) /\ Above(a, p) /\ a # p
  BY TreeAssumption DEF Over
<1>2. Len(a) \in Nat /\ Len(p) \in Nat /\ Len(a) <= Len(p) /\ \A i \in 1 .. Len(a) : a[i] = p[i]
  BY <1>1, AboveIs
<1>3. Len(a) < Len(p)
  <2>1. Len(a) # Len(p)
    BY <1>1, <1>2
  <2> QED
    BY <1>2, <2>1
<1> DEFINE x == Prefix(p, Len(a) + 1)
<1>4. /\ x \in DOMAIN Tree /\ Len(x) = Len(a) + 1 /\ \A i \in 1 .. Len(a) + 1 : x[i] = p[i]
      /\ x # <<>> /\ ParentPath(x) = Prefix(p, Len(a))
  <2>1. Len(a) + 1 \in 0 .. Len(p)
    BY <1>2, <1>3
  <2> QED
    BY <1>2, <2>1, PrefixesAreNodes
<1>5. ParentPath(x) = a
  BY <1>1, <1>4 DEF Above
<1> HIDE DEF x
<1>6. IsLeg(x)
  BY <1>4, <1>5 DEF IsLeg, Over
<1>7. Above(x, p)
  <2>1. x \in Seq(STRING)
    BY <1>4, TreeAssumption
  <2>2. Len(x) <= Len(p) /\ \A i \in 1 .. Len(x) : x[i] = p[i]
    BY <1>2, <1>3, <1>4
  <2> QED
    BY <1>1, <2>1, <2>2, AboveIs
<1>8. Above(a, x) /\ ~Above(x, a)
  BY <1>1, <1>4, <1>5, AboveParent
<1>9. QED
  BY <1>4, <1>5, <1>6, <1>7, <1>8

Others(j) == (UNION {At(k) : k \in jobs \ {j}}) \union Woke

LEMMA HoldersAre ==
  /\ \A p : p \in AtAll <=> (\E k \in jobs : p \in At(k)) \/ p \in Woke
  /\ \A j, p : p \in Others(j) <=> (\E k \in jobs : k # j /\ p \in At(k)) \/ p \in Woke
<1>1. ASSUME NEW p PROVE p \in AtAll <=> (\E k \in jobs : p \in At(k)) \/ p \in Woke
  BY DEF AtAll
<1>2. ASSUME NEW j, NEW p
      PROVE  p \in Others(j) <=> (\E k \in jobs : k # j /\ p \in At(k)) \/ p \in Woke
  BY DEF Others
<1>3. QED
  BY <1>1, <1>2

LEMMA SoleIs ==
  Sole <=> /\ \A j, k \in jobs : j # k => \A p : ~(p \in At(j) /\ p \in At(k))
           /\ \A j \in jobs : \A p : ~(p \in At(j) /\ p \in Woke)
BY DEF Sole

LEMMA PlaceIs ==
  ASSUME NEW S, NEW p
  PROVE  p \in Places(S) <=> p \in DOMAIN Tree \ {<<>>} /\ Waits(S, p)
BY DEF Places

\* The node a job works at, and the nodes the others are at.
LEMMA Anchored ==
  ASSUME GatesApart, Sole, Spaced, AllInside, NEW j \in jobs, Unpushed(j),
         NEW S, DOMAIN S = Files, DOMAIN store = Files,
         S[InstanceFile] # Missing, store[InstanceFile] # Missing,
         NEW a \in DOMAIN Tree \ {<<>>}, WorksAt(j, S, a), Synced(S, Thread(a))
  PROVE  /\ Inside(store, a)
         /\ \A p \in Others(j) : p \in DOMAIN Tree \ {<<>>} /\ Far(p, a)
         /\ \A p \in Places(store) : p # a => Far(p, a) \/ Over(p, a)
         /\ a \in At(j) \/ Waits(store, a)
         /\ a \in At(j) => a \notin Places(store)
<1> DEFINE t == Thread(a)
<1>1. IsThread(t) /\ t \in Seq(STRING) /\ Above(t, a) /\ a \in Seq(STRING)
  BY ThreadIs, TreeAssumption
<1>2. \A p \in Others(j) : p \in AtAll /\ p \notin At(j)
  BY HoldersAre, SoleIs
<1>3. \A p \in AtAll \union Places(store) : p \in DOMAIN Tree \ {<<>>} /\ Inside(store, p)
  BY DEF AllInside
<1>4. At(j) \subseteq AtAll
  BY DEF AtAll
<1>5. CASE a \in At(j)
  <2>1. \A p \in Others(j) : Far(p, a)
    <3>1. \A p \in Others(j) : p # a /\ p \in AtAll /\ a \in AtAll
      BY <1>2, <1>4, <1>5
    <3> QED
      BY <3>1 DEF Spaced
  <2>2. \A p \in Places(store) : Far(a, p) \/ Over(p, a)
    BY <1>4, <1>5 DEF Spaced
  <2>3. \A p \in Places(store) : (Far(p, a) \/ Over(p, a)) /\ p # a
    BY <1>3, <2>2, FarIs DEF Over
  <2> QED
    BY <1>2, <1>3, <1>4, <1>5, <2>1, <2>3
<1>6. CASE a \notin At(j)
  <2>1. /\ Waits(S, a)
        /\ NodeKind(a) = "fanout" => AllTerminal(S, a, a)
    BY <1>6 DEF WorksAt, At
  <2>2. Agree(S, store, t)
    BY DEF Agree, Synced
  <2>3. Waits(store, a)
    BY <1>1, <2>1, <2>2, ReadWithin
  <2>4. a \in Places(store)
    BY <2>3, PlaceIs
  <2>5. ASSUME NEW p \in AtAll \union Places(store), Over(a, p) PROVE FALSE
    <3>1. PICK x : IsLeg(x) /\ ParentPath(x) = a /\ Above(x, p) /\ Above(a, x) /\ ~Above(x, a)
                   /\ x \in DOMAIN Tree
      BY <1>3, <2>5, LegBetween
    <3>2. Expected(store, x) /\ Going(store, x)
      BY <1>3, <2>5, <3>1 DEF Inside
    <3>3. x \in Seq(STRING) /\ Above(t, x) /\ x # t /\ x \in DOMAIN Tree \ {<<>>}
      BY <1>1, <3>1, AboveOrder, LegsParent
    <3>4. Expected(S, x) /\ Going(S, x)
      BY <1>1, <2>2, <3>1, <3>2, <3>3, ReadWithin
    <3>5. LastId(x) \in LegIds(S, a) /\ x = Child(a, LastId(x))
      BY <3>1, <3>4, LegsParent DEF Expected
    <3>6. StateOf(S, x) = S[NodeFile(x)].state
      <4>1. NodeFile(x) \in Files
        BY <3>1, LegsParent, FilesAre DEF HasFile
      <4> QED
        BY <3>4, <4>1 DEF Going, Present, StateOf, Read
    <3>7. NodeKind(a) = "fanout"
      BY <2>5 DEF Over
    <3> QED
      BY <2>1, <3>4, <3>5, <3>6, <3>7 DEF AllTerminal, Going
  <2>6. \A p \in Others(j) : Far(p, a)
    <3>1. \A p \in Others(j) : Far(p, a) \/ Over(a, p)
      BY <1>2, <2>4 DEF Spaced
    <3> QED
      BY <1>2, <2>5, <3>1
  <2>7. \A p \in Places(store) : p # a => Far(p, a) \/ Over(p, a)
    <3>1. \A p \in Places(store) : p # a => Far(p, a) \/ Over(p, a) \/ Over(a, p)
      BY <2>4 DEF Spaced
    <3> QED
      BY <2>5, <3>1
  <2> QED
    BY <1>2, <1>3, <1>6, <2>3, <2>4, <2>6, <2>7
<1>7. QED
  BY <1>5, <1>6

-----------------------------------------------------------------------------
(* A push of what moves a thread. *)

\* A push of what moves thread t leaves the rest of the branch alone.
LEMMA PushedFiles ==
  ASSUME EngineInv, NEW j \in jobs, Push(j), NEW t,
         Moves(j.clone, j.todo, t), Synced(j.clone, t)
  PROVE  /\ Agree(j.todo.store, store', t)
         /\ AgreeOutside(store, store', t)
         /\ AgreeOutside(j.clone, j.todo.store, t)
<1>1. /\ store' = Rebased(j)
      /\ \A f \in Files : Rebased(j)[f] = IF f \in Edited(j) THEN j.todo.store[f] ELSE store[f]
  BY RebasedIs DEF Push, Pushing
<1>2. ASSUME NEW f \in Files \ Strays, Above(t, f[2]) PROVE store'[f] = j.todo.store[f]
  <2>1. store[f] = j.clone[f]
    BY <1>2 DEF Synced
  <2> QED
    BY <1>1, <1>2, <2>1 DEF Edited
<1>3. ASSUME NEW f \in Files \ Strays, ~Above(t, f[2])
      PROVE  store'[f] = store[f] /\ j.todo.store[f] = j.clone[f]
  <2>1. j.todo.store[f] = j.clone[f]
    BY <1>3 DEF Moves
  <2> QED
    BY <1>1, <1>3, <2>1 DEF Edited
<1>4. QED
  BY <1>2, <1>3 DEF Agree, AgreeOutside

\* Where a push leads: the new nodes are inside, and the old ones are where they were.
LEMMA PushedPlaces ==
  ASSUME GatesApart, NEW j, NEW t, IsThread(t),
         DOMAIN store = Files, DOMAIN j.todo.store = Files, DOMAIN store' = Files,
         Agree(j.todo.store, store', t), AgreeOutside(store, store', t),
         j.todo.store[InstanceFile] # Missing, store'[InstanceFile] # Missing,
         Moves(j.clone, j.todo, t), t # <<>> => Inside(store, t) /\ Present(store', t)
  PROVE  LET T == j.todo.store IN
         /\ \A q \in DOMAIN Tree \ {<<>>} : Above(t, q) => (q \in Places(store') <=> q \in Within(T, t))
         /\ \A p \in DOMAIN Tree \ {<<>>} : ~Above(t, p) => (p \in Places(store') <=> p \in Places(store))
         /\ \A p \in DOMAIN Tree \ {<<>>} : ~Above(t, p) /\ Inside(store, p) => Inside(store', p)
         /\ \A q \in Hands(j.todo) \union Within(T, t) :
              q \in DOMAIN Tree \ {<<>>} /\ Above(t, q) /\ Inside(store', q)
<1> DEFINE T == j.todo.store
<1>1. t \in Seq(STRING) /\ (t # <<>> => IsLeg(t) /\ t \in DOMAIN Tree \ {<<>>})
  BY ThreadsAre
<1>2. t # <<>> => Present(store, t)
  <2>1. t # <<>> => Going(store, t)
    BY <1>1, AboveOrder DEF Inside
  <2> QED
    BY <2>1 DEF Going
<1>3. ASSUME NEW p \in DOMAIN Tree \ {<<>>}, ~Above(t, p)
      PROVE  /\ p \in Places(store') <=> p \in Places(store)
             /\ Inside(store', p) <=> Inside(store, p)
             /\ store'[InstanceFile] =store[ InstanceFile]
  BY <1>2, <1>3, ReadOutside, PlaceIs
<1>4. ASSUME NEW q \in DOMAIN Tree \ {<<>>}, Above(t, q)
      PROVE  q \in Places(store') <=> q \in Within(T, t)
  <2>1. Waits(store', q) <=> Waits(T, q)
    BY <1>4, ReadWithin
  <2> QED
    BY <1>4, <2>1, PlaceIs DEF Within
<1>5. ASSUME NEW q \in Hands(j.todo) \union Within(T, t)
      PROVE  q \in DOMAIN Tree \ {<<>>} /\ Above(t, q) /\ Inside(store', q)
  <2>1. /\ q \in DOMAIN Tree \ {<<>>} /\ Above(t, q)
        /\ t = <<>> => q[1] = T[InstanceFile].phase
        /\ \A x \in DOMAIN Tree : IsLeg(x) /\ Above(t, x) /\ Above(x, q) =>
            Going(T, x) /\ (x # t => Expected(T, x))
    BY <1>5 DEF Moves
  <2>2. q \in Seq(STRING)
    BY <2>1, TreeAssumption
  <2>3. q[1] = store'[InstanceFile].phase
    <3>1. CASE t = <<>>
      <4>1. Above(t, InstanceFile[2])
        BY <1>1, <3>1, FilePaths, AboveOrder
      <4>2. store'[InstanceFile] = T[InstanceFile]
        BY <4>1, NotStray DEF Agree
      <4> QED
        BY <2>1, <3>1, <4>2
    <3>2. CASE t # <<>>
      <4>1. t[1] = q[1]
        BY <1>1, <2>1, <2>2, <3>2, AboveFirst
      <4>2. ~Above(t, InstanceFile[2])
        BY <3>2, ThreadsAre
      <4>3. store'[InstanceFile] =store[ InstanceFile]
        BY <4>2, NotStray DEF AgreeOutside
      <4> QED
        BY <3>2, <4>1, <4>3 DEF Inside
    <3> QED
      BY <3>1, <3>2
  <2>4. ASSUME NEW x \in DOMAIN Tree, IsLeg(x), Above(x, q)
        PROVE  Expected(store', x) /\ Going(store', x)
    <3>1. x \in Seq(STRING) /\ x \in DOMAIN Tree \ {<<>>}
      BY <2>4, LegsParent
    <3>2. Above(t, x) \/ Above(x, t)
      BY <1>1, <2>1, <2>2, <2>4, <3>1, AboveOrder
    <3>3. CASE Above(t, x) /\ x # t
      <4>1. Going(T, x) /\ Expected(T, x)
        BY <2>1, <2>4, <3>3
      <4> QED
        BY <2>4, <3>1, <3>3, <4>1, ReadWithin
    <3>4. CASE x = t
      <4>1. Going(T, x)
        <5>1. Above(t, x)
          BY <3>4, ThreadsAre
        <5> QED
          BY <2>1, <2>4, <5>1
      <4>2. Going(store', x)
        BY <1>1, <2>1, <2>4, <3>1, <3>4, <4>1, ReadWithin, AboveOrder
      <4>3. Expected(store, x)
        BY <1>1, <3>1, <3>4, AboveOrder DEF Inside
      <4>4. /\ ParentPath(x) \in DOMAIN Tree \ {<<>>} /\ ~Above(t, ParentPath(x))
            /\ Len(x) > 2 => ParentPath(x) \in NestedFanouts
        <5>1. ~Above(x, ParentPath(x))
          BY <1>1, <3>1, AboveParent
        <5> QED
          BY <2>4, <3>4, <5>1, LegsParent
      <4>5. IsDynamic(ParentPath(x)) => store'[ManifestFile(ParentPath(x))] =store[ ManifestFile(ParentPath(x))]
        BY <4>4, NotStray, FilePaths DEF AgreeOutside
      <4>6. Len(x) > 2 => store'[JoinFile(ParentPath(x))] =store[ JoinFile(ParentPath(x))]
        BY <4>4, NotStray, FilePaths DEF AgreeOutside
      <4> QED
        BY <2>4, <4>2, <4>3, <4>5, <4>6, SameLeg
    <3>5. CASE Above(x, t) /\ x # t
      <4>1. ~Above(t, x) /\ t # <<>>
        BY <1>1, <3>1, <3>5, AboveOrder
      <4>2. Expected(store, x) /\ Going(store, x)
        BY <2>4, <3>5, <4>1 DEF Inside
      <4>3. /\ HasFile(x) /\ ParentPath(x) \in DOMAIN Tree \ {<<>>}
            /\ Len(x) > 2 => ParentPath(x) \in NestedFanouts
            /\ ~Above(t, ParentPath(x))
        <5>1. Above(ParentPath(x), x) /\ ParentPath(x) \in Seq(STRING)
          BY <2>4, <3>1, AboveParent
        <5>2. ~Above(t, ParentPath(x))
          BY <1>1, <3>1, <4>1, <5>1, AboveOrder
        <5> QED
          BY <2>4, <5>2, LegsParent
      <4>4. store'[NodeFile(x)] =store[ NodeFile(x)]
        BY <3>1, <4>1, <4>3, NotStray, FilePaths DEF AgreeOutside
      <4>5. IsDynamic(ParentPath(x)) => store'[ManifestFile(ParentPath(x))] =store[ ManifestFile(ParentPath(x))]
        BY <4>3, NotStray, FilePaths DEF AgreeOutside
      <4>6. Len(x) > 2 => store'[JoinFile(ParentPath(x))] =store[ JoinFile(ParentPath(x))]
        BY <4>3, NotStray, FilePaths DEF AgreeOutside
      <4>7. Expected(store', x)
        BY <2>4, <4>2, <4>5, <4>6, SameLeg
      <4> QED
        BY <4>2, <4>4, <4>7 DEF Going, Present
    <3> QED
      BY <3>2, <3>3, <3>4, <3>5
  <2> QED
    BY <2>1, <2>3, <2>4 DEF Inside
<1>6. QED
  BY <1>3, <1>4, <1>5

LEMMA HoldersNext ==
  /\ \A p : p \in AtAll' <=> (\E k \in jobs' : p \in At(k)) \/ p \in Woke'
  /\ \A p : p \in RunningAll' <=> \E k \in jobs' : p \in Running(k)
  /\ \A p : p \in ProbedAll' <=> (\E k \in jobs' : p \in Probed(k)) \/ p \in Called(waiting')
  /\ Sole' <=> /\ \A j, k \in jobs' : j # k => \A p : ~(p \in At(j) /\ p \in At(k))
               /\ \A j \in jobs' : \A p : ~(p \in At(j) /\ p \in Woke')
<1>1. ASSUME NEW p PROVE p \in AtAll' <=> (\E k \in jobs' : p \in At(k)) \/ p \in Woke'
  BY DEF AtAll
<1>2. ASSUME NEW p PROVE p \in RunningAll' <=> \E k \in jobs' : p \in Running(k)
  BY DEF RunningAll
<1>3. ASSUME NEW p
      PROVE  p \in ProbedAll' <=> (\E k \in jobs' : p \in Probed(k)) \/ p \in Called(waiting')
  BY DEF ProbedAll
<1>4. Sole' <=> /\ \A j, k \in jobs' : j # k => \A p : ~(p \in At(j) /\ p \in At(k))
                /\ \A j \in jobs' : \A p : ~(p \in At(j) /\ p \in Woke')
  BY DEF Sole
<1>5. QED
  BY <1>1, <1>2, <1>3, <1>4

LEMMA RunningAt ==
  ASSUME NEW j
  PROVE  Running(j) \subseteq At(j)
BY DEF Running, At, Hands

LEMMA HoldersNow ==
  /\ \A p : p \in RunningAll <=> \E k \in jobs : p \in Running(k)
  /\ \A p : p \in ProbedAll <=> (\E k \in jobs : p \in Probed(k)) \/ p \in Called(waiting)
<1>1. ASSUME NEW p PROVE p \in RunningAll <=> \E k \in jobs : p \in Running(k)
  BY DEF RunningAll
<1>2. ASSUME NEW p
      PROVE  p \in ProbedAll <=> (\E k \in jobs : p \in Probed(k)) \/ p \in Called(waiting)
  BY DEF ProbedAll
<1>3. QED
  BY <1>1, <1>2

\* Job j works for thread t, where no other job or event is, and nothing else waits.
ByItself(j, t) ==
  /\ IsThread(t)
  /\ t # <<>> => Inside(store, t)
  /\ \A p \in Others(j) : /\ p \in DOMAIN Tree \ {<<>>} /\ Inside(store, p)
                          /\ ~Above(t, p) /\ ~Above(Thread(p), t)
  /\ \A p \in Places(store) :
       Above(t, p) \/ ~Above(Thread(p), t) \/ (NodeKind(p) = "fanout" /\ Above(p, t))

\* What a push of job j, that moves thread t, is about.
PushesAlone(j, t) ==
  /\ j \in jobs /\ Push(j)
  /\ Moves(j.clone, j.todo, t) /\ Synced(j.clone, t) /\ ByItself(j, t)
  /\ FilesKept(store, store')

LEMMA PushContext ==
  ASSUME EngineInv, GatesApart, NEW j, NEW t, PushesAlone(j, t)
  PROVE  LET T == j.todo.store IN
         /\ Agree(T, store', t) /\ AgreeOutside(store, store', t)
         /\ DOMAIN store = Files /\ DOMAIN store' = Files /\ DOMAIN T = Files
         /\ T[InstanceFile] # Missing /\ store'[InstanceFile] # Missing
         /\ t # <<>> => Present(store, t) /\ Present(store', t)
         /\ \A q \in DOMAIN Tree \ {<<>>} : Above(t, q) => (q \in Places(store') <=> q \in Within(T, t))
         /\ \A p \in DOMAIN Tree \ {<<>>} : ~Above(t, p) => (p \in Places(store') <=> p \in Places(store))
         /\ \A p \in DOMAIN Tree \ {<<>>} : ~Above(t, p) /\ Inside(store, p) => Inside(store', p)
         /\ \A q \in Hands(j.todo) \union Within(T, t) :
              q \in DOMAIN Tree \ {<<>>} /\ Above(t, q) /\ Inside(store', q)
<1> DEFINE T == j.todo.store
<1>1. j \in jobs /\ Push(j) /\ Moves(j.clone, j.todo, t) /\ Synced(j.clone, t) /\ ByItself(j, t)
      /\ FilesKept(store, store') /\ IsThread(t)
  BY DEF PushesAlone, ByItself
<1>2. Agree(T, store', t) /\ AgreeOutside(store, store', t)
  BY <1>1, PushedFiles
<1>3. j.stage = "edited" /\ j.todo.push /\ JobOK(j) /\ store' = Rebased(j)
  BY <1>1 DEF Push, Pushing, EngineInv
<1>4. StoreOK(store) /\ StoreOK(store') /\ StoreOK(T)
  BY <1>1, <1>3, RebasedIs DEF EngineInv, JobOK, TodoOK
<1>5. T[InstanceFile] # Missing /\ store'[InstanceFile] # Missing
  BY <1>1, <1>3, RebasedIs DEF JobOK, TodoOK, Inert
<1>6. t # <<>> => Inside(store, t)
  BY <1>1 DEF ByItself
<1>7. t # <<>> => Present(store, t) /\ Present(store', t)
  <2>1. ASSUME t # <<>> PROVE Present(store, t) /\ Present(store', t)
    <3>1. IsLeg(t) /\ Above(t, t) /\ t \in DOMAIN Tree /\ NodeFile(t) \in Files
      BY <1>1, <2>1, ThreadsAre, FilesAre DEF HasFile
    <3>2. Going(store, t)
      BY <1>6, <2>1, <3>1 DEF Inside
    <3> QED
      BY <1>1, <3>1, <3>2 DEF Going, Present, FilesKept
  <2> QED
    BY <2>1
<1>8. DOMAIN store = Files /\ DOMAIN store' = Files /\ DOMAIN T = Files
  BY <1>4 DEF StoreOK
<1>10. /\ \A q \in DOMAIN Tree \ {<<>>} : Above(t, q) => (q \in Places(store') <=> q \in Within(T, t))
       /\ \A p \in DOMAIN Tree \ {<<>>} : ~Above(t, p) => (p \in Places(store') <=> p \in Places(store))
       /\ \A p \in DOMAIN Tree \ {<<>>} : ~Above(t, p) /\ Inside(store, p) => Inside(store', p)
       /\ \A q \in Hands(j.todo) \union Within(T, t) :
            q \in DOMAIN Tree \ {<<>>} /\ Above(t, q) /\ Inside(store', q)
  BY <1>1, <1>2, <1>5, <1>6, <1>7, <1>8, PushedPlaces
<1>11. QED
  BY <1>2, <1>5, <1>7, <1>8, <1>10

\* After a push, the others are where they were, and the job's hands in its thread.
LEMMA PushTokens ==
  ASSUME EngineInv, Sole, NEW j, NEW t, PushesAlone(j, t)
  PROVE  \E k : /\ jobs' = (jobs \ {j}) \union {k}
                /\ At(k) = Hands(j.todo)
                /\ Running(k) = (IF j.todo.runs THEN j.todo.legs ELSE {})
                /\ \A f \in Probed(k) : f \in Probed(j) \/ (~j.todo.runs /\ f \in Called(j.todo.emit))
                /\ \A p : p \in AtAll' <=> p \in Others(j) \/ p \in Hands(j.todo)
                /\ k.stage = "pushed" /\ k.command = j.command /\ k.role = j.role
                /\ k.group = j.group /\ k.path = j.path /\ k.todo = j.todo
                /\ waiting' = waiting
<1>1. PICK k : /\ Becomes(j, k)
               /\ k.group = j.group /\ k.role = j.role /\ k.command = j.command
               /\ k.path = j.path
               /\ k.stage = "pushed" /\ k.todo = j.todo
  BY PushOK DEF PushesAlone
<1>2. jobs' = (jobs \ {j}) \union {k} /\ waiting' = waiting /\ Woke' = Woke
  BY <1>1 DEF Becomes, Push, PushesAlone, Woke
<1>3. ~Unpushed(k) /\ Unpushed(j)
  BY <1>1 DEF Unpushed, PushesAlone, Push, Pushing
<1>4. At(k) = Hands(j.todo) /\ Running(k) = (IF j.todo.runs THEN j.todo.legs ELSE {})
  BY <1>1, <1>3 DEF At, Running
<1>5. \A f \in Probed(k) : f \in Probed(j) \/ (~j.todo.runs /\ f \in Called(j.todo.emit))
  BY <1>1, <1>3 DEF Probed
<1>6. \A p : p \in AtAll' <=> p \in Others(j) \/ p \in Hands(j.todo)
  BY <1>2, <1>4, HoldersNext, HoldersAre
<1>7. QED
  BY <1>1, <1>2, <1>4, <1>5, <1>6

LEMMA PushSole ==
  ASSUME EngineInv, GatesApart, Sole, NEW j, NEW t, PushesAlone(j, t)
  PROVE  Sole'
<1>1. PICK k : /\ jobs' = (jobs \ {j}) \union {k} /\ At(k) = Hands(j.todo) /\ waiting' = waiting
  BY PushTokens
<1>2. \A p \in Others(j) : ~Above(t, p)
  BY DEF PushesAlone, ByItself
<1>3. \A q \in Hands(j.todo) : Above(t, q)
  BY PushContext
<1>4. \A p \in Others(j) : p \notin At(k)
  BY <1>1, <1>2, <1>3
<1>5. ASSUME NEW i \in jobs', NEW m \in jobs', i # m, NEW p, p \in At(i), p \in At(m)
      PROVE  FALSE
  <2>1. i \in jobs \ {j} => (p \in Others(j) /\ (m = k \/ m \in jobs \ {j}))
    BY <1>1, <1>5, HoldersAre
  <2>2. m \in jobs \ {j} => (p \in Others(j) /\ (i = k \/ i \in jobs \ {j}))
    BY <1>1, <1>5, HoldersAre
  <2>3. ~(i \in jobs \ {j} /\ m \in jobs \ {j})
    BY <1>5, SoleIs
  <2> QED
    BY <1>1, <1>4, <1>5, <2>1, <2>2, <2>3
<1>6. ASSUME NEW i \in jobs', NEW p, p \in At(i), p \in Woke'
      PROVE  FALSE
  <2>1. p \in Woke /\ p \in Others(j)
    BY <1>1, <1>6, HoldersAre DEF Woke
  <2>2. i = k \/ i \in jobs \ {j}
    BY <1>1
  <2> QED
    BY <1>4, <1>6, <2>1, <2>2, SoleIs
<1>7. QED
  BY <1>5, <1>6, HoldersNext

LEMMA PushInside ==
  ASSUME EngineInv, GatesApart, AllInside, Sole, NEW j, NEW t, PushesAlone(j, t)
  PROVE  AllInside'
<1> DEFINE T == j.todo.store
<1>1. ASSUME NEW p \in AtAll' PROVE p \in DOMAIN Tree \ {<<>>} /\ Inside(store', p)
  <2>1. p \in Others(j) \/ p \in Hands(j.todo)
    BY PushTokens
  <2>2. CASE p \in Others(j)
    <3>1. p \in DOMAIN Tree \ {<<>>} /\ Inside(store, p) /\ ~Above(t, p)
      BY <2>2 DEF PushesAlone, ByItself
    <3> QED
      BY <3>1, PushContext
  <2>3. CASE p \in Hands(j.todo)
    BY <2>3, PushContext
  <2> QED
    BY <2>1, <2>2, <2>3
<1>2. ASSUME NEW p \in Places(store') PROVE p \in DOMAIN Tree \ {<<>>} /\ Inside(store', p)
  <2>1. p \in DOMAIN Tree \ {<<>>}
    BY PlaceIs
  <2>2. CASE Above(t, p)
    <3>1. p \in Within(T, t)
      BY <2>1, <2>2, PushContext
    <3> QED
      BY <3>1, PushContext
  <2>3. CASE ~Above(t, p)
    <3>1. p \in Places(store)
      BY <2>1, <2>3, PushContext
    <3>2. Inside(store, p)
      BY <3>1 DEF AllInside
    <3> QED
      BY <2>1, <2>3, <3>2, PushContext
  <2> QED
    BY <2>2, <2>3
<1>3. QED
  BY <1>1, <1>2 DEF AllInside

LEMMA PushSpaced ==
  ASSUME EngineInv, GatesApart, Spaced, Sole, NEW j, NEW t, PushesAlone(j, t)
  PROVE  Spaced'
<1> DEFINE T == j.todo.store
           New == Hands(j.todo) \union Within(T, t)
<1>1. IsThread(t)
  BY DEF PushesAlone, ByItself
<1>2. /\ \A p, q \in Hands(j.todo) : p # q => Far(p, q)
      /\ \A p \in Hands(j.todo), q \in Within(T, t) : Far(p, q) \/ Over(q, p)
      /\ \A p, q \in Within(T, t) : p # q => Far(p, q) \/ Over(q, p) \/ Over(p, q)
  BY DEF PushesAlone, Moves
<1>3. \A q \in New : q \in DOMAIN Tree \ {<<>>} /\ Above(t, q)
  BY PushContext
<1>4. \A p \in Others(j) : /\ p \in DOMAIN Tree \ {<<>>} /\ ~Above(t, p) /\ ~Above(Thread(p), t)
                           /\ p \in AtAll
  BY HoldersAre DEF PushesAlone, ByItself
<1>5. ASSUME NEW p \in Places(store'), p \notin Within(T, t)
      PROVE  /\ p \in DOMAIN Tree \ {<<>>} /\ p \in Places(store) /\ ~Above(t, p)
             /\ ~Above(Thread(p), t) \/ (NodeKind(p) = "fanout" /\ Above(p, t))
  <2>1. p \in DOMAIN Tree \ {<<>>}
    BY PlaceIs
  <2>2. ~Above(t, p) /\ p \in Places(store)
    BY <1>5, <2>1, PushContext
  <2> QED
    BY <2>1, <2>2 DEF PushesAlone, ByItself
<1>6. \A p \in Others(j), q \in New : Far(p, q)
  BY <1>1, <1>3, <1>4, Aside
<1>7. \A p \in Places(store'), q \in New : p \notin Within(T, t) => Far(p, q) \/ Over(p, q)
  BY <1>1, <1>3, <1>5, Aside
<1> HIDE DEF New, T
<1>8. ASSUME NEW p \in AtAll', NEW q \in AtAll', p # q PROVE Far(p, q)
  <2>1. (p \in Others(j) \/ p \in Hands(j.todo)) /\ (q \in Others(j) \/ q \in Hands(j.todo))
    BY PushTokens
  <2>2. \A x \in Hands(j.todo) : x \in New
    BY DEF New
  <2>3. Far(q, p) => Far(p, q)
    BY DEF Far
  <2>4. p \in Others(j) /\ q \in Others(j) => Far(p, q)
    BY <1>4, <1>8 DEF Spaced
  <2> QED
    BY <1>2, <1>6, <1>8, <2>1, <2>2, <2>3, <2>4
<1>9. ASSUME NEW p \in AtAll', NEW q \in Places(store') PROVE Far(p, q) \/ Over(q, p)
  <2>1. p \in Others(j) \/ p \in Hands(j.todo)
    BY PushTokens
  <2>2. \A x \in Hands(j.todo) \union Within(T, t) : x \in New
    BY DEF New
  <2>3. Far(q, p) => Far(p, q)
    BY DEF Far
  <2>4. p \in Others(j) /\ q \notin Within(T, t) => Far(p, q) \/ Over(q, p)
    BY <1>4, <1>5 DEF Spaced
  <2> QED
    BY <1>2, <1>6, <1>7, <2>1, <2>2, <2>3, <2>4
<1>10. ASSUME NEW p \in Places(store'), NEW q \in Places(store'), p # q
       PROVE  Far(p, q) \/ Over(q, p) \/ Over(p, q)
  <2>1. \A x \in Within(T, t) : x \in New
    BY DEF New
  <2>2. Far(q, p) => Far(p, q)
    BY DEF Far
  <2>3. p \notin Within(T, t) /\ q \notin Within(T, t) => Far(p, q) \/ Over(q, p) \/ Over(p, q)
    BY <1>5, <1>10 DEF Spaced
  <2> QED
    BY <1>2, <1>7, <1>10, <2>1, <2>2, <2>3
<1>11. QED
  BY <1>8, <1>9, <1>10 DEF Spaced

LEMMA PushRunning ==
  ASSUME EngineInv, GatesApart, RunningUnits, Sole, NEW j, NEW t, PushesAlone(j, t)
  PROVE  RunningUnits'
<1> SUFFICES ASSUME NEW p \in RunningAll'
             PROVE  Present(store', p) /\ store'[NodeFile(p)].state = LifeState(p)
  BY DEF RunningUnits
<1>1. PICK k : /\ jobs' = (jobs \ {j}) \union {k} /\ At(k) = Hands(j.todo)
               /\ Running(k) = (IF j.todo.runs THEN j.todo.legs ELSE {})
  BY PushTokens
<1>2. PICK i \in jobs' : p \in Running(i)
  BY HoldersNext
<1>3. i \in jobs \ {j} \/ i = k
  BY <1>1
<1>4. IsThread(t) /\ j \in jobs /\ j.stage = "edited"
  BY DEF PushesAlone, ByItself, Push, Pushing
<1>5. CASE i \in jobs \ {j}
  <2>1. p \in Others(j)
    BY <1>2, <1>5, RunningAt, HoldersAre
  <2>2. p \in RunningAll
    BY <1>2, <1>5, HoldersNow
  <2>3. p \in DOMAIN Tree \ {<<>>} /\ ~Above(t, p)
    BY <2>1 DEF PushesAlone, ByItself
  <2>4. p \in Units
    BY <1>2, <1>5 DEF EngineInv, JobOK, TodoOK, Running, Unpushed
  <2>5. HasFile(p)
    BY <2>4 DEF Units, HasFile
  <2>6. store'[NodeFile(p)] = store[NodeFile(p)]
    BY <1>4, <2>3, <2>5, PushContext, ReadOutside
  <2> QED
    BY <2>2, <2>6 DEF RunningUnits, Present
<1>6. CASE i = k
  <2>1. j.todo.runs /\ p \in j.todo.legs
    BY <1>1, <1>2, <1>6
  <2>2. Present(j.todo.store, p) /\ j.todo.store[NodeFile(p)].state = LifeState(p)
    BY <2>1 DEF PushesAlone, Moves
  <2>3. p \in Units
    BY <1>4, <2>1 DEF EngineInv, JobOK, TodoOK
  <2>4. HasFile(p)
    BY <2>3 DEF Units, HasFile
  <2>5. p \in Hands(j.todo)
    BY <2>1 DEF Hands
  <2>6. p \in DOMAIN Tree \ {<<>>} /\ Above(t, p)
    BY <2>5, PushContext
  <2>7. store'[NodeFile(p)] = j.todo.store[NodeFile(p)]
    BY <1>4, <2>4, <2>6, PushContext, ReadWithin
  <2> QED
    BY <2>2, <2>7 DEF Present
<1>7. QED
  BY <1>3, <1>5, <1>6

LEMMA PushHistories ==
  ASSUME EngineInv, GatesApart, Histories, NEW j, NEW t, PushesAlone(j, t)
  PROVE  Histories'
<1> SUFFICES ASSUME NEW p \in Units PROVE HistoryOK(store', p)
  BY DEF Histories
<1> DEFINE T == j.todo.store
<1>1. HistoryOK(store, p)
  BY DEF Histories
<1>2. IsThread(t) /\ p \in DOMAIN Tree \ {<<>>} /\ HasFile(p)
  BY UnitsAreAgents DEF PushesAlone, ByItself, HasFile
<1>3. CASE Above(t, p)
  <2>1. store[NodeFile(p)] = j.clone[NodeFile(p)]
    <3>1. NodeFile(p) \in Files \ Strays /\ Above(t, NodeFile(p)[2])
      BY <1>2, <1>3, NotStray, FilePaths
    <3> QED
      BY <3>1 DEF PushesAlone, Synced
  <2>2. HistoryOK(j.clone, p)
    BY <1>1, <2>1 DEF HistoryOK, Present
  <2>3. HistoryOK(T, p)
    BY <1>3, <2>2 DEF PushesAlone, Moves
  <2>4. store'[NodeFile(p)] = T[NodeFile(p)]
    BY <1>2, <1>3, PushContext, ReadWithin
  <2> QED
    BY <2>3, <2>4 DEF HistoryOK, Present
<1>4. CASE ~Above(t, p)
  <2>1. store'[NodeFile(p)] = store[NodeFile(p)]
    BY <1>2, <1>4, PushContext, ReadOutside
  <2> QED
    BY <1>1, <2>1 DEF HistoryOK, Present
<1>5. QED
  BY <1>3, <1>4

LEMMA RootSame ==
  ASSUME GatesApart, NEW S, NEW T, DOMAIN S = Files, DOMAIN T = Files, Agree(S, T, <<>>)
  PROVE  RootEntered(T) <=> RootEntered(S)
<1>1. IsThread(<<>>) /\ Above(<<>>, InstanceFile[2])
  BY ThreadsAre DEF IsThread
<1>2. T[InstanceFile] = S[InstanceFile]
  BY <1>1, NotStray DEF Agree
<1>3. \A p \in DOMAIN Tree \ {<<>>} : Waits(T, p) <=> Waits(S, p)
  <2>1. ASSUME NEW p \in DOMAIN Tree \ {<<>>} PROVE Waits(T, p) <=> Waits(S, p)
    <3>1. Above(<<>>, p)
      BY AboveOrder, TreeAssumption
    <3> QED
      BY <1>1, <1>2, <3>1, ReadWithin
  <2> QED
    BY <2>1
<1>4. \A p : p \in Places(T) <=> p \in Places(S)
  BY <1>3, PlaceIs
<1>5. QED
  BY <1>2, <1>4 DEF RootEntered

LEMMA ProbedPaths ==
  ASSUME EngineInv
  PROVE  /\ ProbedAll \subseteq NestedFanouts \union {<<>>}
         /\ \A j \in jobs : /\ Probed(j) \subseteq NestedFanouts \union {<<>>}
                            /\ j.stage # "ready" => Called(j.todo.emit) \subseteq NestedFanouts \union {<<>>}
<1>1. \A e : EventOK(e) /\ e.command = "join" => e.path \in NestedFanouts \union {<<>>}
  BY DEF EventOK, Replies
<1>2. Called(waiting) \subseteq NestedFanouts \union {<<>>}
  BY <1>1 DEF EngineInv, Called
<1>3. ASSUME NEW j \in jobs
      PROVE  /\ j.stage # "ready" => Called(j.todo.emit) \subseteq NestedFanouts \union {<<>>}
             /\ j.role = "join" => j.path \in NestedFanouts \union {<<>>}
  BY <1>1 DEF EngineInv, JobOK, TodoOK, EmitOK, Called
<1>4. \A j \in jobs : Probed(j) \subseteq NestedFanouts \union {<<>>}
  BY <1>3 DEF Probed, Unpushed
<1>5. QED
  BY <1>2, <1>3, <1>4, HoldersNow

\* The fan-out around the leg t of which the instance is inside is there.
LEMMA CallersEntered ==
  ASSUME NEW t, IsLeg(t), Inside(store, t), NEW f \in CalledBy(t)
  PROVE  /\ f = <<>> => RootEntered(store)
         /\ f # <<>> => f \in NestedFanouts /\ store[JoinFile(f)] # Missing
<1>1. Expected(store, t) /\ Going(store, t) /\ store[InstanceFile] # Missing
  BY ThreadsAre DEF Inside, IsThread
<1>2. /\ ParentPath(t) \in DOMAIN Tree \ {<<>>} /\ NodeKind(ParentPath(t)) = "fanout"
      /\ Len(t) > 1 /\ Len(t) \in Nat
      /\ Len(t) > 2 => ParentPath(t) \in NestedFanouts
      /\ LastId(t) \in ChildIds(ParentPath(t)) /\ t = Child(ParentPath(t), LastId(t))
      /\ t # <<>>
  BY LegsParent
<1>5. f = IF Len(t) > 2 THEN ParentPath(t) ELSE <<>>
  BY <1>2 DEF CalledBy
<1>3. CASE Len(t) > 2
  <2>1. f = ParentPath(t)
    BY <1>3, <1>5
  <2> QED
    BY <1>1, <1>2, <1>3, <2>1 DEF Expected
<1>4. CASE ~(Len(t) > 2)
  <2>1. f = <<>>
    BY <1>4, <1>5
  <2>2. Len(ParentPath(t)) = 1
    BY <1>4, LegsParent
  <2>3. Present(store, Child(ParentPath(t), LastId(t)))
    BY <1>1, <1>2 DEF Going
  <2>4. ~store[InstanceFile].joined => ParentPath(t) \in Places(store)
    <3>1. \E l \in ChildIds(ParentPath(t)) : Present(store, Child(ParentPath(t), l))
      BY <1>2, <2>3
    <3>2. ~(Len(ParentPath(t)) > 1)
      BY <2>2
    <3>3. ~store[InstanceFile].joined => Waits(store, ParentPath(t))
      BY <1>1, <1>2, <3>1, <3>2 DEF Waits
    <3> QED
      BY <1>2, <3>3, PlaceIs
  <2> QED
    BY <1>1, <1>2, <2>1, <2>2, <2>4 DEF RootEntered
<1>6. QED
  BY <1>3, <1>4

LEMMA PushProbes ==
  ASSUME EngineInv, GatesApart, ProbesOK, Sole, NEW j, NEW t, PushesAlone(j, t)
  PROVE  ProbesOK'
<1> DEFINE T == j.todo.store
<1>1. IsThread(t) /\ j \in jobs /\ j.stage = "edited" /\ FilesKept(store, store')
  BY DEF PushesAlone, ByItself, Push, Pushing
<1>2. RootEntered(store) => RootEntered(store')
  <2>1. CASE t = <<>>
    <3>1. Agree(j.clone, store, t)
      BY DEF PushesAlone, Synced, Agree
    <3>2. DOMAIN j.clone = Files
      BY <1>1 DEF EngineInv, JobOK, StoreOK
    <3>3. RootEntered(store) => RootEntered(j.clone)
      BY <2>1, <3>1, <3>2, PushContext, RootSame
    <3>4. RootEntered(j.clone) => RootEntered(T)
      BY <2>1 DEF PushesAlone, Moves
    <3>5. RootEntered(T) => RootEntered(store')
      BY <2>1, PushContext, RootSame
    <3> QED
      BY <3>3, <3>4, <3>5
  <2>2. CASE t # <<>>
    <3>1. Len(t) > 1 /\ Len(t) \in Nat /\ t \in Seq(STRING) /\ ~Above(t, InstanceFile[2])
      BY <1>1, <2>2, ThreadsAre, LegsParent
    <3>2. store'[InstanceFile] = store[InstanceFile]
      BY <3>1, PushContext, NotStray DEF AgreeOutside
    <3>3. ASSUME NEW p \in Places(store), Len(p) = 1 PROVE p \in Places(store')
      <4>1. p \in DOMAIN Tree \ {<<>>} /\ p \in Seq(STRING)
        BY PlaceIs, TreeAssumption
      <4>2. ~Above(t, p)
        BY <3>1, <3>3, <4>1, AboveIs
      <4> QED
        BY <4>1, <4>2, PushContext
    <3> QED
      BY <3>2, <3>3 DEF RootEntered
  <2> QED
    BY <2>1, <2>2
<1>3. ASSUME NEW f \in ProbedAll'
      PROVE  f \in ProbedAll \/ (f \in CalledBy(t) /\ f \in NestedFanouts \union {<<>>})
  <2>1. PICK k : /\ jobs' = (jobs \ {j}) \union {k} /\ waiting' = waiting
                 /\ \A g \in Probed(k) : g \in Probed(j) \/ (~j.todo.runs /\ g \in Called(j.todo.emit))
    BY PushTokens
  <2>2. \A g \in Called(j.todo.emit) : ~j.todo.runs => g \in CalledBy(t) /\ g \in NestedFanouts \union {<<>>}
    BY <1>1, ProbedPaths DEF PushesAlone, Moves
  <2>3. CASE f \in Called(waiting')
    BY <2>1, <2>3, HoldersNow
  <2>4. CASE \E i \in jobs' : f \in Probed(i)
    BY <1>1, <2>1, <2>2, <2>4, HoldersNow
  <2> QED
    BY <2>3, <2>4, HoldersNext
<1>4. ASSUME NEW f \in ProbedAll'
      PROVE  IF f = <<>> THEN RootEntered(store') ELSE store'[JoinFile(f)] # Missing
  <2>1. /\ f = <<>> => RootEntered(store)
        /\ f # <<>> => f \in NestedFanouts /\ store[JoinFile(f)] # Missing
    <3>1. CASE f \in ProbedAll
      BY <3>1, ProbedPaths DEF ProbesOK
    <3>2. CASE f \in CalledBy(t)
      <4>1. IsLeg(t) /\ Inside(store, t)
        BY <1>1, <3>2 DEF CalledBy, IsThread, PushesAlone, ByItself
      <4> QED
        BY <3>2, <4>1, CallersEntered
    <3> QED
      BY <1>3, <3>1, <3>2
  <2>2. f # <<>> => store'[JoinFile(f)] # Missing
    BY <1>1, <2>1, FilesAre DEF FilesKept
  <2> QED
    BY <1>2, <2>1, <2>2
<1>5. QED
  BY <1>4 DEF ProbesOK

LEMMA FilesAt ==
  ASSUME NEW f \in Files \ Strays
  PROVE  f[2] \in Seq(STRING)
<1>1. \/ f = InstanceFile
      \/ \E p \in DOMAIN Tree : f \in {NodeFile(p), JoinFile(p), ManifestFile(p), AnswersFile(p)}
  BY DEF Files, Strays, NestedFanouts, LegGates
<1>2. QED
  BY <1>1, FilePaths, TreeAssumption

\* Two jobs at work are in threads of which none is around the other.
LEMMA TwoAnchors ==
  ASSUME EngineInv, GatesApart, Sole, Spaced, AllInside, store[InstanceFile] # Missing,
         NEW j \in jobs, NEW i \in jobs, i # j, Unpushed(j), Unpushed(i),
         NEW S, DOMAIN S = Files, S[InstanceFile] # Missing,
         NEW R, DOMAIN R = Files, R[InstanceFile] # Missing,
         NEW a \in DOMAIN Tree \ {<<>>}, WorksAt(j, S, a), Synced(S, Thread(a)),
         NEW b \in DOMAIN Tree \ {<<>>}, WorksAt(i, R, b), Synced(R, Thread(b))
  PROVE  Far(a, b)
<1>1. DOMAIN store = Files
  BY DEF EngineInv, StoreOK
<1>2. /\ \A p \in Others(j) : Far(p, a)
      /\ \A p \in Places(store) : p # a => Far(p, a) \/ Over(p, a)
      /\ a \in At(j) \/ a \in Places(store)
      /\ a \in At(j) => a \notin Places(store)
  BY <1>1, Anchored, PlaceIs
<1>3. /\ \A p \in Others(i) : Far(p, b)
      /\ \A p \in Places(store) : p # b => Far(p, b) \/ Over(p, b)
      /\ b \in At(i) \/ b \in Places(store)
      /\ b \in At(i) => b \notin Places(store)
  BY <1>1, Anchored, PlaceIs
<1>4. CASE b \in At(i)
  BY <1>2, <1>4, HoldersAre DEF Far
<1>5. CASE a \in At(j)
  BY <1>3, <1>5, HoldersAre DEF Far
<1>6. CASE a \notin At(j) /\ b \notin At(i) /\ a # b
  <2>1. (Far(b, a) \/ Over(b, a)) /\ (Far(a, b) \/ Over(a, b))
    BY <1>2, <1>3, <1>6
  <2>2. ~(Over(b, a) /\ Over(a, b))
    BY AboveOrder, TreeAssumption DEF Over
  <2> QED
    BY <2>1, <2>2 DEF Far
<1>7. CASE a \notin At(j) /\ b \notin At(i) /\ a = b
  <2>1. j.role # "leg" /\ j.group = PlaceGroup(a)
    BY <1>7 DEF WorksAt, At
  <2>2. i.role # "leg" /\ i.group = PlaceGroup(a)
    BY <1>7 DEF WorksAt, At
  <2> QED
    BY <2>1, <2>2 DEF EngineInv, GroupsExclusive
<1>8. QED
  BY <1>4, <1>5, <1>6, <1>7

\* What a push of a job that edits for the thread of node a is about.
LEMMA PushIsAlone ==
  ASSUME EngineInv, OneStart, used["start"] <= 1, GatesApart, Sole, Spaced, AllInside,
         NEW j \in jobs, Push(j), j.command # "start",
         NEW a \in DOMAIN Tree \ {<<>>}, WorksAt(j, j.clone, a),
         Moves(j.clone, j.todo, Thread(a)), Synced(j.clone, Thread(a))
  PROVE  PushesAlone(j, Thread(a))
<1> DEFINE t == Thread(a)
<1>1. j.stage = "edited" /\ j.todo.push /\ Unpushed(j)
  BY DEF Push, Pushing, Unpushed
<1>2. /\ FilesKept(j.clone, store) /\ j.clone[InstanceFile] # Missing
      /\ FilesKept(store, store')
  BY <1>1, PushKeepsFiles DEF OneStart, ClonesKept
<1>3. store[InstanceFile] # Missing /\ DOMAIN store = Files /\ DOMAIN j.clone = Files
  BY <1>1, <1>2, FilesAre DEF FilesKept, EngineInv, JobOK, StoreOK
<1>4. /\ Inside(store, a)
      /\ \A p \in Others(j) : p \in DOMAIN Tree \ {<<>>} /\ Far(p, a)
      /\ \A p \in Places(store) : p # a => Far(p, a) \/ Over(p, a)
  BY <1>1, <1>2, <1>3, Anchored
<1>5. IsThread(t) /\ Above(t, a) /\ t \in Seq(STRING) /\ a \in Seq(STRING)
  BY ThreadIs, TreeAssumption
<1>6. t # <<>> => Inside(store, t)
  <2>1. ASSUME t # <<>> PROVE Inside(store, t)
    <3>1. t[1] = a[1]
      BY <1>5, <2>1, AboveFirst
    <3>2. \A x \in DOMAIN Tree : IsLeg(x) /\ Above(x, t) => Above(x, a)
      BY <1>5, AboveOrder, TreeAssumption
    <3> QED
      BY <1>4, <3>1, <3>2 DEF Inside
  <2> QED
    BY <2>1
<1>7. ASSUME NEW p \in Others(j)
      PROVE  /\ p \in DOMAIN Tree \ {<<>>} /\ Inside(store, p)
             /\ ~Above(t, p) /\ ~Above(Thread(p), t)
  <2>1. p \in DOMAIN Tree \ {<<>>} /\ Far(p, a)
    BY <1>4
  <2>2. Inside(store, p)
    BY <1>7, HoldersAre DEF AllInside
  <2>3. ~Above(Thread(p), a) /\ ~Above(t, p)
    BY <2>1 DEF Far
  <2>4. Thread(p) \in Seq(STRING)
    BY <2>1, ThreadIs
  <2>5. ~Above(Thread(p), t)
    BY <1>5, <2>3, <2>4, AboveOrder
  <2> QED
    BY <2>1, <2>2, <2>3, <2>5
<1>8. ASSUME NEW p \in Places(store)
      PROVE  Above(t, p) \/ ~Above(Thread(p), t) \/ (NodeKind(p) = "fanout" /\ Above(p, t))
  <2>1. p \in DOMAIN Tree \ {<<>>}
    BY PlaceIs
  <2> QED
    BY <1>4, <1>5, <1>8, <2>1, Outside
<1>9. ByItself(j, t)
  BY <1>5, <1>6, <1>7, <1>8 DEF ByItself
<1>10. QED
  BY <1>2, <1>9 DEF PushesAlone

LEMMA StartIsAlone ==
  ASSUME EngineInv, OneStart, used["start"] <= 1, StartAlone,
         NEW j \in jobs, Push(j), j.command = "start"
  PROVE  PushesAlone(j, <<>>)
<1>1. j.stage = "edited" /\ j.todo.push /\ Editing(j)
  BY DEF Push, Pushing, Editing
<1>2. FilesKept(store, store')
  BY PushKeepsFiles
<1>3. \A f \in Files : j.clone[f] = Missing /\ store[f] = Missing
  <2>1. ~Started
    BY <1>1 DEF OneStart, StartsOnce
  <2> QED
    BY <1>1, <2>1 DEF OneStart, ClonesKept, EngineInv, UntilStarted
<1>4. /\ jobs = {j} /\ Moves(j.clone, j.todo, <<>>)
      /\ \A w \in waiting : w.command \in Replies
  BY <1>1 DEF StartAlone
<1>5. \A p : p \notin Others(j)
  <2>1. \A p : p \notin Woke
    BY <1>4 DEF Woke, Woken, Replies
  <2> QED
    BY <1>4, <2>1, HoldersAre
<1>6. ByItself(j, <<>>)
  <2>1. \A p \in Places(store) : Above(<<>>, p)
    BY AboveOrder, TreeAssumption, PlaceIs
  <2> QED
    BY <1>5, <2>1 DEF ByItself, IsThread
<1>7. Synced(j.clone, <<>>)
  BY <1>3 DEF Synced
<1>8. QED
  BY <1>2, <1>4, <1>6, <1>7 DEF PushesAlone

LEMMA PushEdits ==
  ASSUME EngineInv, OneStart, used["start"] <= 1, GatesApart, Sole, Spaced, AllInside,
         EditsOK, StartAlone, NEW j \in jobs, Push(j)
  PROVE  EditsOK'
<1>1. PICK k : /\ Becomes(j, k)
               /\ k.group = j.group /\ k.role = j.role /\ k.command = j.command
               /\ k.path = j.path
               /\ k.stage = "pushed" /\ k.todo = j.todo
  BY PushOK
<1>2. jobs' = (jobs \ {j}) \union {k} /\ Editing(j) /\ Unpushed(j) /\ j.stage = "edited"
  BY <1>1 DEF Becomes, Editing, Unpushed, Push, Pushing
<1>3. SUFFICES ASSUME NEW i \in jobs', Editing(i), i.command # "start"
      PROVE  \E p \in DOMAIN Tree \ {<<>>} :
               /\ WorksAt(i, i.clone, p) /\ Moves(i.clone, i.todo, Thread(p))
               /\ (Synced(i.clone, Thread(p)))'
  BY DEF EditsOK
<1>4. i \in jobs /\ i # j /\ j \in jobs
  BY <1>1, <1>2, <1>3 DEF Editing
<1>5. j.command # "start"
  BY <1>4 DEF StartAlone
<1>6. PICK b \in DOMAIN Tree \ {<<>>} :
        WorksAt(i, i.clone, b) /\ Moves(i.clone, i.todo, Thread(b)) /\ Synced(i.clone, Thread(b))
  BY <1>3, <1>4 DEF EditsOK
<1>7. PICK a \in DOMAIN Tree \ {<<>>} :
        WorksAt(j, j.clone, a) /\ Moves(j.clone, j.todo, Thread(a)) /\ Synced(j.clone, Thread(a))
  BY <1>2, <1>5 DEF EditsOK
<1>8. /\ FilesKept(j.clone, store) /\ j.clone[InstanceFile] # Missing
      /\ i.clone[InstanceFile] # Missing
  BY <1>2, <1>3, <1>4, <1>5 DEF OneStart, ClonesKept, Editing
<1>9. /\ store[InstanceFile] # Missing /\ DOMAIN i.clone = Files /\ DOMAIN j.clone = Files
      /\ Unpushed(i)
  BY <1>2, <1>3, <1>4, <1>8, FilesAre DEF FilesKept, EngineInv, JobOK, StoreOK, Editing, Unpushed
<1>10. Far(a, b)
  BY <1>2, <1>4, <1>6, <1>7, <1>8, <1>9, TwoAnchors
<1>11. AgreeOutside(store, store', Thread(a))
  BY <1>5, <1>7, PushIsAlone, PushContext
<1>12. ASSUME NEW f \in Files \ Strays, Above(Thread(b), f[2])
       PROVE  store'[f] = i.clone[f]
  <2>1. /\ Thread(a) \in Seq(STRING) /\ Thread(b) \in Seq(STRING) /\ f[2] \in Seq(STRING)
        /\ a \in Seq(STRING) /\ b \in Seq(STRING)
        /\ Above(Thread(a), a) /\ Above(Thread(b), b)
    BY ThreadIs, FilesAt, TreeAssumption
  <2>2. ~Above(Thread(a), f[2])
    <3>1. ~Above(Thread(a), Thread(b)) /\ ~Above(Thread(b), Thread(a))
      BY <1>10, <2>1, AboveOrder DEF Far
    <3> QED
      BY <1>12, <2>1, <3>1, AboveOrder
  <2>3. store'[f] = store[f]
    BY <1>11, <2>2 DEF AgreeOutside
  <2> QED
    BY <1>6, <1>12, <2>3 DEF Synced
<1>13. (Synced(i.clone, Thread(b)))'
  BY <1>12 DEF Synced
<1>14. QED
  BY <1>6, <1>13

LEMMA PushNames ==
  ASSUME EngineInv, StartAlone, GroupsNamed, NEW j \in jobs, Push(j)
  PROVE  StartAlone' /\ GroupsNamed'
<1>1. PICK k : /\ Becomes(j, k)
               /\ k.group = j.group /\ k.role = j.role /\ k.command = j.command
               /\ k.path = j.path
               /\ k.stage = "pushed" /\ k.todo = j.todo
  BY PushOK
<1>2. jobs' = (jobs \ {j}) \union {k} /\ waiting' = waiting /\ j.stage = "edited"
  BY <1>1 DEF Becomes, Push, Pushing
<1>3. GroupsNamed'
  BY <1>1, <1>2 DEF GroupsNamed
<1>4. StartAlone'
  <2> SUFFICES ASSUME NEW i \in jobs', i.command = "start"
      PROVE  /\ jobs' = {i}
             /\ \A w \in waiting' : Group(w) = RootGroup /\ w.command \in Replies
             /\ Editing(i) => Moves(i.clone, i.todo, <<>>)
             /\ i.stage # "ready" => i.todo.runs \/ i.todo.emit = {}
    BY DEF StartAlone
  <2>1. i = k
    BY <1>1, <1>2 DEF StartAlone
  <2>2. jobs = {j} /\ (\A w \in waiting : Group(w) = RootGroup /\ w.command \in Replies)
        /\ (j.todo.runs \/ j.todo.emit = {})
    BY <1>1, <1>2, <2>1 DEF StartAlone
  <2> QED
    BY <1>1, <1>2, <2>1, <2>2 DEF Editing
<1>5. QED
  BY <1>3, <1>4

\* A push keeps the threads apart.
LEMMA PushThreads ==
  ASSUME EngineInv, OneStart, used["start"] <= 1, GatesApart, Threads, NEW j \in jobs, Push(j)
  PROVE  Threads'
<1>1. \E t : PushesAlone(j, t)
  <2>1. CASE j.command = "start"
    BY <2>1, StartIsAlone DEF Threads
  <2>2. CASE j.command # "start"
    <3>1. Editing(j)
      BY DEF Editing, Push, Pushing
    <3>2. PICK a \in DOMAIN Tree \ {<<>>} :
        WorksAt(j, j.clone, a) /\ Moves(j.clone, j.todo, Thread(a)) /\ Synced(j.clone, Thread(a))
      BY <2>2, <3>1 DEF EditsOK, Threads
    <3> QED
      BY <2>2, <3>2, PushIsAlone DEF Threads
  <2> QED
    BY <2>1, <2>2
<1>2. PICK t : PushesAlone(j, t)
  BY <1>1
<1>3. Sole' /\ Spaced' /\ AllInside' /\ RunningUnits' /\ ProbesOK' /\ Histories'
  BY <1>2, PushSole, PushSpaced, PushInside, PushRunning, PushProbes, PushHistories DEF Threads
<1>4. EditsOK' /\ StartAlone' /\ GroupsNamed'
  BY PushEdits, PushNames DEF Threads
<1>5. QED
  BY <1>3, <1>4 DEF Threads

-----------------------------------------------------------------------------
(* Steps that leave the threads where they are. *)

\* T says of the threads what S says: they differ in the comment, the label, the
\* overrides at the most.
SameBut(S, T) ==
  /\ DOMAIN S = Files /\ DOMAIN T = Files
  /\ \A f \in Files \ {InstanceFile} : T[f] = S[f]
  /\ T[InstanceFile] = Missing <=> S[InstanceFile] = Missing
  /\ S[InstanceFile] # Missing =>
       /\ T[InstanceFile].phase = S[InstanceFile].phase
       /\ T[InstanceFile].joined = S[InstanceFile].joined
       /\ T[InstanceFile].halted = S[InstanceFile].halted

LEMMA SameReads ==
  ASSUME NEW S, NEW T, SameBut(S, T)
  PROVE  /\ \A p \in DOMAIN Tree \ {<<>>} :
              /\ Waits(T, p) <=> Waits(S, p)
              /\ Inside(T, p) <=> Inside(S, p)
              /\ HasFile(p) => T[NodeFile(p)] = S[NodeFile(p)]
         /\ \A p : p \in Places(T) <=> p \in Places(S)
         /\ RootEntered(T) <=> RootEntered(S)
         /\ \A x : IsLeg(x) => (Expected(T, x) <=> Expected(S, x)) /\ (Going(T, x) <=> Going(S, x))
         /\ \A p \in Units : HistoryOK(T, p) <=> HistoryOK(S, p)
         /\ \A p \in NestedFanouts : T[JoinFile(p)] = S[JoinFile(p)]
<1>1. \A q \in DOMAIN Tree : HasFile(q) => T[NodeFile(q)] = S[NodeFile(q)]
  BY FilesAre, NotTheInstance DEF SameBut, HasFile
<1>2. \A q \in NestedFanouts : T[JoinFile(q)] = S[JoinFile(q)]
  BY FilesAre, NotTheInstance DEF SameBut
<1>3. \A q \in DOMAIN Tree : IsDynamic(q) => T[ManifestFile(q)] = S[ManifestFile(q)]
  BY FilesAre, NotTheInstance DEF SameBut
<1>4. ASSUME NEW p \in DOMAIN Tree \ {<<>>}
      PROVE  Waits(T, p) <=> Waits(S, p)
  <2>1. CASE NodeKind(p) = "gate"
    BY <1>1, <2>1 DEF Waits, Present, HasFile, SameBut
  <2>2. CASE NodeKind(p) = "fanout"
    <3>1. Len(p) > 1 => T[JoinFile(p)] = S[JoinFile(p)]
      BY <1>2, <2>2, LongFanouts
    <3>2. ASSUME NEW l \in ChildIds(p)
          PROVE  Present(T, Child(p, l)) <=> Present(S, Child(p, l))
      <4>1. Child(p, l) \in DOMAIN Tree /\ HasFile(Child(p, l))
        BY <2>2, LegsAre DEF HasFile
      <4> QED
        BY <1>1, <4>1 DEF Present
    <3> QED
      BY <2>2, <3>1, <3>2 DEF Waits, SameBut
  <2>3. CASE NodeKind(p) \notin {"gate", "fanout"}
    BY <2>3 DEF Waits, SameBut
  <2> QED
    BY <2>1, <2>2, <2>3
<1>5. ASSUME NEW x, IsLeg(x)
      PROVE  (Expected(T, x) <=> Expected(S, x)) /\ (Going(T, x) <=> Going(S, x))
  <2>1. /\ x \in DOMAIN Tree \ {<<>>} /\ HasFile(x)
        /\ ParentPath(x) \in DOMAIN Tree \ {<<>>}
        /\ Len(x) > 2 => ParentPath(x) \in NestedFanouts
    BY <1>5, LegsParent
  <2>2. Expected(T, x) <=> Expected(S, x)
    BY <1>2, <1>3, <1>5, <2>1, SameLeg DEF SameBut
  <2> QED
    BY <1>1, <2>1, <2>2 DEF Going, Present
<1>6. \A p : Inside(T, p) <=> Inside(S, p)
  BY <1>5 DEF Inside, SameBut
<1>7. \A p : p \in Places(T) <=> p \in Places(S)
  BY <1>4, PlaceIs
<1>8. RootEntered(T) <=> RootEntered(S)
  BY <1>7 DEF RootEntered, SameBut
<1>9. \A p \in Units : HistoryOK(T, p) <=> HistoryOK(S, p)
  BY <1>1, UnitsAreAgents DEF HistoryOK, Present, HasFile
<1>10. QED
  BY <1>1, <1>2, <1>4, <1>5, <1>6, <1>7, <1>8, <1>9

\* What a step that edits no more than that, and puts no job or event at another
\* node, keeps.
LEMMA QuietStep ==
  ASSUME EngineInv, SameBut(store, store'), Spaced, AllInside, ProbesOK, Histories,
         \A p \in AtAll' : p \in AtAll,
         \A p \in RunningAll' :
           p \in Units /\ Present(store, p) /\ store[NodeFile(p)].state = LifeState(p),
         \A f \in ProbedAll' : f \in ProbedAll
  PROVE  Spaced' /\ AllInside' /\ RunningUnits' /\ ProbesOK' /\ Histories'
<1>1. \A p : p \in Places(store') <=> p \in Places(store)
  BY SameReads
<1>2. Spaced'
  <2> SUFFICES /\ \A p, q \in AtAll' : p # q => Far(p, q)
               /\ \A p \in AtAll', q \in Places(store') : Far(p, q) \/ Over(q, p)
               /\ \A p, q \in Places(store') : p # q => Far(p, q) \/ Over(q, p) \/ Over(p, q)
    BY DEF Spaced
  <2> QED
    BY <1>1 DEF Spaced
<1>3. AllInside'
  <2> SUFFICES ASSUME NEW p \in AtAll' \union Places(store')
               PROVE  p \in DOMAIN Tree \ {<<>>} /\ Inside(store', p)
    BY DEF AllInside
  <2>1. p \in DOMAIN Tree \ {<<>>} /\ Inside(store, p)
    BY <1>1 DEF AllInside
  <2> QED
    BY <2>1, SameReads
<1>4. RunningUnits'
  <2> SUFFICES ASSUME NEW p \in RunningAll'
               PROVE  Present(store', p) /\ store'[NodeFile(p)].state = LifeState(p)
    BY DEF RunningUnits
  <2>1. Present(store, p) /\ store[NodeFile(p)].state = LifeState(p) /\ p \in Units
    OBVIOUS
  <2>3. p \in DOMAIN Tree \ {<<>>} /\ HasFile(p)
    BY <2>1, UnitsAreAgents DEF HasFile
  <2> QED
    BY <2>1, <2>3, SameReads DEF Present
<1>5. ProbesOK'
  <2> SUFFICES ASSUME NEW f \in ProbedAll'
               PROVE  IF f = <<>> THEN RootEntered(store') ELSE store'[JoinFile(f)] # Missing
    BY DEF ProbesOK
  <2>1. f \in NestedFanouts \union {<<>>} /\ f \in ProbedAll
    BY ProbedPaths
  <2>2. IF f = <<>> THEN RootEntered(store) ELSE store[JoinFile(f)] # Missing
    BY <2>1 DEF ProbesOK
  <2> QED
    BY <2>1, <2>2, SameReads
<1>6. Histories'
  <2> SUFFICES ASSUME NEW p \in Units PROVE HistoryOK(store', p)
    BY DEF Histories
  <2> QED
    BY SameReads DEF Histories
<1>7. QED
  BY <1>2, <1>3, <1>4, <1>5, <1>6

LEMMA RunningAreUnits ==
  ASSUME EngineInv, RunningUnits, NEW p \in RunningAll
  PROVE  p \in Units /\ Present(store, p) /\ store[NodeFile(p)].state = LifeState(p)
<1>1. p \in Units
  BY HoldersNow DEF Running, EngineInv, JobOK, TodoOK, Unpushed
<1>2. QED
  BY <1>1 DEF RunningUnits

\* A job goes on, and the branch stays.
LEMMA OneGoesOn ==
  ASSUME EngineInv, Threads, NEW j \in jobs, NEW k, Becomes(j, k), UNCHANGED <<store, waiting>>,
         k.role = j.role, k.group = j.group, k.command = j.command, k.path = j.path,
         k.stage # "ready" /\ j.command = "start" => k.todo.runs \/ k.todo.emit = {},
         At(k) \subseteq At(j), Probed(k) \subseteq Probed(j),
         \A p \in Running(k) :
           p \in Units /\ Present(store, p) /\ store[NodeFile(p)].state = LifeState(p),
         Editing(k) =>
           IF k.command = "start" THEN Moves(k.clone, k.todo, <<>>)
           ELSE \E p \in DOMAIN Tree \ {<<>>} :
                  /\ WorksAt(k, k.clone, p) /\ Moves(k.clone, k.todo, Thread(p))
                  /\ Synced(k.clone, Thread(p))
  PROVE  Threads'
<1>1. jobs' = (jobs \ {j}) \union {k} /\ waiting' = waiting /\ store' = store /\ Woke' = Woke
  BY DEF Becomes, Woke
<1>2. \A i \in jobs' : i \in jobs \ {j} \/ i = k
  BY <1>1
<1>3. Sole'
  <2>1. ASSUME NEW i \in jobs', NEW m \in jobs', i # m, NEW p, p \in At(i), p \in At(m)
        PROVE  FALSE
    <3> DEFINE old(x) == IF x \in jobs \ {j} THEN x ELSE j
    <3>1. /\ old(i) \in jobs /\ p \in At(old(i))
          /\ old(m) \in jobs /\ p \in At(old(m))
      BY <1>2, <2>1
    <3>2. old(i) # old(m)
      BY <1>2, <2>1
    <3> QED
      BY <3>1, <3>2, SoleIs DEF Threads
  <2>2. ASSUME NEW i \in jobs', NEW p, p \in At(i), p \in Woke'
        PROVE  FALSE
    BY <1>1, <1>2, <2>2, SoleIs DEF Threads
  <2> QED
    BY <2>1, <2>2, HoldersNext
<1>4. \A p \in AtAll' : p \in AtAll
  BY <1>1, <1>2, HoldersNext, HoldersAre
<1>5. \A f \in ProbedAll' : f \in ProbedAll
  BY <1>1, <1>2, HoldersNext, HoldersNow
<1>6. \A p \in RunningAll' :
           p \in Units /\ Present(store, p) /\ store[NodeFile(p)].state = LifeState(p)
  <2> SUFFICES ASSUME NEW p \in RunningAll'
      PROVE  p \in Units /\ Present(store, p) /\ store[NodeFile(p)].state = LifeState(p)
    OBVIOUS
  <2>1. (\E i \in jobs : p \in Running(i)) \/ p \in Running(k)
    BY <1>2, HoldersNext
  <2>2. p \in RunningAll \/ p \in Running(k)
    BY <2>1, HoldersNow
  <2> QED
    BY <2>2, RunningAreUnits DEF Threads
<1>7. SameBut(store, store')
  BY <1>1 DEF SameBut, EngineInv, StoreOK
<1>8. Spaced' /\ AllInside' /\ RunningUnits' /\ ProbesOK' /\ Histories'
  BY <1>4, <1>5, <1>6, <1>7, QuietStep DEF Threads
<1>9. EditsOK'
  <2> SUFFICES ASSUME NEW i \in jobs', Editing(i), i.command # "start"
      PROVE  \E p \in DOMAIN Tree \ {<<>>} :
               /\ WorksAt(i, i.clone, p) /\ Moves(i.clone, i.todo, Thread(p))
               /\ (Synced(i.clone, Thread(p)))'
    BY DEF EditsOK
  <2>1. PICK p \in DOMAIN Tree \ {<<>>} :
          WorksAt(i, i.clone, p) /\ Moves(i.clone, i.todo, Thread(p)) /\ Synced(i.clone, Thread(p))
    BY <1>2 DEF EditsOK, Threads
  <2>2. (Synced(i.clone, Thread(p)))'
    BY <1>1, <2>1 DEF Synced
  <2> QED
    BY <2>1, <2>2
<1>10. StartAlone'
  <2> SUFFICES ASSUME NEW i \in jobs', i.command = "start"
      PROVE  /\ jobs' = {i}
             /\ \A w \in waiting' : Group(w) = RootGroup /\ w.command \in Replies
             /\ Editing(i) => Moves(i.clone, i.todo, <<>>)
             /\ i.stage # "ready" => i.todo.runs \/ i.todo.emit = {}
    BY DEF StartAlone
  <2>1. i = k
    BY <1>2 DEF StartAlone, Threads
  <2>2. jobs = {j} /\ (\A w \in waiting : Group(w) = RootGroup /\ w.command \in Replies)
    BY <2>1 DEF StartAlone, Threads
  <2> QED
    BY <1>1, <2>1, <2>2
<1>11. GroupsNamed'
  <2>1. \A i \in jobs' :
       /\ i.command = "continue" => i.group = <<"engine", i.path>>
       /\ i.role = "join" => i.group = <<"join", i.path>>
       /\ i.role = "plan" /\ i.command # "continue" => i.group = RootGroup
    BY <1>2 DEF GroupsNamed, Threads
  <2> QED
    BY <1>1, <2>1 DEF GroupsNamed, Threads
<1>12. QED
  BY <1>3, <1>8, <1>9, <1>10, <1>11 DEF Threads

LEMMA MovesSame ==
  ASSUME NEW S, NEW r, NEW q, NEW t, q.store = r.store, q.runs = r.runs, q.legs = r.legs,
         q.emit = r.emit
  PROVE  Moves(S, q, t) <=> Moves(S, r, t)
<1>1. Hands(q) = Hands(r)
  BY DEF Hands
<1>2. QED
  BY <1>1 DEF Moves

LEMMA ReportThreads ==
  ASSUME EngineInv, Threads, NEW j \in jobs, Report(j)
  PROVE  Threads'
<1>1. PICK k : /\ Becomes(j, k)
                /\ k.group = j.group /\ k.role = j.role /\ k.command = j.command
                /\ k.path = j.path
                /\ k.stage = "edited" /\ k.clone = j.clone
                /\ k.todo.store = j.todo.store /\ k.todo.push = j.todo.push
                /\ k.todo.emit = j.todo.emit /\ k.todo.runs = j.todo.runs
                /\ k.todo.legs = j.todo.legs
  BY ReportOK
<1>2. j.stage = "edited" /\ UNCHANGED <<store, waiting>>
  BY DEF Report
<1>3. Unpushed(k) <=> Unpushed(j)
  BY <1>1, <1>2 DEF Unpushed
<1>4. At(k) = At(j) /\ Running(k) = Running(j) /\ Probed(k) = Probed(j)
  BY <1>1, <1>3 DEF At, Running, Probed, Hands
<1>5. \A p \in Running(k) :
           p \in Units /\ Present(store, p) /\ store[NodeFile(p)].state = LifeState(p)
  BY <1>4, HoldersNow, RunningAreUnits DEF Threads
<1>6. ASSUME Editing(k)
      PROVE  IF k.command = "start" THEN Moves(k.clone, k.todo, <<>>)
             ELSE \E p \in DOMAIN Tree \ {<<>>} :
                  /\ WorksAt(k, k.clone, p) /\ Moves(k.clone, k.todo, Thread(p))
                  /\ Synced(k.clone, Thread(p))
  <2>1. Editing(j)
    BY <1>1, <1>2, <1>6 DEF Editing
  <2>2. \A S, t : Moves(S, k.todo, t) <=> Moves(S, j.todo, t)
    BY <1>1, MovesSame
  <2>3. \A S, p : WorksAt(k, S, p) <=> WorksAt(j, S, p)
    BY <1>1 DEF WorksAt
  <2>4. CASE k.command = "start"
    BY <1>1, <2>1, <2>2, <2>4 DEF Threads, StartAlone
  <2>5. CASE k.command # "start"
    <3>1. PICK p \in DOMAIN Tree \ {<<>>} :
          WorksAt(j, j.clone, p) /\ Moves(j.clone, j.todo, Thread(p)) /\ Synced(j.clone, Thread(p))
      BY <1>1, <2>1, <2>5 DEF Threads, EditsOK
    <3> QED
      BY <1>1, <2>2, <2>3, <2>5, <3>1
  <2> QED
    BY <2>4, <2>5
<1>7. j.command = "start" => k.todo.runs \/ k.todo.emit = {}
  BY <1>1, <1>2 DEF Threads, StartAlone
<1>8. QED
  BY <1>1, <1>2, <1>4, <1>5, <1>6, <1>7, OneGoesOn

LEMMA MarkThreads ==
  ASSUME EngineInv, Threads, NEW j \in jobs, MarkInProgress(j)
  PROVE  Threads'
<1>1. PICK k : /\ Becomes(j, k)
                /\ k.group = j.group /\ k.role = j.role /\ k.command = j.command
                /\ k.path = j.path
                /\ k.stage = "marked" /\ k.todo = j.todo
  BY MarkOK
<1>2. Landed(j) /\ UNCHANGED <<store, waiting>> /\ j.stage # "ready"
  BY DEF MarkInProgress, Landed
<1>3. ~Unpushed(k) /\ ~Unpushed(j) /\ ~Editing(k)
  BY <1>1, <1>2 DEF Unpushed, Landed, Editing
<1>4. At(k) = At(j) /\ Running(k) = Running(j) /\ Probed(k) = Probed(j)
  BY <1>1, <1>3 DEF At, Running, Probed
<1>5. \A p \in Running(k) :
           p \in Units /\ Present(store, p) /\ store[NodeFile(p)].state = LifeState(p)
  BY <1>4, HoldersNow, RunningAreUnits DEF Threads
<1>7. j.command = "start" => k.todo.runs \/ k.todo.emit = {}
  BY <1>1, <1>2 DEF Threads, StartAlone
<1>8. QED
  BY <1>1, <1>2, <1>3, <1>4, <1>5, <1>7, OneGoesOn

-----------------------------------------------------------------------------
(* Events arrive. *)

LEMMA WokenIs ==
  ASSUME NEW E
  PROVE  /\ \A p : p \in Woken(E) <=> \E e \in E : e.command = "continue" /\ e.path = p
         /\ \A p : p \in Called(E) <=> \E e \in E : e.command = "join" /\ e.path = p
BY DEF Woken, Called

LEMMA QueuedAt ==
  ASSUME NEW e, EventOK(e)
  PROVE  /\ \A p : p \in At(Queued(e)) <=> e.command = "continue" /\ p = e.path
         /\ \A p : p \notin Running(Queued(e))
         /\ \A p : p \in Probed(Queued(e)) <=> e.command = "join" /\ p = e.path
         /\ ~Editing(Queued(e)) /\ Queued(e).stage = "ready"
         /\ Queued(e).group = Group(e) /\ Queued(e).command = e.command
         /\ Queued(e).path = e.path
         /\ Queued(e).role = IF e.workflow = "join" THEN "join" ELSE "plan"
         /\ e.workflow = "join" <=> e.command = "join"
<1>1. /\ Queued(e).stage = "ready" /\ Queued(e).path = e.path
      /\ Queued(e).group = Group(e) /\ Queued(e).command = e.command
      /\ Queued(e).role = IF e.workflow = "join" THEN "join" ELSE "plan"
  BY DEF Queued, Job
<1>2. e.workflow = "join" <=> e.command = "join"
  BY DEF EventOK, Replies
<1> HIDE DEF Queued
<1>3. Unpushed(Queued(e)) /\ ~Editing(Queued(e))
  BY <1>1 DEF Unpushed, Editing
<1>4. /\ At(Queued(e)) = IF e.command = "continue" THEN {e.path} ELSE {}
      /\ Running(Queued(e)) = {}
      /\ Probed(Queued(e)) = IF e.command = "join" THEN {e.path} ELSE {}
  BY <1>1, <1>2, <1>3 DEF At, Running, Probed
<1>5. QED
  BY <1>1, <1>2, <1>3, <1>4

\* What an arrival of events leaves at the nodes.
LEMMA ArrivalTokens ==
  ASSUME EngineInv, GroupsNamed, NEW J, NEW E, Schedule(J, E),
         \A i \in J : JobOK(i), Exclusive(J),
         \A e \in E : EventOK(e) /\ (e.command = "continue" => e.workflow = "engine"),
         \A d, e \in E : d = e,
         \A i, m \in J : i # m => \A p : ~(p \in At(i) /\ p \in At(m)),
         \A i \in J : \A p \in At(i) : p \notin Woke /\ p \notin Woken(E)
  PROVE  /\ Sole'
         /\ \A p \in AtAll' : (\E i \in J : p \in At(i)) \/ p \in Woke \/ p \in Woken(E)
         /\ \A p \in RunningAll' : \E i \in J : p \in Running(i)
         /\ \A f \in ProbedAll' :
              (\E i \in J : f \in Probed(i)) \/ f \in Called(waiting) \/ f \in Called(E)
         /\ \A k \in jobs' : \/ k \in J
                             \/ \E w \in waiting \union E : k = Queued(w) /\ w \notin waiting'
         /\ waiting' \subseteq waiting \union E
<1>1. /\ GroupsExclusive'
      /\ \A k \in jobs' : \/ k \in J
                          \/ \E w \in waiting \union E : k = Queued(w) /\ w \notin waiting'
      /\ waiting' \subseteq waiting \union E
  BY ScheduleOK DEF EngineInv, GroupsExclusive
<1>2. \A w \in waiting \union E : EventOK(w) /\ (w.command = "continue" => Group(w) = <<"engine", w.path>>)
  BY DEF EngineInv, GroupsNamed, Group
<1>3. \A w \in waiting \union E : w.command = "continue" => w.path \in Woke \/ w.path \in Woken(E)
  BY WokenIs DEF Woke
<1>4. \A k \in jobs' : \A p \in At(k) :
        \/ k \in J
        \/ \E w \in waiting \union E :
             /\ k = Queued(w) /\ w.command = "continue" /\ w.path = p
             /\ k.group = <<"engine", p>> /\ k.role = "plan"
  BY <1>1, <1>2, QueuedAt DEF EventOK, Replies
<1>5. ASSUME NEW i \in jobs', NEW m \in jobs', i # m, NEW p, p \in At(i), p \in At(m)
      PROVE  FALSE
  <2>1. ~(i \in J /\ m \in J)
    BY <1>5
  <2>2. ~(i \in J /\ m \notin J) /\ ~(i \notin J /\ m \in J)
    BY <1>3, <1>4, <1>5
  <2>3. ~(i \notin J /\ m \notin J)
    BY <1>1, <1>4, <1>5 DEF GroupsExclusive
  <2> QED
    BY <2>1, <2>2, <2>3
<1>6. \A p : p \in Woke' => \E w \in waiting' : w.command = "continue" /\ w.path = p
  BY WokenIs DEF Woke
<1>7. ASSUME NEW i \in jobs', NEW p, p \in At(i), p \in Woke'
      PROVE  FALSE
  <2>1. PICK w \in waiting' : w.command = "continue" /\ w.path = p
    BY <1>6, <1>7
  <2>2. w \in waiting \union E /\ Group(w) = <<"engine", p>>
    BY <1>1, <1>2, <2>1
  <2>3. i \notin J
    BY <1>3, <1>7, <2>1, <2>2
  <2> DEFINE pending == {v \in waiting : \A e \in E : Group(e) # Group(v)} \union E
             free == {v \in pending : ~Busy(J, Group(v))}
  <2>4. jobs' = J \union {Queued(v) : v \in free} /\ waiting' = pending \ free
    BY DEF Schedule
  <2>5. PICK v \in free : i = Queued(v)
    BY <2>3, <2>4
  <2>6. EventOK(v) /\ v \in waiting \union E
    BY <1>2, <2>5
  <2>7. v.command = "continue" /\ v.path = p
    BY <1>7, <2>5, <2>6, QueuedAt
  <2>8. Group(v) = Group(w)
    BY <1>2, <2>2, <2>6, <2>7
  <2>9. v \in pending /\ w \in pending /\ w \notin free
    BY <2>1, <2>4
  <2>10. v = w
    BY <2>8, <2>9 DEF EngineInv, GroupsExclusive
  <2> QED
    BY <2>5, <2>9, <2>10
<1>8. Sole'
  BY <1>5, <1>7, HoldersNext
<1>9. ASSUME NEW p \in AtAll'
      PROVE  (\E i \in J : p \in At(i)) \/ p \in Woke \/ p \in Woken(E)
  BY <1>1, <1>3, <1>4, <1>6, <1>9, HoldersNext
<1>10. ASSUME NEW p \in RunningAll'
       PROVE  \E i \in J : p \in Running(i)
  BY <1>1, <1>2, <1>10, HoldersNext, QueuedAt
<1>11. ASSUME NEW f \in ProbedAll'
       PROVE  (\E i \in J : f \in Probed(i)) \/ f \in Called(waiting) \/ f \in Called(E)
  <2>1. CASE f \in Called(waiting')
    BY <1>1, <2>1, WokenIs
  <2>2. CASE \E k \in jobs' : f \in Probed(k)
    BY <1>1, <1>2, <2>2, QueuedAt, WokenIs
  <2> QED
    BY <1>11, <2>1, <2>2, HoldersNext
<1>12. QED
  BY <1>1, <1>8, <1>9, <1>10, <1>11

\* Who comes, and who goes: a comment comes, or a job ends, or gives way to legs.
Arrives(J, E) ==
  \/ /\ J = jobs
     /\ \A e \in E : /\ e.command \in Replies \union {"start"} /\ Group(e) = RootGroup
                     /\ e.command = "start" => /\ ~Started
                                               /\ \A i \in jobs : i.command # "start"
  \/ /\ \E j \in jobs : j \notin J
     /\ \A e \in E : /\ e.command \in {"continue", "join"}
                     /\ e.command = "continue" => e.workflow = "engine"
     /\ ~Started => E = {} /\ J \subseteq jobs
     /\ \A i \in J : i \in jobs \/ (i.stage = "ready" /\ i.role = "leg" /\ i.command = None)

LEMMA StartsArePlans ==
  ASSUME NEW j, JobOK(j), j.command \in Replies \union {"start"}
  PROVE  j.role = "plan" /\ j.command # "continue"
BY DEF JobOK, Replies, None

LEMMA ArrivalNames ==
  ASSUME EngineInv, OneStart, used["start"] <= 1, StartAlone, GroupsNamed,
         NEW J, NEW E, Schedule(J, E),
         \A i \in J : JobOK(i), Exclusive(J),
         \A e \in E : EventOK(e), \A d, e \in E : d = e, Arrives(J, E)
  PROVE  StartAlone' /\ GroupsNamed'
<1>1. /\ \A k \in jobs' : \/ k \in J
                          \/ \E w \in waiting \union E : k = Queued(w) /\ w \notin waiting'
      /\ waiting' \subseteq waiting \union E
  BY ScheduleOK DEF EngineInv, GroupsExclusive
<1>2. \A w \in waiting \union E :
        /\ EventOK(w)
        /\ w.command = "continue" => w.workflow = "engine"
        /\ w.command \in Replies \union {"start"} => Group(w) = RootGroup
  BY DEF EngineInv, GroupsNamed, Arrives, Replies
<1>3. \A i \in J : i \in jobs \/ (i.role = "leg" /\ i.command = None)
  BY DEF Arrives
<1>4. GroupsNamed'
  <2>1. ASSUME NEW i \in jobs'
        PROVE  /\ i.command = "continue" => i.group = <<"engine", i.path>>
               /\ i.role = "join" => i.group = <<"join", i.path>>
               /\ i.role = "plan" /\ i.command # "continue" => i.group = RootGroup
    <3>1. CASE i \in J
      BY <1>3, <3>1 DEF GroupsNamed, None
    <3>2. CASE \E w \in waiting \union E : i = Queued(w)
      <4>1. PICK w \in waiting \union E : i = Queued(w)
        BY <3>2
      <4>2. /\ i.group = Group(w) /\ i.command = w.command /\ i.path = w.path
            /\ i.role = IF w.workflow = "join" THEN "join" ELSE "plan"
        BY <1>2, <4>1, QueuedAt
      <4>3. w.workflow = "join" \/ w.command \in Replies \union {"start", "continue"}
        BY <1>2 DEF EventOK
      <4> QED
        BY <1>2, <4>2, <4>3 DEF Group
    <3> QED
      BY <1>1, <3>1, <3>2
  <2>2. ASSUME NEW w \in waiting'
        PROVE  /\ w.command = "continue" => w.workflow = "engine"
               /\ w.command \in Replies \union {"start"} => Group(w) = RootGroup
    BY <1>1, <1>2
  <2> QED
    BY <2>1, <2>2 DEF GroupsNamed
<1>5. StartAlone'
  <2> SUFFICES ASSUME NEW i \in jobs', i.command = "start"
      PROVE  /\ jobs' = {i}
             /\ \A w \in waiting' : Group(w) = RootGroup /\ w.command \in Replies
             /\ Editing(i) => Moves(i.clone, i.todo, <<>>)
             /\ i.stage # "ready" => i.todo.runs \/ i.todo.emit = {}
    BY DEF StartAlone
  <2> DEFINE pending == {v \in waiting : \A e \in E : Group(e) # Group(v)} \union E
             free == {v \in pending : ~Busy(J, Group(v))}
  <2>1. jobs' = J \union {Queued(v) : v \in free} /\ waiting' = pending \ free
    BY DEF Schedule
  <2>2. CASE i \in J
    <3>1. i \in jobs
      BY <1>3, <2>2 DEF None
    <3>2. /\ jobs = {i}
          /\ \A w \in waiting : Group(w) = RootGroup /\ w.command \in Replies
          /\ Editing(i) => Moves(i.clone, i.todo, <<>>)
          /\ i.stage # "ready" => i.todo.runs \/ i.todo.emit = {}
      BY <3>1 DEF StartAlone
    <3>3. J = jobs /\ \A e \in E : e.command \in Replies /\ Group(e) = RootGroup
      BY <2>2, <3>1, <3>2 DEF Arrives
    <3>4. i.group = RootGroup
      BY <3>1, StartsArePlans DEF EngineInv, GroupsNamed
    <3>5. free = {}
      BY <2>2, <3>2, <3>3, <3>4 DEF Busy
    <3> QED
      BY <1>1, <2>1, <3>2, <3>3, <3>5
  <2>3. CASE i \notin J
    <3>1. PICK w \in free : i = Queued(w)
      BY <2>1, <2>3
    <3>2. w \in waiting \union E /\ w \in pending
      OBVIOUS
    <3>3. w.command = "start"
      BY <1>2, <3>1, <3>2, QueuedAt
    <3>4. ~Started
      <4>1. CASE w \in E
        BY <3>3, <4>1 DEF Arrives
      <4>2. CASE w \in waiting
        BY <3>3, <4>2 DEF OneStart, StartsOnce
      <4> QED
        BY <3>2, <4>1, <4>2
    <3>5. J \subseteq jobs /\ \A e \in E : e.command \in Replies \union {"start"}
      BY <3>4 DEF Arrives
    <3>6. \A m \in jobs : m.group = RootGroup
      BY <3>4, StartsArePlans DEF EngineInv, UntilStarted, GroupsNamed
    <3>7. \A v \in waiting \union E : Group(v) = RootGroup
      BY <1>2, <3>4, <3>5 DEF EngineInv, UntilStarted
    <3>8. J = {}
      BY <3>1, <3>2, <3>5, <3>6, <3>7 DEF Busy
    <3>9. \A v \in pending : v = w
      BY <3>2, <3>7 DEF EngineInv, GroupsExclusive
    <3>10. jobs' = {i} /\ waiting' = {}
      BY <2>1, <3>1, <3>2, <3>8, <3>9
    <3> QED
      BY <1>2, <3>1, <3>2, <3>10, QueuedAt
  <2> QED
    BY <2>2, <2>3
<1>6. QED
  BY <1>4, <1>5

\* Events come, jobs end or give way to legs, at nodes where somebody was.
LEMMA ArrivalThreads ==
  ASSUME EngineInv, OneStart, used["start"] <= 1, Threads, NEW J, NEW E, Schedule(J, E),
         \A i \in J : JobOK(i), Exclusive(J),
         \A e \in E : EventOK(e), \A d, e \in E : d = e, Arrives(J, E),
         \A i, m \in J : i # m => \A p : ~(p \in At(i) /\ p \in At(m)),
         \A i \in J : \A p \in At(i) : p \in AtAll /\ p \notin Woke /\ p \notin Woken(E),
         \A p \in Woken(E) : p \in AtAll,
         \A i \in J : \A p \in Running(i) : p \in RunningAll,
         \A i \in J : \A f \in Probed(i) : f \in ProbedAll,
         \A f \in Called(E) : f \in ProbedAll,
         SameBut(store, store'),
         \A i \in J : Editing(i) => i \in jobs /\ store' = store
  PROVE  Threads'
<1>1. StartAlone' /\ GroupsNamed'
  BY ArrivalNames DEF Threads
<1>2. \A e \in E : e.command = "continue" => e.workflow = "engine"
  BY DEF Arrives, Replies
<1>3. /\ Sole'
      /\ \A p \in AtAll' : (\E i \in J : p \in At(i)) \/ p \in Woke \/ p \in Woken(E)
      /\ \A p \in RunningAll' : \E i \in J : p \in Running(i)
      /\ \A f \in ProbedAll' :
              (\E i \in J : f \in Probed(i)) \/ f \in Called(waiting) \/ f \in Called(E)
      /\ \A k \in jobs' : k \in J \/ \E w \in waiting \union E : k = Queued(w)
  BY <1>2, ArrivalTokens DEF Threads
<1>4. \A p \in AtAll' : p \in AtAll
  BY <1>3, HoldersAre
<1>5. \A p \in RunningAll' :
           p \in Units /\ Present(store, p) /\ store[NodeFile(p)].state = LifeState(p)
  BY <1>3, RunningAreUnits DEF Threads
<1>6. \A f \in ProbedAll' : f \in ProbedAll
  BY <1>3, HoldersNow
<1>7. Spaced' /\ AllInside' /\ RunningUnits' /\ ProbesOK' /\ Histories'
  BY <1>4, <1>5, <1>6, QuietStep DEF Threads
<1>8. EditsOK'
  <2> SUFFICES ASSUME NEW i \in jobs', Editing(i), i.command # "start"
      PROVE  \E p \in DOMAIN Tree \ {<<>>} :
               /\ WorksAt(i, i.clone, p) /\ Moves(i.clone, i.todo, Thread(p))
               /\ (Synced(i.clone, Thread(p)))'
    BY DEF EditsOK
  <2>1. i \in J
    BY <1>3, QueuedAt DEF EngineInv
  <2>2. i \in jobs /\ store' = store
    BY <2>1
  <2>3. PICK p \in DOMAIN Tree \ {<<>>} :
          WorksAt(i, i.clone, p) /\ Moves(i.clone, i.todo, Thread(p)) /\ Synced(i.clone, Thread(p))
    BY <2>2 DEF EditsOK, Threads
  <2>4. (Synced(i.clone, Thread(p)))'
    BY <2>2, <2>3 DEF Synced
  <2> QED
    BY <2>3, <2>4
<1>9. QED
  BY <1>1, <1>3, <1>7, <1>8 DEF Threads

LEMMA SameStore ==
  ASSUME EngineInv, store' = store
  PROVE  SameBut(store, store')
BY DEF SameBut, EngineInv, StoreOK

\* A job ends; what it dispatches goes on where it was.
LEMMA LeaveThreads ==
  ASSUME EngineInv, OneStart, used["start"] <= 1, Threads, NEW j \in jobs, NEW E, Leave(j, E),
         EmitOK(E), E # {} => Started, SameBut(store, store'),
         store' = store \/ jobs = {j},
         \A p \in Woken(E) : p \in At(j),
         \A f \in Called(E) : f \in Probed(j)
  PROVE  Threads'
<1> DEFINE J == jobs \ {j}
<1>1. Schedule(J, E)
  BY DEF Leave
<1>2. (\A i \in J : JobOK(i)) /\ Exclusive(J)
  BY DEF EngineInv, GroupsExclusive, Exclusive
<1>3. (\A e \in E : EventOK(e)) /\ (\A d, e \in E : d = e) /\ Arrives(J, E)
  BY DEF EmitOK, Arrives
<1>4. \A i, m \in J : i # m => \A p : ~(p \in At(i) /\ p \in At(m))
  BY SoleIs DEF Threads
<1>5. \A i \in J : \A p \in At(i) : p \in AtAll /\ p \notin Woke /\ p \notin Woken(E)
  BY SoleIs, HoldersAre DEF Threads
<1>6. \A p \in Woken(E) : p \in AtAll
  BY HoldersAre
<1>7. /\ \A i \in J : \A p \in Running(i) : p \in RunningAll
      /\ \A i \in J : \A f \in Probed(i) : f \in ProbedAll
      /\ \A f \in Called(E) : f \in ProbedAll
  BY HoldersNow
<1>8. \A i \in J : Editing(i) => i \in jobs /\ store' = store
  OBVIOUS
<1> HIDE DEF J
<1>9. QED
  BY <1>1, <1>2, <1>3, <1>4, <1>5, <1>6, <1>7, <1>8, ArrivalThreads

LEMMA NothingWoken == Woken({}) = {} /\ Called({}) = {}
BY WokenIs

LEMMA EndsThreads ==
  ASSUME EngineInv, OneStart, used["start"] <= 1, Threads, NEW j \in jobs,
         FailPush(j) \/ FailComment(j) \/ Die(j)
  PROVE  Threads'
<1>1. Leave(j, {}) /\ store' = store
  BY DEF FailPush, FailComment, Die
<1>2. QED
  BY <1>1, LeaveThreads, SameStore, NothingIsEmitted, NothingWoken

LEMMA FinishThreads ==
  ASSUME EngineInv, OneStart, used["start"] <= 1, Threads, NEW j \in jobs, Finish(j)
  PROVE  Threads'
<1>1. Leave(j, j.todo.emit) /\ store' = store /\ Landed(j) /\ ~j.todo.runs
  BY DEF Finish
<1>2. EmitOK(j.todo.emit) /\ (j.todo.emit # {} => Started)
  BY <1>1, LandedStarted DEF TodoOK, Inert
<1>3. ~Unpushed(j)
  BY <1>1 DEF Unpushed, Landed
<1>4. /\ \A p \in Woken(j.todo.emit) : p \in At(j)
      /\ \A f \in Called(j.todo.emit) : f \in Probed(j)
  BY <1>1, <1>3 DEF At, Hands, Probed
<1>5. QED
  BY <1>1, <1>2, <1>4, LeaveThreads, SameStore

LEMMA LegAt ==
  ASSUME NEW g, NEW q
  PROVE  /\ At(Leg(g, q)) = {q} /\ Running(Leg(g, q)) = {q} /\ Probed(Leg(g, q)) = {}
         /\ ~Editing(Leg(g, q))
<1>1. /\ Leg(g, q).stage = "ready" /\ Leg(g, q).path = q /\ Leg(g, q).role = "leg"
  BY DEF Leg, Job
<1> HIDE DEF Leg
<1>2. Unpushed(Leg(g, q)) /\ ~Editing(Leg(g, q))
  BY <1>1 DEF Unpushed, Editing
<1>3. QED
  BY <1>1, <1>2 DEF At, Running, Probed

\* The legs take over from the job that planned them, at their nodes.
LEMMA DispatchThreads ==
  ASSUME EngineInv, OneStart, used["start"] <= 1, Threads, NEW j \in jobs, j.stage = "marked",
         Schedule(Dispatched(j), {}), SameBut(store, store'), store' = store \/ jobs = {j}
  PROVE  Threads'
<1> DEFINE J == Dispatched(j)
<1>1. (\A i \in J : JobOK(i)) /\ Exclusive(J) /\ Started
  BY DispatchedOK
<1>2. j.todo.runs
  BY DEF EngineInv, JobOK
<1>3. ~Unpushed(j)
  BY DEF Unpushed
<1>4. At(j) = j.todo.legs /\ Running(j) = j.todo.legs
  BY <1>2, <1>3 DEF At, Running, Hands
<1>5. \A i \in J : i \in jobs \ {j} \/ \E q \in j.todo.legs : i = Leg(j.group, q)
  BY DEF Dispatched
<1>6. \A i \in J : \A p \in At(i) :
        \/ i \in jobs \ {j}
        \/ p \in At(j) /\ i = Leg(j.group, p)
  BY <1>4, <1>5, LegAt
<1>7. \A i, m \in J : i # m => \A p : ~(p \in At(i) /\ p \in At(m))
  BY <1>6, SoleIs DEF Threads
<1>8. \A i \in J : \A p \in At(i) : p \in AtAll /\ p \notin Woke /\ p \notin Woken({})
  BY <1>6, SoleIs, HoldersAre, NothingWoken DEF Threads
<1>9. \A i \in J : \A p \in Running(i) : p \in RunningAll
  BY <1>4, <1>5, LegAt, HoldersNow
<1>10. \A i \in J : \A f \in Probed(i) : f \in ProbedAll
  BY <1>5, LegAt, HoldersNow
<1>11. \A i \in J : Editing(i) => i \in jobs /\ store' = store
  BY <1>5, LegAt
<1>12. Arrives(J, {})
  <2>1. j \notin J
    <3>1. \A q : Leg(j.group, q).stage = "ready"
      BY DEF Leg, Job
    <3> QED
      BY <1>5, <3>1
  <2>2. \A i \in J : i \in jobs \/ (i.stage = "ready" /\ i.role = "leg" /\ i.command = None)
    BY DispatchedOK
  <2> QED
    BY <1>1, <2>1, <2>2 DEF Arrives
<1> HIDE DEF J
<1>13. Schedule(J, {}) /\ (\A p \in Woken({}) : p \in AtAll) /\ (\A f \in Called({}) : f \in ProbedAll)
  BY NothingWoken DEF J
<1>14. QED
  BY <1>1, <1>7, <1>8, <1>9, <1>10, <1>11, <1>12, <1>13, ArrivalThreads

\* Only the start of the one run creates the comment.
LEMMA CommentsAlone ==
  ASSUME EngineInv, CommentInv, used["start"] <= 1, used["redelivery"] = 0,
         NEW j \in jobs, j.stage # "ready", NeedsComment(j.clone)
  PROVE  jobs = {j}
<1>1. HasComment
  BY DEF NeedsComment, HasComment
<1>2. ~Told
  BY DEF Told, Numbered, NeedsComment
<1>3. QED
  BY <1>1, <1>2, OnlyJob DEF CommentInv

LEMMA StartLegsThreads ==
  ASSUME EngineInv, OneStart, CommentInv, used["start"] <= 1, used["redelivery"] = 0, Threads,
         NEW j \in jobs, StartLegs(j) \/ StartLegsWithComment(j)
  PROVE  Threads'
<1>1. j.stage = "marked" /\ Schedule(Dispatched(j), {})
  BY DEF StartLegs, StartLegsWithComment
<1>2. CASE StartLegs(j)
  BY <1>1, <1>2, DispatchThreads, SameStore DEF StartLegs
<1>3. CASE StartLegsWithComment(j)
  <2>1. jobs = {j}
    BY <1>1, <1>3, CommentsAlone DEF StartLegsWithComment
  <2>2. /\ store' = [store EXCEPT ![InstanceFile].comment = comments + 1]
        /\ StoreOK(store) /\ InstanceFile \in Files
    BY <1>3, FilesAre DEF StartLegsWithComment, EngineInv
  <2>3. Started /\ StoreOK(store')
    BY <1>3, CommentRecorded
  <2>4. store[InstanceFile] \in Instances /\ DOMAIN store = Files /\ DOMAIN store' = Files
    BY <2>2, <2>3, InstanceValue DEF StoreOK, Started
  <2>5. store'[InstanceFile] = [store[InstanceFile] EXCEPT !.comment = comments + 1]
        /\ \A f \in Files \ {InstanceFile} : store'[f] = store[f]
    BY <2>2, <2>4
  <2>6. store'[InstanceFile] # Missing
    BY <1>3, CommentRecorded DEF Started
  <2>7. SameBut(store, store')
    <3>1. \A i \in Instances : \A n : /\ [i EXCEPT !.comment = n].phase = i.phase
                                      /\ [i EXCEPT !.comment = n].joined = i.joined
                                      /\ [i EXCEPT !.comment = n].halted = i.halted
      BY DEF Instances
    <3> QED
      BY <2>3, <2>4, <2>5, <2>6, <3>1 DEF SameBut, Started
  <2> QED
    BY <1>1, <2>1, <2>7, DispatchThreads
<1>4. QED
  BY <1>2, <1>3

LEMMA CommentThreads ==
  ASSUME EngineInv, OneStart, used["start"] <= 1, Threads, PullRequest, used'["start"] <= 1,
         NEW command, NEW said, Comment(command, said)
  PROVE  Threads'
<1>1. PICK e : /\ EventOK(e) /\ e.command = command /\ Schedule(jobs, {e})
               /\ command \in Replies \union {"start"}
  BY CommentEvent
<1>2. store' = store
  BY DEF Comment
<1>3. Schedule(jobs, {Event("engine", command, <<>>, said)})
  BY DEF Comment
<1> DEFINE d == Event("engine", command, <<>>, said)
<1>4. d.command = command /\ Group(d) = RootGroup /\ EventOK(d) /\ d.workflow = "engine"
  <2>1. d.command = command /\ d.workflow = "engine" /\ d.path = <<>>
        /\ d = [workflow |-> "engine", command |-> command, path |-> <<>>, said |-> said]
    BY DEF Event
  <2>2. EventOK(d)
    BY <1>1, <2>1 DEF EventOK, Workflows, Paths, Event
  <2> QED
    BY <2>1, <2>2 DEF Group, RootGroup
<1> HIDE DEF d
<1>5. command = "start" => used["start"] = 0
  <2>1. command = "start" => Use("start")
    BY DEF Comment
  <2>2. command = "start" => used'["start"] = used["start"] + 1
    BY <2>1, UseOK DEF Bounds
  <2>3. used["start"] \in Nat
    BY DEF EngineInv, Bounds
  <2> QED
    BY <2>2, <2>3
<1>6. command = "start" => ~Started /\ \A i \in jobs : i.command # "start"
  BY <1>5 DEF OneStart
<1>7. Arrives(jobs, {d})
  BY <1>1, <1>4, <1>6 DEF Arrives
<1>8. \A p : p \notin Woken({d}) /\ p \notin Called({d})
  BY <1>1, <1>4, WokenIs DEF Replies
<1>9. (\A i \in jobs : JobOK(i)) /\ Exclusive(jobs)
  BY DEF EngineInv, GroupsExclusive, Exclusive
<1>10. /\ \A i, m \in jobs : i # m => \A p : ~(p \in At(i) /\ p \in At(m))
       /\ \A i \in jobs : \A p \in At(i) : p \in AtAll /\ p \notin Woke /\ p \notin Woken({d})
  BY <1>8, SoleIs, HoldersAre DEF Threads
<1>11. /\ \A i \in jobs : \A p \in Running(i) : p \in RunningAll
       /\ \A i \in jobs : \A f \in Probed(i) : f \in ProbedAll
  BY HoldersNow
<1>12. SameBut(store, store')
  BY <1>2, SameStore
<1>13. Schedule(jobs, {d}) /\ (\A x \in {d} : EventOK(x)) /\ (\A x, y \in {d} : x = y)
  BY <1>3, <1>4 DEF d
<1>14. QED
  BY <1>2, <1>7, <1>8, <1>9, <1>10, <1>11, <1>12, <1>13, ArrivalThreads

-----------------------------------------------------------------------------
(* What scripts write, thread by thread. *)

\* The state of a unit in flight is no word for its end.
LEMMA InFlight ==
  /\ \A x : IsLeg(x) => EnclosingFanoutId(x) \notin Terminal /\ EnclosingFanoutId(x) # None
                        /\ EnclosingFanoutPath(x) = ParentPath(x)
  /\ \A p \in DOMAIN Tree \ {<<>>} : NodeKind(p) # "fanout" /\ NodeKind(ParentPath(p)) = "sequence" =>
       /\ LifeState(p) = EnclosingFanoutId(ParentPath(p)) /\ LifeState(p) \notin Terminal
       /\ EnclosingFanoutPath(p) = ParentPath(ParentPath(p))
       /\ IsLeg(ParentPath(p))
  /\ \A p \in Units : LifeState(p) \notin Terminal
<1>1. ASSUME NEW x, IsLeg(x)
      PROVE  /\ EnclosingFanoutId(x) \notin Terminal /\ EnclosingFanoutId(x) # None
             /\ EnclosingFanoutPath(x) = ParentPath(x)
  <2>1. /\ x \in DOMAIN Tree /\ x # <<>> /\ NodeKind(x) # "fanout"
        /\ NodeKind(ParentPath(x)) = "fanout"
        /\ ParentPath(x) \in DOMAIN Tree \ {<<>>}
    BY <1>1, LegsKind, LegsParent
  <2>2. EnclosingFanoutId(x) = LastId(ParentPath(x)) /\ EnclosingFanoutId(x) # None
        /\ EnclosingFanoutPath(x) = ParentPath(x)
    BY <2>1, LegsFanout
  <2> QED
    BY <2>1, <2>2, ProtocolAssumption
<1>2. ASSUME NEW p \in DOMAIN Tree \ {<<>>}, NodeKind(p) # "fanout",
             NodeKind(ParentPath(p)) = "sequence"
      PROVE  /\ LifeState(p) = EnclosingFanoutId(ParentPath(p)) /\ LifeState(p) \notin Terminal
             /\ EnclosingFanoutPath(p) = ParentPath(ParentPath(p))
             /\ IsLeg(ParentPath(p))
  <2>1. /\ ParentPath(p) \in DOMAIN Tree /\ ParentPath(p) # <<>>
        /\ NodeKind(ParentPath(ParentPath(p))) = "fanout"
    BY <1>2, CursorsOfLegs
  <2>2. IsLeg(ParentPath(p))
    BY <2>1 DEF IsLeg
  <2> QED
    BY <1>1, <1>2, <2>1, <2>2, SubPipelinesFanout
<1>3. ASSUME NEW p \in Units
      PROVE  LifeState(p) \notin Terminal
  <2>1. p \in DOMAIN Tree /\ p # <<>> /\ NodeKind(p) = "agent" /\ p \in Seq(STRING)
    BY UnitsAreAgents
  <2>2. CASE NodeKind(ParentPath(p)) = "fanout"
    <3>1. IsLeg(p)
      BY <2>1, <2>2 DEF IsLeg
    <3> QED
      BY <1>1, <3>1 DEF LifeState
  <2>3. CASE NodeKind(ParentPath(p)) = "sequence"
    BY <1>2, <2>1, <2>3
  <2>4. CASE NodeKind(ParentPath(p)) \notin {"fanout", "sequence"}
    <3>1. p = <<LastId(p)>> /\ LastId(p) \notin Terminal
      BY <2>1, <2>4, ChildrenOfTheRoot, ProtocolAssumption
    <3>2. Len(p) = 1
      BY <3>1
    <3>3. Prefix(p, 1) = p
      <4>1. p \in Seq(STRING) /\ 1 \in 0 .. Len(p) /\ p[1] = LastId(p)
        BY <2>1, <3>1, <3>2 DEF LastId
      <4>2. /\ Prefix(p, 1) \in Seq(STRING) /\ Len(Prefix(p, 1)) = 1
            /\ \A i \in 1 .. 1 : Prefix(p, 1)[i] = p[i]
        BY <4>1, PrefixProperties
      <4> QED
        BY <3>2, <4>1, <4>2
    <3>4. FanoutDepths(p) = {}
      BY <2>1, <3>2, <3>3 DEF FanoutDepths
    <3>5. EnclosingFanoutPath(p) = <<>>
      BY <2>1, <3>4 DEF EnclosingFanoutPath, EnclosingFanouts
    <3> QED
      BY <3>1, <3>5 DEF LifeState, EnclosingFanoutId
  <2> QED
    BY <2>2, <2>3, <2>4
<1>4. QED
  BY <1>1, <1>2, <1>3

\* The join that a node of leg t calls.
LEMMA CallsOfLegs ==
  ASSUME NEW t, IsLeg(t), NEW p \in DOMAIN Tree \ {<<>>}, NodeKind(p) # "fanout",
         p = t \/ ParentPath(p) = t
  PROVE  /\ Called({FireJoin(p)}) \subseteq CalledBy(t)
         /\ Woken({FireJoin(p)}) = {}
<1>1. /\ ParentPath(t) \in DOMAIN Tree \ {<<>>} /\ t # <<>> /\ Len(t) \in Nat
      /\ Len(ParentPath(t)) = Len(t) - 1 /\ NodeKind(t) \in {"agent", "sequence"}
  BY LegsParent, LegsKind, NodesAreChildren
<1>2. EnclosingFanoutPath(p) = ParentPath(t)
  <2>1. CASE p = t
    BY <2>1, InFlight
  <2>2. CASE p # t
    <3>1. NodeKind(t) = "sequence"
      <4>1. Tree[t].kind \in Containers /\ t \in DOMAIN Tree
        BY <2>2, NodesAreChildren
      <4> QED
        BY <1>1, <4>1 DEF NodeKind, Containers
    <3> QED
      BY <2>2, <3>1, InFlight
  <2> QED
    BY <2>1, <2>2
<1>3. FireJoin(p) = Event("join", "join", IF Len(t) > 2 THEN ParentPath(t) ELSE <<>>, NothingSaid)
  BY <1>1, <1>2 DEF FireJoin
<1>4. FireJoin(p).command = "join"
      /\ FireJoin(p).path = IF Len(t) > 2 THEN ParentPath(t) ELSE <<>>
  BY <1>3 DEF Event
<1>5. QED
  BY <1>1, <1>4, WokenIs DEF CalledBy

LEMMA ContinueIs ==
  ASSUME NEW q
  PROVE  Woken({Continue(q)}) = {q} /\ Called({Continue(q)}) = {}
<1>1. Continue(q).command = "continue" /\ Continue(q).path = q
  BY DEF Continue, Event
<1>2. QED
  BY <1>1, WokenIs

-----------------------------------------------------------------------------
(* What scripts write. *)

\* Where instances T waits and S does not, T has something new.
LEMMA NewPlaces ==
  ASSUME NEW S, NEW T, S[InstanceFile] # Missing,
         T[InstanceFile].joined \/ ~S[InstanceFile].joined,
         NEW q \in Places(T), q \notin Places(S)
  PROVE  \/ q = <<T[InstanceFile].halted>> /\ T[InstanceFile].halted # S[InstanceFile].halted
         \/ NodeKind(q) = "gate" /\ T[NodeFile(q)] # S[NodeFile(q)]
            /\ T[NodeFile(q)] # Missing /\ T[NodeFile(q)].gate \in {"open", "changes_requested"}
         \/ q \in NestedFanouts /\ T[JoinFile(q)] # S[JoinFile(q)] /\ ~T[JoinFile(q)].joined
         \/ /\ NodeKind(q) = "fanout" /\ Len(q) = 1 /\ ~T[InstanceFile].joined
            /\ \E l \in ChildIds(q) : Present(T, Child(q, l)) /\ ~Present(S, Child(q, l))
<1>1. q \in DOMAIN Tree \ {<<>>} /\ Waits(T, q) /\ ~Waits(S, q)
  BY PlaceIs
<1>2. CASE q = <<T[InstanceFile].halted>>
  BY <1>1, <1>2 DEF Waits
<1>3. CASE NodeKind(q) = "gate" /\ Present(T, q) /\ T[NodeFile(q)].gate \in {"open", "changes_requested"}
  BY <1>1, <1>3 DEF Waits, Present
<1>4. CASE NodeKind(q) = "fanout" /\ IF Len(q) > 1 THEN T[JoinFile(q)] # Missing /\ ~T[JoinFile(q)].joined
             ELSE ~T[InstanceFile].joined /\ \E l \in ChildIds(q) : Present(T, Child(q, l))
  <2>1. CASE Len(q) > 1
    BY <1>1, <1>4, <2>1, LongFanouts DEF Waits
  <2>2. CASE Len(q) = 1
    BY <1>1, <1>4, <2>2 DEF Waits
  <2> QED
    BY <1>1, <1>4, <2>1, <2>2, LongFanouts
<1>5. QED
  BY <1>1, <1>2, <1>3, <1>4 DEF Waits

\* T is S with edits of thread t that keep its units' histories.
Edits(S, T, t) ==
  /\ \A f \in Files : T[f] # S[f] => f \in Strays \/ Above(t, f[2])
  /\ t = <<>> /\ RootEntered(S) => RootEntered(T)
  /\ \A p \in Units : Above(t, p) /\ HistoryOK(S, p) => HistoryOK(T, p)

\* Thread t may be at q.
Admits(T, t, q) ==
  /\ q \in DOMAIN Tree \ {<<>>} /\ Thread(q) = t
  /\ t = <<>> => T[InstanceFile] # Missing /\ q[1] = T[InstanceFile].phase
  /\ t # <<>> => Going(T, t)

LEMMA MovesOne ==
  ASSUME NEW S, NEW r, NEW t, IsThread(t), NEW q, Edits(S, r.store, t),
         \A x : x \in Hands(r) \/ x \in Within(r.store, t) => x = q /\ Admits(r.store, t, q),
         \A x : ~(x \in Hands(r) /\ x \in Within(r.store, t)),
         r.runs => \A p \in r.legs : Present(r.store, p) /\ r.store[NodeFile(p)].state = LifeState(p),
         ~r.runs => Called(r.emit) \subseteq CalledBy(t)
  PROVE  Moves(S, r, t)
<1> DEFINE T == r.store
<1>1. ASSUME NEW x \in Hands(r) \union Within(T, t)
      PROVE  /\ x \in DOMAIN Tree \ {<<>>} /\ Above(t, x)
             /\ t = <<>> => T[InstanceFile] # Missing /\ x[1] = T[InstanceFile].phase
             /\ \A y \in DOMAIN Tree : IsLeg(y) /\ Above(t, y) /\ Above(y, x) =>
                  Going(T, y) /\ (y # t => Expected(T, y))
  <2>1. x = q /\ Admits(T, t, x)
    OBVIOUS
  <2>2. x \in DOMAIN Tree \ {<<>>} /\ Above(t, x)
    BY <2>1, ThreadIs DEF Admits
  <2>3. ASSUME NEW y \in DOMAIN Tree, IsLeg(y), Above(t, y), Above(y, x)
        PROVE  y = t /\ Going(T, y)
    <3>1. Above(y, t)
      BY <2>1, <2>2, <2>3, ThreadsAbove DEF IsThread, Admits
    <3>2. y = t
      BY <2>3, <3>1, AboveOrder, ThreadsAre, TreeAssumption
    <3>3. t # <<>>
      BY <2>3, <3>2, LegsKind
    <3> QED
      BY <2>1, <3>2, <3>3 DEF Admits
  <2> QED
    BY <2>1, <2>2, <2>3 DEF Admits
<1>2. \A x, y \in Hands(r) \union Within(T, t) : x = y
  OBVIOUS
<1>3. QED
  BY <1>1, <1>2 DEF Moves, Edits

\* A result that goes on to q, that ends leg t, or that comes to rest.
LEMMA MovesOn ==
  ASSUME NEW S, NEW r, NEW t, IsThread(t), NEW q, Edits(S, r.store, t),
         ~r.runs, r.emit = {Continue(q)}, Admits(r.store, t, q), Within(r.store, t) = {}
  PROVE  Moves(S, r, t)
<1>1. Hands(r) = {q} /\ Called(r.emit) = {}
  BY ContinueIs DEF Hands
<1>2. QED
  BY <1>1, MovesOne

LEMMA MovesUp ==
  ASSUME NEW S, NEW r, NEW t, IsLeg(t), Edits(S, r.store, t),
         NEW p \in DOMAIN Tree \ {<<>>}, NodeKind(p) # "fanout", p = t \/ ParentPath(p) = t,
         ~r.runs, r.emit = {FireJoin(p)}, Within(r.store, t) = {}
  PROVE  Moves(S, r, t)
<1>1. Hands(r) = {} /\ Called(r.emit) \subseteq CalledBy(t)
  BY CallsOfLegs DEF Hands
<1>2. QED
  BY <1>1, MovesOne DEF IsThread

LEMMA MovesRest ==
  ASSUME NEW S, NEW r, NEW t, IsThread(t), NEW q, Edits(S, r.store, t),
         ~r.runs, r.emit = {}, Within(r.store, t) \subseteq {q},
         Within(r.store, t) # {} => Admits(r.store, t, q)
  PROVE  Moves(S, r, t)
<1>1. Hands(r) = {} /\ Called(r.emit) = {}
  BY NothingWoken DEF Hands
<1>2. QED
  BY <1>1, MovesOne

\* Clone S is of an instance that has a thread at a, which waits nowhere else.
StandsAt(S, a) ==
  /\ StoreOK(S) /\ S[InstanceFile] # Missing
  /\ a \in DOMAIN Tree \ {<<>>} /\ Inside(S, a)
  /\ Within(S, Thread(a)) \subseteq {a}

LEMMA StandsIs ==
  ASSUME NEW S, NEW a, StandsAt(S, a)
  PROVE  /\ IsThread(Thread(a))
         /\ Thread(a) = <<>> => /\ a = <<LastId(a)>> /\ a[1] = LastId(a) /\ LastId(a) \in ChildIds(<<>>)
                                /\ S[InstanceFile].phase = LastId(a)
                                /\ ParentPath(a) = <<>> /\ Len(a) = 1
         /\ Thread(a) # <<>> => /\ IsLeg(Thread(a)) /\ Going(S, Thread(a))
                                /\ Thread(a) = a \/ Thread(a) = ParentPath(a)
         /\ S[InstanceFile] \in Instances
         /\ DOMAIN S = Files
<1>1. a \in DOMAIN Tree /\ a # <<>>
  BY DEF StandsAt
<1>2. /\ IsThread(Thread(a)) /\ Above(Thread(a), a)
      /\ IsLeg(a) => Thread(a) = a
      /\ ~IsLeg(a) => Thread(a) = ParentPath(a)
      /\ Thread(a) = <<>> <=> Len(a) = 1
      /\ Thread(a) \in DOMAIN Tree
  BY <1>1, ThreadIs
<1>3. ASSUME Thread(a) = <<>>
      PROVE  /\ a = <<LastId(a)>> /\ a[1] = LastId(a) /\ LastId(a) \in ChildIds(<<>>)
             /\ S[InstanceFile].phase = LastId(a)
             /\ ParentPath(a) = <<>> /\ Len(a) = 1
  <2>1. ParentPath(a) = <<>> /\ Len(a) = 1
    <3>1. Len(a) = 1 /\ Len(ParentPath(a)) = 0 /\ ParentPath(a) \in Seq(STRING)
      BY <1>1, <1>2, <1>3, NodesAreChildren
    <3> QED
      BY <3>1, EmptySeq
  <2>2. a = <<LastId(a)>> /\ LastId(a) \in ChildIds(<<>>)
    BY <1>1, <2>1, ChildrenOfTheRoot DEF NodeKind, None
  <2>3. a[1] = LastId(a)
    BY <2>1 DEF LastId
  <2> QED
    BY <2>1, <2>2, <2>3 DEF StandsAt, Inside
<1>4. Thread(a) # <<>> => IsLeg(Thread(a)) /\ Going(S, Thread(a))
  BY <1>2 DEF IsThread, StandsAt, Inside
<1>5. S[InstanceFile] \in Instances /\ DOMAIN S = Files
  BY InstanceValue DEF StandsAt, StoreOK
<1>6. QED
  BY <1>2, <1>3, <1>4, <1>5

LEMMA WriteIs ==
  ASSUME NEW S, DOMAIN S = Files, NEW g, NEW v
  PROVE  /\ DOMAIN Write(S, g, v) = Files
         /\ \A f \in Files : Write(S, g, v)[f] = IF f = g THEN v ELSE S[f]
BY DEF Write

LEMMA ResultIs ==
  ASSUME NEW T, NEW E
  PROVE  /\ \A r : r = Pushes(T, E) \/ r = Tells(Pushes(T, E)) =>
              r.store = T /\ ~r.runs /\ r.emit = E /\ r.push
         /\ \A c : LET r == Concludes(T, c, E) IN r.store = T /\ ~r.runs /\ r.emit = E /\ r.push
         /\ ~Quiet(T).push /\ ~Quiet(T).runs /\ Quiet(T).emit = {} /\ ~Quiet(T).tells
BY DEF Pushes, Tells, Concludes, Result, Quiet

LEMMA HistorySame ==
  ASSUME NEW S, NEW T, NEW p, T[NodeFile(p)] = S[NodeFile(p)], HistoryOK(S, p)
  PROVE  HistoryOK(T, p)
BY DEF HistoryOK, Present

LEMMA UnderLeg ==
  ASSUME NEW t, IsLeg(t), NEW q \in DOMAIN Tree, Above(t, q)
  PROVE  Len(q) > 1 /\ Len(q) # 1
<1>1. \A m, n \in Nat : m > 1 /\ m <= n => n > 1 /\ n # 1
  OBVIOUS
<1>2. Len(t) \in Nat /\ Len(q) \in Nat
  BY LegsParent, TreeAssumption
<1>3. Len(t) > 1 /\ Len(t) <= Len(q)
  BY LegsParent DEF Above
<1>4. QED
  BY <1>1, <1>2, <1>3, Zenon

\* Edits of the files W of a leg.
LEMMA LegWrites ==
  ASSUME NEW S, NEW T, NEW a, StandsAt(S, a), NEW t, t = Thread(a), t # <<>>,
         NEW W, \A f \in Files : f \notin W => T[f] = S[f],
         \A f \in W : f \in Strays \/ Above(t, f[2]),
         \A p \in Units : NodeFile(p) \in W /\ HistoryOK(S, p) => HistoryOK(T, p)
  PROVE  /\ Edits(S, T, t)
         /\ GatesApart => \A q \in Within(T, t) : \/ q \in Within(S, t)
                               \/ /\ NodeKind(q) = "gate" /\ NodeFile(q) \in W
                                  /\ T[NodeFile(q)].gate \in {"open", "changes_requested"}
                               \/ /\ q \in NestedFanouts /\ JoinFile(q) \in W
                                  /\ ~T[JoinFile(q)].joined
<1>1. IsLeg(t) /\ IsThread(t) /\ ~Above(t, InstanceFile[2])
  BY StandsIs, ThreadsAre
<1>2. Edits(S, T, t)
  <2>1. \A p \in Units : HistoryOK(S, p) => HistoryOK(T, p)
    BY UnitsAreAgents, HistorySame
  <2> QED
    BY <2>1 DEF Edits
<1>3. ASSUME GatesApart
      PROVE  T[InstanceFile] = S[InstanceFile]
  BY <1>1, <1>3, NotStray
<1>4. ASSUME GatesApart, NEW q \in Within(T, t), q \notin Within(S, t)
      PROVE  \/ /\ NodeKind(q) = "gate" /\ NodeFile(q) \in W
                /\ T[NodeFile(q)].gate \in {"open", "changes_requested"}
             \/ /\ q \in NestedFanouts /\ JoinFile(q) \in W
                /\ ~T[JoinFile(q)].joined
  <2>1. q \in Places(T) /\ q \notin Places(S) /\ Above(t, q) /\ q \in DOMAIN Tree \ {<<>>}
    BY <1>4, PlaceIs DEF Within
  <2>2. Len(q) # 1
    BY <1>1, <2>1, UnderLeg
  <2>3. /\ NodeKind(q) = "gate" => NodeFile(q) \in Files
        /\ q \in NestedFanouts => JoinFile(q) \in Files
    BY <2>1, FilesAre
  <2>4. S[InstanceFile] # Missing
    BY DEF StandsAt
  <2> QED
    BY <1>3, <1>4, <2>1, <2>2, <2>3, <2>4, NewPlaces
<1>5. QED
  BY <1>2, <1>4

\* The attempts of a unit in flight.
LEMMA AttemptIs ==
  ASSUME NEW S, StoreOK(S), NEW p \in Units, NEW tag \in RunTags, Present(S, p)
  PROVE  LET u == S[NodeFile(p)]
             v == Attempted(S, p, tag) IN
         /\ u.iteration \in 1 .. Tree[p].max /\ u.history \in Nat
         /\ UnitAt(S, p) = u
         /\ v.state = u.state /\ v.iteration = u.iteration /\ v.history = u.history + 1
         /\ \A s : LET w == [v EXCEPT !.state = s] IN
              w.state = s /\ w.iteration = u.iteration /\ w.history = u.history + 1
         /\ LET w == [v EXCEPT !.iteration = @ + 1] IN
              w.state = u.state /\ w.iteration = u.iteration + 1 /\ w.history = u.history + 1
<1> DEFINE u == S[NodeFile(p)]
           v == Attempted(S, p, tag)
<1>1. u \in UnitValues(p) /\ UnitAt(S, p) = u
  BY UnitAtOK DEF UnitAt, Present
<1>2. v = [u EXCEPT !.history = @ + 1, !.last = tag]
  BY <1>1 DEF Attempted
<1> HIDE DEF u, v
<1>3. /\ DOMAIN u = {"state", "iteration", "history", "last"}
      /\ u.iteration \in 1 .. Tree[p].max /\ u.history \in Nat
  BY <1>1 DEF UnitValues
<1>4. /\ DOMAIN v = {"state", "iteration", "history", "last"}
      /\ v.state = u.state /\ v.iteration = u.iteration /\ v.history = u.history + 1
  BY <1>2, <1>3
<1>5. QED
  BY <1>1, <1>3, <1>4 DEF u, v

LEMMA AttemptHistory ==
  ASSUME NEW S, StoreOK(S), NEW p \in Units, NEW tag \in RunTags, Present(S, p),
         S[NodeFile(p)].state = LifeState(p), HistoryOK(S, p), NEW T
  PROVE  /\ T[NodeFile(p)] = [Attempted(S, p, tag) EXCEPT !.state = "done"] => HistoryOK(T, p)
         /\ T[NodeFile(p)] = [Attempted(S, p, tag) EXCEPT !.iteration = @ + 1] => HistoryOK(T, p)
         /\ (IsRootChild(p) \/ ~(UnitAt(S, p).iteration < Tree[p].max))
            /\ T[NodeFile(p)] = [Attempted(S, p, tag) EXCEPT !.state = "failed"] => HistoryOK(T, p)
<1> DEFINE u == S[NodeFile(p)]
<1>1. /\ u.iteration \in 1 .. Tree[p].max /\ u.history \in Nat
      /\ UnitAt(S, p) = u /\ Tree[p].max \in Nat
      /\ u.history = u.iteration - 1
      /\ LifeState(p) \notin Terminal
  BY AttemptIs, UnitsAreAgents, InFlight DEF HistoryOK
<1>2. ASSUME T[NodeFile(p)] = [Attempted(S, p, tag) EXCEPT !.state = "done"]
      PROVE  HistoryOK(T, p)
  BY <1>1, <1>2, AttemptIs DEF HistoryOK, Terminal
<1>3. ASSUME T[NodeFile(p)] = [Attempted(S, p, tag) EXCEPT !.iteration = @ + 1]
      PROVE  HistoryOK(T, p)
  BY <1>1, <1>3, AttemptIs DEF HistoryOK, Terminal
<1>4. ASSUME IsRootChild(p) \/ ~(UnitAt(S, p).iteration < Tree[p].max),
             T[NodeFile(p)] = [Attempted(S, p, tag) EXCEPT !.state = "failed"]
      PROVE  HistoryOK(T, p)
  BY <1>1, <1>4, AttemptIs DEF HistoryOK, Terminal
<1>5. QED
  BY <1>2, <1>3, <1>4

\* A unit of a leg is the leg, or in the sub-pipeline that is the leg.
LEMMA UnitOfLeg ==
  ASSUME NEW p \in DOMAIN Tree \ {<<>>}, NodeKind(p) # "fanout", Thread(p) # <<>>
  PROVE  LET t == Thread(p) IN
         /\ IsLeg(t) /\ t \in DOMAIN Tree \ {<<>>} /\ Above(t, p) /\ Above(t, t) /\ HasFile(t)
         /\ NodeKind(ParentPath(p)) = "fanout" => t = p
         /\ NodeKind(ParentPath(p)) # "fanout" =>
              /\ t = ParentPath(p) /\ t # p /\ NodeKind(t) = "sequence"
              /\ LifeState(p) = EnclosingFanoutId(t)
         /\ p = t \/ ParentPath(p) = t
<1>1. /\ Thread(p) \in DOMAIN Tree /\ IsThread(Thread(p)) /\ Above(Thread(p), p)
      /\ IsLeg(p) => Thread(p) = p
      /\ ~IsLeg(p) => Thread(p) = ParentPath(p)
  BY ThreadIs
<1>2. IsLeg(p) <=> NodeKind(ParentPath(p)) = "fanout"
  BY DEF IsLeg
<1>3. /\ IsLeg(Thread(p)) /\ Thread(p) \in DOMAIN Tree \ {<<>>} /\ Above(Thread(p), Thread(p))
      /\ HasFile(Thread(p)) /\ NodeKind(Thread(p)) \in {"agent", "sequence"}
  BY <1>1, ThreadsAre, LegsKind
<1>4. ASSUME NodeKind(ParentPath(p)) # "fanout"
      PROVE  /\ Thread(p) = ParentPath(p) /\ Thread(p) # p /\ NodeKind(Thread(p)) = "sequence"
             /\ LifeState(p) = EnclosingFanoutId(Thread(p))
  <2>1. Thread(p) = ParentPath(p)
    BY <1>1, <1>2, <1>4
  <2>2. Tree[ParentPath(p)].kind \in Containers /\ ParentPath(p) # p
    BY NodesAreChildren, AboveParent, ThreadsAre DEF IsThread
  <2>3. NodeKind(Thread(p)) = "sequence"
    BY <1>3, <2>1, <2>2 DEF NodeKind, Containers
  <2> QED
    BY <2>1, <2>2, <2>3, InFlight
<1>5. QED
  BY <1>1, <1>2, <1>3, <1>4

LEMMA SiblingIs ==
  ASSUME NEW t \in DOMAIN Tree \ {<<>>}, NodeKind(t) = "sequence", NEW id \in ChildIds(t)
  PROVE  LET q == Child(t, id) IN
         /\ q \in DOMAIN Tree \ {<<>>} /\ ParentPath(q) = t /\ Thread(q) = t /\ IsLeg(t)
<1>1. Child(t, id) \in DOMAIN Tree \ {<<>>} /\ ParentPath(Child(t, id)) = t
  BY ChildrenAreNodes
<1>2. IsLeg(t)
  BY LegAssumption DEF IsLeg
<1>3. QED
  BY <1>1, <1>2 DEF Thread

-----------------------------------------------------------------------------
(* The end of an attempt at a unit of a leg. *)

\* Edits of a unit and of the cursor around it leave the leg nowhere to wait.
LEMMA UnitWrites ==
  ASSUME GatesApart, NEW p \in Units, NEW S, StandsAt(S, p), Thread(p) # <<>>,
         Within(S, Thread(p)) = {},
         NEW T, \A f \in Files : f # NodeFile(p) /\ f # NodeFile(Thread(p)) => T[f] = S[f],
         HistoryOK(S, p) => HistoryOK(T, p)
  PROVE  Edits(S, T, Thread(p)) /\ Within(T, Thread(p)) = {}
<1> DEFINE t == Thread(p)
           W == {NodeFile(p), NodeFile(t)}
<1>1. /\ p \in DOMAIN Tree \ {<<>>} /\ NodeKind(p) = "agent"
      /\ NodeKind(t) \in {"agent", "sequence"}
      /\ Above(t, p) /\ Above(t, t)
      /\ p = t \/ NodeKind(t) = "sequence"
  BY UnitsAreAgents, UnitOfLeg, LegsKind
<1>2. \A q : NodeFile(q) \in W => q = p \/ q = t
  BY FilePaths
<1>3. \A q : JoinFile(q) \notin W
  BY FilePaths
<1>4. ASSUME NEW f \in W PROVE Above(t, f[2])
  <2>1. f[2] = p \/ f[2] = t
    BY FilePaths
  <2> QED
    BY <1>1, <2>1
<1>5. \A q \in Units : NodeFile(q) \in W /\ HistoryOK(S, q) => HistoryOK(T, q)
  BY <1>1, <1>2, UnitsAreAgents
<1>6. \A f \in Files : f \notin W => T[f] = S[f]
  OBVIOUS
<1> HIDE DEF W, t
<1>7. /\ Edits(S, T, t)
      /\ \A q \in Within(T, t) : \/ q \in Within(S, t)
                                 \/ NodeKind(q) = "gate" /\ NodeFile(q) \in W
                                 \/ JoinFile(q) \in W
  BY <1>4, <1>5, <1>6, LegWrites DEF t
<1>8. Within(T, t) = {}
  BY <1>1, <1>2, <1>3, <1>7 DEF t
<1>9. QED
  BY <1>7, <1>8 DEF t

\* The file of a unit after an attempt is there.
LEMMA AttemptFields ==
  ASSUME NEW S, StoreOK(S), NEW p \in Units, NEW tag \in RunTags
  PROVE  LET v == Attempted(S, p, tag) IN
         /\ v # Missing
         /\ \A s : [v EXCEPT !.state = s] # Missing
         /\ [v EXCEPT !.iteration = @ + 1] # Missing
<1> DEFINE v == Attempted(S, p, tag)
<1>1. v \in UnitValues(p)
  BY AttemptedOK
<1> HIDE DEF v
<1>2. DOMAIN v = {"state", "iteration", "history", "last"}
  BY <1>1 DEF UnitValues
<1>3. DOMAIN Missing = {"missing"}
  BY DEF Missing
<1>4. /\ v # Missing
      /\ \A s : [v EXCEPT !.state = s] # Missing
      /\ [v EXCEPT !.iteration = @ + 1] # Missing
  BY <1>2, <1>3
<1>5. QED
  BY <1>4 DEF v

\* The attempt at a unit, and where its leg goes from there.
LEMMA AdvanceLegs ==
  ASSUME GatesApart, NEW p \in Units, NEW S, StandsAt(S, p), Thread(p) # <<>>,
         Within(S, Thread(p)) = {}, Present(S, p), S[NodeFile(p)].state = LifeState(p),
         NEW tag \in RunTags, NEW r \in AdvanceOutcomes(S, p, tag)
  PROVE  Moves(S, r, Thread(p))
<1> DEFINE t == Thread(p)
           v == Attempted(S, p, tag)
<1>1. /\ p \in DOMAIN Tree \ {<<>>} /\ NodeKind(p) = "agent" /\ NodeFile(p) \in Files
      /\ IsLeg(t) /\ t \in DOMAIN Tree \ {<<>>} /\ NodeFile(t) \in Files /\ IsThread(t)
      /\ Above(t, p) /\ (p = t \/ ParentPath(p) = t)
      /\ NodeKind(ParentPath(p)) = "fanout" => t = p
      /\ NodeKind(ParentPath(p)) # "fanout" =>
              /\ t = ParentPath(p) /\ t # p /\ NodeKind(t) = "sequence"
              /\ LifeState(p) = EnclosingFanoutId(t)
      /\ DOMAIN S = Files /\ StoreOK(S) /\ Present(S, t) /\ S[NodeFile(t)].state \notin Terminal
      /\ LifeState(p) \notin Terminal
  <2>1. NodeFile(t) \in Files
    BY UnitsAreAgents, UnitOfLeg, FilesAre DEF HasFile
  <2> QED
    BY <2>1, UnitsAreAgents, UnitOfLeg, StandsIs, InFlight DEF StandsAt, Going
<1>2. \A T, x : T[NodeFile(p)] = [v EXCEPT !.state = "done"] => (HistoryOK(S, p) => HistoryOK(T, p))
  BY <1>1, AttemptHistory
<1>3. \A T : T[NodeFile(p)] = [v EXCEPT !.iteration = @ + 1] => (HistoryOK(S, p) => HistoryOK(T, p))
  BY <1>1, AttemptHistory
<1>4. ASSUME ~(UnitAt(S, p).iteration < Tree[p].max)
      PROVE  \A T : T[NodeFile(p)] = [v EXCEPT !.state = "failed"] => (HistoryOK(S, p) => HistoryOK(T, p))
  BY <1>1, <1>4, AttemptHistory
<1>5. /\ v.state = LifeState(p)
      /\ [v EXCEPT !.iteration = @ + 1].state = LifeState(p)
      /\ [v EXCEPT !.iteration = @ + 1] # Missing
  BY <1>1, AttemptIs, AttemptFields
<1> HIDE DEF v
<1>6. ASSUME r = Iterate(S, p, tag)
      PROVE  Moves(S, r, t)
  <2> DEFINE T == Write(S, NodeFile(p), [v EXCEPT !.iteration = @ + 1])
  <2>1. r = Tells(Pushes(T, {Continue(p)}))
    BY <1>6 DEF Iterate, v
  <2>2. \A f \in Files : T[f] = IF f = NodeFile(p) THEN [v EXCEPT !.iteration = @ + 1] ELSE S[f]
    BY <1>1, WriteIs
  <2> HIDE DEF T
  <2>6. r.store = T /\ ~r.runs /\ r.emit = {Continue(p)}
    BY <2>1, ResultIs
  <2>3. Edits(S, T, t) /\ Within(T, t) = {}
    <3>1. HistoryOK(S, p) => HistoryOK(T, p)
      BY <1>1, <1>3, <2>2
    <3> QED
      BY <2>2, <3>1, UnitWrites
  <2>4. Going(T, t)
    BY <1>1, <1>5, <2>2 DEF Going, Present
  <2>5. Admits(T, t, p)
    BY <1>1, <2>4 DEF Admits
  <2> QED
    BY <1>1, <2>6, <2>3, <2>5, MovesOn
<1>7. ASSUME NEW U, NEW s \in {"done", "failed"}, U[NodeFile(p)] = [v EXCEPT !.state = s],
             s = "failed" => ~(UnitAt(S, p).iteration < Tree[p].max),
             \A f \in Files : f # NodeFile(p) /\ f # NodeFile(t) => U[f] = S[f],
             r.store = U, ~r.runs
      PROVE  /\ Edits(S, U, t) /\ Within(U, t) = {}
             /\ r.emit = {FireJoin(p)} => Moves(S, r, t)
  <2>1. HistoryOK(S, p) => HistoryOK(U, p)
    BY <1>2, <1>4, <1>7
  <2>2. Edits(S, U, t) /\ Within(U, t) = {}
    BY <1>7, <2>1, UnitWrites
  <2> QED
    BY <1>1, <1>7, <2>2, MovesUp
<1>8. \A s : /\ DOMAIN WithState(S, p, tag, s) = Files
             /\ \A f \in Files : WithState(S, p, tag, s)[f] =
                  IF f = NodeFile(p) THEN [v EXCEPT !.state = s] ELSE S[f]
  BY <1>1, WriteIs DEF WithState, v
<1>9. ASSUME NEW blocked \in BOOLEAN, NEW asked \in Asks(p),
             r = Done(S, p, tag, blocked, asked)
      PROVE  Moves(S, r, t)
  <2> DEFINE T == WithState(S, p, tag, "done")
  <2>1. CASE NodeKind(ParentPath(p)) = "fanout"
    <3>1. r = Tells(Pushes(T, {FireJoin(p)}))
      BY <1>9, <2>1 DEF Done
    <3> HIDE DEF T
    <3>2. r.store = T /\ ~r.runs /\ r.emit = {FireJoin(p)}
      BY <3>1, ResultIs
    <3> QED
      BY <1>1, <1>7, <1>8, <3>2 DEF T
  <2>2. CASE NodeKind(ParentPath(p)) # "fanout"
    <3> DEFINE next == NextSibling(p)
               q == Child(t, next)
               moved == Write(T, NodeFile(t), Cursor(LifeState(p), next))
    <3>1. /\ t = ParentPath(p) /\ t # p /\ NodeKind(t) = "sequence" /\ NodeFile(t) # NodeFile(p)
      BY <1>1, <2>2, FilePaths
    <3>2. r = AdvanceCursor(T, p, asked)
      BY <1>9, <2>2, <3>1 DEF Done
    <3>3. \A x : /\ DOMAIN Write(T, NodeFile(t), x) = Files
                 /\ \A f \in Files : Write(T, NodeFile(t), x)[f] =
                      IF f = NodeFile(t) THEN x ELSE T[f]
      BY <1>8, WriteIs
    <3>4. Cursor(LifeState(p), next) # Missing /\ Cursor(LifeState(p), next).state = LifeState(p)
      <4>1. DOMAIN Cursor(LifeState(p), next) = {"state", "sub_state"} /\ DOMAIN Missing = {"missing"}
        BY DEF Cursor, Missing
      <4> QED
        BY <4>1 DEF Cursor
    <3>5. next # None => next \in ChildIds(t)
      BY <1>1, <3>1, NextIsSibling
    <3>6. next # None =>
            q \in DOMAIN Tree \ {<<>>} /\ ParentPath(q) = t /\ Thread(q) = t
      BY <1>1, <3>1, <3>5, SiblingIs
    <3> HIDE DEF T
    <3>7. CASE next # None /\ q \notin LegGates
      <4>1. r = Pushes(moved, {Continue(q)})
        BY <3>1, <3>2, <3>7 DEF AdvanceCursor
      <4>2. r.store = moved /\ ~r.runs /\ r.emit = {Continue(q)}
        BY <4>1, ResultIs
      <4>3. Edits(S, moved, t) /\ Within(moved, t) = {}
        <5>1. moved[NodeFile(p)] = [v EXCEPT !.state = "done"]
          BY <1>1, <1>8, <3>1, <3>3 DEF T
        <5>2. \A f \in Files : f # NodeFile(p) /\ f # NodeFile(t) => moved[f] = S[f]
          BY <1>8, <3>3 DEF T
        <5> HIDE DEF moved
        <5> QED
          BY <1>7, <4>2, <5>1, <5>2
      <4>4. Going(moved, t)
        BY <1>1, <3>3, <3>4 DEF Going, Present
      <4> HIDE DEF moved, q
      <4>5. Admits(moved, t, q)
        BY <1>1, <3>6, <3>7, <4>4 DEF Admits
      <4> QED
        BY <1>1, <4>2, <4>3, <4>5, MovesOn
    <3>8. CASE next = None
      <4> DEFINE U == Write(T, NodeFile(t), [CursorAt(T, t) EXCEPT !.state = "done"])
      <4>1. r = Tells(Pushes(U, {FireJoin(p)}))
        BY <3>1, <3>2, <3>8 DEF AdvanceCursor
      <4>2. r.store = U /\ ~r.runs /\ r.emit = {FireJoin(p)}
        BY <4>1, ResultIs
      <4>3. U[NodeFile(p)] = [v EXCEPT !.state = "done"]
        BY <1>1, <1>8, <3>1, <3>3 DEF T
      <4>4. \A f \in Files : f # NodeFile(p) /\ f # NodeFile(t) => U[f] = S[f]
        BY <1>8, <3>3 DEF T
      <4> HIDE DEF U
      <4> QED
        BY <1>7, <4>2, <4>3, <4>4
    <3>9. CASE next # None /\ q \in LegGates
      <4> DEFINE U == Write(moved, NodeFile(q), OpenGate(q, asked))
                 W == {NodeFile(p), NodeFile(t), NodeFile(q)}
      <4>1. r = Tells(Pushes(U, {}))
        BY <3>1, <3>2, <3>9 DEF AdvanceCursor
      <4>2. r.store = U /\ ~r.runs /\ r.emit = {}
        BY <4>1, ResultIs
      <4>3. NodeKind(q) = "gate" /\ q # p /\ q # t /\ NodeFile(q) # NodeFile(p) /\ NodeFile(q) # NodeFile(t)
        BY <1>1, <3>1, <3>9, FilePaths DEF LegGates
      <4>4. \A f \in Files : U[f] = IF f = NodeFile(q) THEN OpenGate(q, asked) ELSE moved[f]
        BY <3>3, WriteIs
      <4>5. U[NodeFile(p)] = [v EXCEPT !.state = "done"]
        BY <1>1, <1>8, <3>1, <3>3, <4>3, <4>4 DEF T
      <4>6. \A f \in Files : f \notin W => U[f] = S[f]
        BY <1>8, <3>3, <4>4 DEF T
      <4>7. Going(U, t)
        BY <1>1, <3>3, <3>4, <4>3, <4>4 DEF Going, Present
      <4>8. /\ \A f \in W : Above(t, f[2])
            /\ \A x : NodeFile(x) \in W => x = p \/ x = t \/ x = q
            /\ \A x : JoinFile(x) \notin W
        <5>1. Above(t, p) /\ Above(t, t) /\ Above(t, q)
          BY <1>1, <3>6, <3>9, ThreadIs, ThreadsAre
        <5>2. \A f \in W : f[2] = p \/ f[2] = t \/ f[2] = q
          BY FilePaths
        <5> QED
          BY <5>1, <5>2, FilePaths
      <4> HIDE DEF U, W, q, moved
      <4>9. \A x \in Units : NodeFile(x) \in W /\ HistoryOK(S, x) => HistoryOK(U, x)
        BY <1>1, <1>2, <3>1, <4>3, <4>5, <4>8, UnitsAreAgents
      <4>10. /\ Edits(S, U, t)
             /\ \A x \in Within(U, t) : \/ x \in Within(S, t)
                                        \/ NodeKind(x) = "gate" /\ NodeFile(x) \in W
                                        \/ JoinFile(x) \in W
        BY <1>1, <4>6, <4>8, <4>9, LegWrites
      <4>11. Within(U, t) \subseteq {q}
        BY <1>1, <3>1, <4>8, <4>10
      <4>12. Admits(U, t, q)
        BY <1>1, <3>6, <3>9, <4>7 DEF Admits
      <4> QED
        BY <1>1, <4>2, <4>10, <4>11, <4>12, MovesRest
    <3> QED
      BY <3>7, <3>8, <3>9
  <2> QED
    BY <2>1, <2>2
<1>10. ASSUME ~(UnitAt(S, p).iteration < Tree[p].max), r = Failed(S, p, tag)
       PROVE  Moves(S, r, t)
  <2> DEFINE T == WithState(S, p, tag, "failed")
  <2>1. CASE NodeKind(ParentPath(p)) = "fanout"
    <3>1. r = Tells(Pushes(T, {FireJoin(p)}))
      BY <1>10, <2>1 DEF Failed
    <3> HIDE DEF T
    <3>2. r.store = T /\ ~r.runs /\ r.emit = {FireJoin(p)}
      BY <3>1, ResultIs
    <3> QED
      BY <1>1, <1>7, <1>8, <1>10, <3>2 DEF T
  <2>2. CASE NodeKind(ParentPath(p)) # "fanout"
    <3> DEFINE U == Write(T, NodeFile(t), [CursorAt(T, t) EXCEPT !.state = "failed"])
    <3>1. /\ t = ParentPath(p) /\ t # p /\ NodeKind(t) = "sequence" /\ NodeFile(t) # NodeFile(p)
      BY <1>1, <2>2, FilePaths
    <3>2. r = Tells(Pushes(U, {FireJoin(p)}))
      BY <1>10, <2>2, <3>1 DEF Failed
    <3>3. \A x : \A f \in Files : Write(T, NodeFile(t), x)[f] = IF f = NodeFile(t) THEN x ELSE T[f]
      BY <1>8, WriteIs
    <3>4. U[NodeFile(p)] = [v EXCEPT !.state = "failed"]
      BY <1>1, <1>8, <3>1, <3>3
    <3>5. \A f \in Files : f # NodeFile(p) /\ f # NodeFile(t) => U[f] = S[f]
      BY <1>8, <3>3
    <3> HIDE DEF U
    <3>6. r.store = U /\ ~r.runs /\ r.emit = {FireJoin(p)}
      BY <3>2, ResultIs
    <3> QED
      BY <1>7, <1>10, <3>4, <3>5, <3>6
  <2> QED
    BY <2>1, <2>2
<1>11. QED
  BY <1>6, <1>9, <1>10, AttemptEnds

-----------------------------------------------------------------------------
(* The end of an attempt at a root agent. *)

LEMMA RootChildIs ==
  ASSUME NEW id \in ChildIds(<<>>)
  PROVE  /\ <<id>> \in DOMAIN Tree \ {<<>>} /\ Thread(<<id>>) = <<>> /\ <<id>>[1] = id
         /\ ParentPath(<<id>>) = <<>> /\ LastId(<<id>>) = id
<1>1. <<id>> \in DOMAIN Tree \ {<<>>} /\ ParentPath(<<id>>) = <<>> /\ LastId(<<id>>) = id
  BY RootIdsAreNodes
<1>2. Len(<<id>>) = 1
  OBVIOUS
<1>3. QED
  BY <1>1, <1>2, ThreadIs

LEMMA InstanceFields ==
  /\ \A i \in Instances : DOMAIN i = {"phase", "joined", "label", "halted", "overrides", "comment"}
  /\ DOMAIN Missing = {"missing"}
<1>1. \A i \in Instances : DOMAIN i = {"phase", "joined", "label", "halted", "overrides", "comment"}
  BY DEF Instances
<1>2. DOMAIN Missing = {"missing"}
  BY DEF Missing
<1>3. QED
  BY <1>1, <1>2

\* Edits of the instance and of the node the root stands at.
LEMMA RootWrites ==
  ASSUME NEW S, NEW a, StandsAt(S, a), Thread(a) = <<>>,
         NEW T, \A f \in Files : f # InstanceFile /\ f # NodeFile(a) => T[f] = S[f],
         T[InstanceFile] # Missing, T[InstanceFile].joined \/ ~S[InstanceFile].joined,
         NodeKind(a) # "fanout" \/ T[InstanceFile].joined,
         a \in Units /\ HistoryOK(S, a) => HistoryOK(T, a)
  PROVE  /\ Edits(S, T, <<>>)
         /\ \A q \in Within(T, <<>>) : /\ q \in Places(T)
                                       /\ \/ q = a /\ a \in Within(S, <<>>)
                                          \/ /\ q = <<T[InstanceFile].halted>>
                                             /\ T[InstanceFile].halted # S[InstanceFile].halted
                                          \/ q = a /\ NodeKind(a) = "gate"
<1>1. /\ a \in DOMAIN Tree \ {<<>>} /\ a \in Seq(STRING) /\ S[InstanceFile] # Missing
      /\ ParentPath(a) = <<>>
      /\ Within(S, <<>>) \subseteq {a}
  BY StandsIs, ThreadsAre, TreeAssumption DEF StandsAt
<1>2. \A q : Above(<<>>, q)
  BY DEF Above, Prefix
<1>3. \A q : q \in Within(S, <<>>) <=> q \in Places(S)
  BY <1>2 DEF Within
<1>4. \A q : q \in Within(T, <<>>) <=> q \in Places(T)
  BY <1>2 DEF Within
<1>5. RootEntered(S) => RootEntered(T)
  BY <1>1, <1>3 DEF RootEntered
<1>6. \A p \in Units : HistoryOK(S, p) => HistoryOK(T, p)
  BY UnitsAreAgents, HistorySame, FilePaths, NotTheInstance
<1>7. \A f \in Files : Above(<<>>, f[2])
  BY <1>2
<1>8. Edits(S, T, <<>>)
  BY <1>5, <1>6, <1>7 DEF Edits
<1>9. ASSUME NEW q \in Places(T), q \notin Places(S)
      PROVE  \/ /\ q = <<T[InstanceFile].halted>>
                /\ T[InstanceFile].halted # S[InstanceFile].halted
             \/ q = a /\ NodeKind(a) = "gate"
  <2>1. q \in DOMAIN Tree \ {<<>>}
    BY <1>9, PlaceIs
  <2>2. NodeKind(q) = "gate" /\ T[NodeFile(q)] # S[NodeFile(q)] => q = a
    BY <2>1, FilesAre, FilePaths, NotTheInstance
  <2>3. q \in NestedFanouts => T[JoinFile(q)] = S[JoinFile(q)]
    BY FilesAre, FilePaths
  <2>4. NodeKind(q) = "fanout" => \A l \in ChildIds(q) : Present(T, Child(q, l)) => Present(S, Child(q, l))
    <3> SUFFICES ASSUME NodeKind(q) = "fanout", NEW l \in ChildIds(q)
                 PROVE  T[NodeFile(Child(q, l))] = S[NodeFile(Child(q, l))]
      BY DEF Present
    <3>1. NodeFile(Child(q, l)) \in Files /\ ParentPath(Child(q, l)) = q
      BY <2>1, LegsAre, ChildrenAreNodes
    <3>2. Child(q, l) # a
      BY <1>1, <2>1, <3>1
    <3> QED
      BY <3>1, <3>2, FilePaths, NotTheInstance
  <2> QED
    BY <1>1, <1>9, <2>2, <2>3, <2>4, NewPlaces
<1>10. QED
  BY <1>1, <1>3, <1>4, <1>8, <1>9

\* The attempt at a root agent, and where the root goes from there.
LEMMA AdvanceRoots ==
  ASSUME NEW p \in Units, NEW S, StandsAt(S, p), Thread(p) = <<>>,
         Within(S, <<>>) = {}, Present(S, p), S[NodeFile(p)].state = LifeState(p),
         NEW tag \in RunTags, NEW r \in AdvanceOutcomes(S, p, tag)
  PROVE  Moves(S, r, <<>>)
<1> DEFINE v == Attempted(S, p, tag)
           inst == S[InstanceFile]
<1>1. /\ p \in DOMAIN Tree \ {<<>>} /\ NodeKind(p) = "agent" /\ NodeFile(p) \in Files
      /\ InstanceFile \in Files /\ NodeFile(p) # InstanceFile
      /\ DOMAIN S = Files /\ StoreOK(S) /\ inst \in Instances /\ inst # Missing
      /\ p = <<LastId(p)>> /\ p[1] = inst.phase /\ ParentPath(p) = <<>>
      /\ IsRootChild(p)
      /\ NodeKind(<<>>) \notin {"fanout", "sequence"}
  BY UnitsAreAgents, StandsIs, FilesAre, NotTheInstance DEF StandsAt, IsRootChild, NodeKind, None
<1>2. IsThread(<<>>)
  BY DEF IsThread
<1>3. \A T : \/ T[NodeFile(p)] = [v EXCEPT !.state = "done"]
             \/ T[NodeFile(p)] = [v EXCEPT !.state = "failed"]
             \/ T[NodeFile(p)] = [v EXCEPT !.iteration = @ + 1]
        => (HistoryOK(S, p) => HistoryOK(T, p))
  BY <1>1, AttemptHistory
<1>4. /\ DOMAIN v = {"state", "iteration", "history", "last"}
      /\ [[v EXCEPT !.state = "done"] EXCEPT !.state = "failed"] = [v EXCEPT !.state = "failed"]
  <2>1. v \in UnitValues(p)
    BY <1>1, AttemptedOK
  <2>2. DOMAIN v = {"state", "iteration", "history", "last"}
    BY <2>1 DEF UnitValues
  <2> QED
    BY <2>2
<1> HIDE DEF v
<1>5. \A s : /\ DOMAIN WithState(S, p, tag, s) = Files
             /\ \A f \in Files : WithState(S, p, tag, s)[f] =
                  IF f = NodeFile(p) THEN [v EXCEPT !.state = s] ELSE S[f]
  BY <1>1, WriteIs DEF WithState, v
\* Where the agent is recorded and the instance becomes i.
<1>6. ASSUME NEW U, NEW i, i = U[InstanceFile], i # Missing, i.joined = inst.joined,
             \/ U[NodeFile(p)] = [v EXCEPT !.state = "done"]
             \/ U[NodeFile(p)] = [v EXCEPT !.state = "failed"]
             \/ U[NodeFile(p)] = [v EXCEPT !.iteration = @ + 1],
             \A f \in Files : f # NodeFile(p) /\ f # InstanceFile => U[f] = S[f],
             r.store = U, ~r.runs
      PROVE  /\ i.halted = inst.halted => Within(U, <<>>) = {}
             /\ i.halted = inst.halted /\ r.emit = {} => Moves(S, r, <<>>)
             /\ \A q \in DOMAIN Tree \ {<<>>} :
                  i.halted = inst.halted /\ r.emit = {Continue(q)} /\ Thread(q) = <<>>
                    /\ q[1] = i.phase => Moves(S, r, <<>>)
             /\ <<i.halted>> = p /\ i.phase = inst.phase /\ r.emit = {} => Moves(S, r, <<>>)
  <2>1. HistoryOK(S, p) => HistoryOK(U, p)
    BY <1>3, <1>6
  <2>2. /\ Edits(S, U, <<>>)
        /\ \A q \in Within(U, <<>>) : q = <<i.halted>> /\ i.halted # inst.halted
    BY <1>1, <1>6, <2>1, RootWrites
  <2>3. i.halted = inst.halted => Within(U, <<>>) = {}
    BY <2>2
  <2>4. i.halted = inst.halted /\ r.emit = {} => Moves(S, r, <<>>)
    BY <1>2, <1>6, <2>2, <2>3, MovesRest
  <2>5. ASSUME NEW q \in DOMAIN Tree \ {<<>>}, i.halted = inst.halted, r.emit = {Continue(q)},
               Thread(q) = <<>>, q[1] = i.phase
        PROVE  Moves(S, r, <<>>)
    <3>1. Admits(U, <<>>, q)
      BY <1>6, <2>5 DEF Admits
    <3> QED
      BY <1>2, <1>6, <2>2, <2>3, <2>5, <3>1, MovesOn
  <2>6. ASSUME <<i.halted>> = p, i.phase = inst.phase, r.emit = {}
        PROVE  Moves(S, r, <<>>)
    <3>1. Admits(U, <<>>, p)
      BY <1>1, <1>6, <2>6 DEF Admits
    <3> QED
      BY <1>2, <1>6, <2>2, <2>6, <3>1, MovesRest
  <2> QED
    BY <2>3, <2>4, <2>5, <2>6
<1>7. ASSUME r = Iterate(S, p, tag)
      PROVE  Moves(S, r, <<>>)
  <2> DEFINE T == Write(S, NodeFile(p), [v EXCEPT !.iteration = @ + 1])
  <2>1. r = Tells(Pushes(T, {Continue(p)}))
    BY <1>7 DEF Iterate, v
  <2>2. \A f \in Files : T[f] = IF f = NodeFile(p) THEN [v EXCEPT !.iteration = @ + 1] ELSE S[f]
    BY <1>1, WriteIs
  <2> HIDE DEF T
  <2>3. r.store = T /\ ~r.runs /\ r.emit = {Continue(p)}
    BY <2>1, ResultIs
  <2> QED
    BY <1>1, <1>6, <2>2, <2>3
<1>8. ASSUME NEW s \in {"done", "failed"}, NEW b
      PROVE  LET U == Write(WithState(S, p, tag, s), InstanceFile, b) IN
             /\ U[InstanceFile] = b /\ U[NodeFile(p)] = [v EXCEPT !.state = s]
             /\ \A f \in Files : f # NodeFile(p) /\ f # InstanceFile => U[f] = S[f]
  BY <1>1, <1>5, WriteIs
<1>9. ASSUME NEW blocked \in BOOLEAN, NEW asked \in Asks(p),
             r = Done(S, p, tag, blocked, asked)
      PROVE  Moves(S, r, <<>>)
  <2> DEFINE T == WithState(S, p, tag, "done")
             next == NextSibling(p)
  <2>1. r = AdvanceRoot(T, p, blocked)
    BY <1>1, <1>9 DEF Done
  <2>2. InstanceAt(T) = inst /\ T[NodeFile(p)] = [v EXCEPT !.state = "done"] /\ DOMAIN T = Files
    BY <1>1, <1>5 DEF InstanceAt
  <2>3. CASE blocked /\ Tree[p].halts
    <3> DEFINE i == [inst EXCEPT !.halted = LastId(p), !.label = "blocked"]
               H == Write(T, NodeFile(p), [v EXCEPT !.state = "failed"])
               U == Write(H, InstanceFile, i)
    <3>1. r = Concludes(U, "failure", {})
      BY <1>4, <2>1, <2>2, <2>3 DEF AdvanceRoot
    <3>2. /\ DOMAIN H = Files
          /\ \A f \in Files : H[f] = IF f = NodeFile(p) THEN [v EXCEPT !.state = "failed"] ELSE T[f]
      BY <1>5, WriteIs
    <3>5. i # Missing /\ i.joined = inst.joined /\ i.halted = LastId(p) /\ i.phase = inst.phase
      BY <1>1, InstanceFields
    <3> HIDE DEF H, i
    <3>3. \A f \in Files : U[f] = IF f = InstanceFile THEN i ELSE H[f]
      BY <3>2, WriteIs
    <3>7. \A f \in Files : f # NodeFile(p) => T[f] = S[f]
      BY <1>5
    <3> HIDE DEF U, T
    <3>4. /\ U[InstanceFile] = i /\ U[NodeFile(p)] = [v EXCEPT !.state = "failed"]
          /\ \A f \in Files : f # NodeFile(p) /\ f # InstanceFile => U[f] = S[f]
      BY <1>1, <3>2, <3>3, <3>7
    <3>6. r.store = U /\ ~r.runs /\ r.emit = {}
      BY <3>1 DEF Concludes, Tells, Result
    <3> QED
      BY <1>1, <1>6, <3>4, <3>5, <3>6
  <2>4. CASE ~(blocked /\ Tree[p].halts) /\ next # None
    <3> DEFINE i == [inst EXCEPT !.phase = next, !.label = next]
               U == Write(T, InstanceFile, i)
    <3>1. r = Tells(Pushes(U, {Continue(<<next>>)}))
      BY <2>1, <2>2, <2>4 DEF AdvanceRoot
    <3>2. i # Missing /\ i.joined = inst.joined /\ i.halted = inst.halted /\ i.phase = next
      BY <1>1, InstanceFields
    <3>3. next \in ChildIds(<<>>)
      BY <1>1, <2>4, NextIsSibling
    <3>4. <<next>> \in DOMAIN Tree \ {<<>>} /\ Thread(<<next>>) = <<>> /\ <<next>>[1] = next
      BY <3>3, RootChildIs
    <3>5. /\ U[InstanceFile] = i /\ U[NodeFile(p)] = [v EXCEPT !.state = "done"]
          /\ \A f \in Files : f # NodeFile(p) /\ f # InstanceFile => U[f] = S[f]
      BY <1>8
    <3> HIDE DEF U, i, T, next
    <3>6. r.store = U /\ ~r.runs /\ r.emit = {Continue(<<next>>)}
      BY <3>1, ResultIs
    <3> QED
      BY <1>1, <1>6, <3>2, <3>4, <3>5, <3>6
  <2>5. CASE ~(blocked /\ Tree[p].halts) /\ next = None
    <3> DEFINE i == [inst EXCEPT !.label = "done"]
               U == Write(T, InstanceFile, i)
    <3>1. r = Concludes(U, "success", {})
      BY <2>1, <2>2, <2>5 DEF AdvanceRoot
    <3>2. i # Missing /\ i.joined = inst.joined /\ i.halted = inst.halted
      BY <1>1, InstanceFields
    <3>5. /\ U[InstanceFile] = i /\ U[NodeFile(p)] = [v EXCEPT !.state = "done"]
          /\ \A f \in Files : f # NodeFile(p) /\ f # InstanceFile => U[f] = S[f]
      BY <1>8
    <3> HIDE DEF U, i, T
    <3>6. r.store = U /\ ~r.runs /\ r.emit = {}
      BY <3>1 DEF Concludes, Tells, Result
    <3> QED
      BY <1>1, <1>6, <3>2, <3>5, <3>6
  <2> QED
    BY <2>3, <2>4, <2>5
<1>10. ASSUME r = Failed(S, p, tag)
       PROVE  Moves(S, r, <<>>)
  <2> DEFINE T == WithState(S, p, tag, "failed")
             i == [inst EXCEPT !.label = "failed"]
             U == Write(T, InstanceFile, i)
  <2>1. InstanceAt(T) = inst /\ T[InstanceFile] = inst
    BY <1>1, <1>5 DEF InstanceAt
  <2>2. r = Tells(Pushes(U, {}))
    BY <1>1, <1>10, <2>1 DEF Failed
  <2>3. i # Missing /\ i.joined = inst.joined /\ i.halted = inst.halted
    BY <1>1, InstanceFields
  <2>4. /\ U[InstanceFile] = i /\ U[NodeFile(p)] = [v EXCEPT !.state = "failed"]
        /\ \A f \in Files : f # NodeFile(p) /\ f # InstanceFile => U[f] = S[f]
    BY <1>8
  <2> HIDE DEF U, i, T
  <2>5. r.store = U /\ ~r.runs /\ r.emit = {}
    BY <2>2, ResultIs
  <2> QED
    BY <1>1, <1>6, <2>3, <2>4, <2>5
<1>11. QED
  BY <1>7, <1>9, <1>10, AttemptEnds

LEMMA AdvanceMoves ==
  ASSUME GatesApart, NEW p \in Units, NEW S, StandsAt(S, p), Within(S, Thread(p)) = {},
         Present(S, p), S[NodeFile(p)].state = LifeState(p),
         NEW tag \in RunTags, NEW r \in AdvanceOutcomes(S, p, tag)
  PROVE  Moves(S, r, Thread(p))
<1>1. CASE Thread(p) = <<>>
  BY <1>1, AdvanceRoots
<1>2. CASE Thread(p) # <<>>
  BY <1>2, AdvanceLegs
<1>3. QED
  BY <1>1, <1>2

-----------------------------------------------------------------------------
(* Entering a node. *)

\* The unit that a leg starts with is of the leg.
LEMMA LeafIs ==
  ASSUME NEW p \in DOMAIN Tree \ {<<>>}, NodeKind(p) = "fanout", NEW l \in ChildIds(p)
  PROVE  LET c == Child(p, l)
             a == LeafPath(p, l) IN
         /\ IsLeg(c) /\ c \in DOMAIN Tree \ {<<>>} /\ ParentPath(c) = p /\ LastId(c) = l
         /\ NodeKind(c) \in {"agent", "sequence"} /\ NodeFile(c) \in Files
         /\ a \in Units /\ a \in DOMAIN Tree \ {<<>>} /\ NodeKind(a) = "agent"
         /\ Thread(a) = c /\ Above(c, a) /\ Above(p, c) /\ Above(p, a)
         /\ NodeKind(c) = "agent" => a = c
         /\ NodeKind(c) = "sequence" => ParentPath(a) = c /\ a = Child(c, FirstChildId(c))
<1> DEFINE c == Child(p, l)
           a == LeafPath(p, l)
<1>1. /\ c \in DOMAIN Tree \ {<<>>} /\ ParentPath(c) = p /\ LastId(c) = l /\ p \in Seq(STRING)
      /\ c \in Seq(STRING)
  BY ChildrenAreNodes
<1>2. /\ NodeKind(c) \in {"agent", "sequence"} /\ NodeFile(c) \in Files
      /\ a \in Units
      /\ NodeKind(c) = "sequence" => FirstChildId(c) \in ChildIds(c)
  BY LegsAre
<1>3. /\ NodeKind(c) = "agent" => a = c
      /\ NodeKind(c) = "sequence" => a = Child(c, FirstChildId(c))
  BY DEF LeafPath
<1> HIDE DEF c, a
<1>4. IsLeg(c)
  BY <1>1 DEF IsLeg
<1>5. a \in DOMAIN Tree \ {<<>>} /\ NodeKind(a) = "agent"
  BY <1>2, UnitsAreAgents
<1>6. NodeKind(c) = "sequence" => ParentPath(a) = c
  BY <1>1, <1>2, <1>3, ChildrenAreNodes
<1>7. Thread(a) = c
  BY <1>1, <1>2, <1>3, <1>6 DEF Thread
<1>8. Above(c, a) /\ a \in Seq(STRING)
  BY <1>5, <1>7, ThreadIs, UnitsAreAgents, <1>2
<1>9. Above(p, c)
  BY <1>1, AboveParent
<1>10. Above(p, a)
  BY <1>1, <1>8, <1>9, AboveOrder
<1>11. QED
  BY <1>1, <1>2, <1>3, <1>4, <1>5, <1>6, <1>7, <1>8, <1>9, <1>10 DEF c, a

\* T is S where fan-out p is entered with the legs L.
Seeds(S, T, p, L) ==
  /\ DOMAIN T = Files /\ L \subseteq ChildIds(p)
  /\ \A f \in Files : T[f] # S[f] =>
       \/ \E l \in L : f = NodeFile(Child(p, l)) \/ f = NodeFile(LeafPath(p, l))
       \/ f = JoinFile(p) \/ f = ManifestFile(p)
  /\ \A l \in L : /\ T[NodeFile(Child(p, l))] = Seeded(Child(p, l))
                  /\ T[NodeFile(LeafPath(p, l))] = FreshUnit(LeafPath(p, l))
  /\ p \in NestedFanouts => T[JoinFile(p)] = Marker(FALSE, FALSE)
  /\ LegIds(T, p) = L

LEMMA SeededIs ==
  ASSUME NEW S, DOMAIN S = Files, NEW p \in DOMAIN Tree \ {<<>>}, NodeKind(p) = "fanout",
         NEW L \in LegSets(p)
  PROVE  Seeds(S, EnterFanout(S, p, L), p, L)
<1> DEFINE T == EnterFanout(S, p, L)
<1>1. L \subseteq ChildIds(p) /\ (~IsDynamic(p) => L = ChildIds(p))
  BY DEF LegSets
<1>2. DOMAIN T = Files /\ \A f \in Files : T[f] =
         CASE f \in SeededFiles(p, L) -> Seeded(f[2])
           [] f = JoinFile(p) -> Marker(FALSE, FALSE)
           [] f = ManifestFile(p) -> Manifest(L)
           [] OTHER -> S[f]
  BY DEF EnterFanout
<1> HIDE DEF T
<1>3. \A f : f \in SeededFiles(p, L) <=>
         \/ \E l \in L : f = NodeFile(Child(p, l))
         \/ \E l \in L : NodeKind(Child(p, l)) = "sequence" /\ f = NodeFile(LeafPath(p, l))
  BY DEF SeededFiles, LeafPath
<1>4. \A f \in SeededFiles(p, L) : f # JoinFile(p) /\ f # ManifestFile(p)
  BY <1>3, FilePaths
<1>5. JoinFile(p) # ManifestFile(p)
  BY FilePaths
<1>6. \A f \in Files : /\ f \in SeededFiles(p, L) => T[f] = Seeded(f[2])
                       /\ f = JoinFile(p) => T[f] = Marker(FALSE, FALSE)
                       /\ f = ManifestFile(p) => T[f] = Manifest(L)
                       /\ f \notin SeededFiles(p, L) /\ f # JoinFile(p) /\ f # ManifestFile(p) => T[f] = S[f]
  BY <1>2, <1>4, <1>5
<1>7. ASSUME NEW l \in L
      PROVE  /\ T[NodeFile(Child(p, l))] = Seeded(Child(p, l))
             /\ T[NodeFile(LeafPath(p, l))] = FreshUnit(LeafPath(p, l))
  <2> DEFINE c == Child(p, l)
             a == LeafPath(p, l)
  <2>1. /\ NodeFile(c) \in Files /\ a \in Units /\ NodeFile(a) \in Files
        /\ NodeKind(a) = "agent" /\ (a = c \/ NodeKind(c) = "sequence")
    BY <1>1, LeafIs, UnitsAreAgents
  <2>2. NodeFile(c) \in SeededFiles(p, L) /\ NodeFile(a) \in SeededFiles(p, L)
    BY <1>3, <2>1
  <2> HIDE DEF c, a
  <2>3. T[NodeFile(c)] = Seeded(c) /\ T[NodeFile(a)] = Seeded(a)
    BY <1>6, <2>1, <2>2, FilePaths
  <2>4. Seeded(a) = FreshUnit(a)
    BY <2>1 DEF Seeded
  <2> QED
    BY <2>3, <2>4 DEF c, a
<1>8. p \in NestedFanouts => T[JoinFile(p)] = Marker(FALSE, FALSE)
  BY <1>6, FilesAre
<1>9. LegIds(T, p) = L
  <2>1. CASE IsDynamic(p)
    <3>1. ManifestFile(p) \in Files /\ T[ManifestFile(p)] = Manifest(L)
      BY <1>6, <2>1, FilesAre
    <3>2. Manifest(L) # Missing /\ Manifest(L).legs = L
      <4>1. DOMAIN Manifest(L) = {"legs"} /\ DOMAIN Missing = {"missing"} /\ Manifest(L).legs = L
        BY DEF Manifest, Missing
      <4> QED
        BY <4>1
    <3> QED
      BY <1>2, <2>1, <3>1, <3>2 DEF LegIds, Read
  <2>2. CASE ~IsDynamic(p)
    BY <1>1, <2>2 DEF LegIds
  <2> QED
    BY <2>1, <2>2
<1>10. \A f \in Files : T[f] # S[f] =>
              \/ \E l \in L : f = NodeFile(Child(p, l)) \/ f = NodeFile(LeafPath(p, l))
              \/ f = JoinFile(p) \/ f = ManifestFile(p)
  BY <1>3, <1>6
<1>11. QED
  BY <1>1, <1>2, <1>7, <1>8, <1>9, <1>10 DEF Seeds, T

LEMMA FanoutMoves ==
  ASSUME GatesApart, NEW S, NEW p, StandsAt(S, p), NodeKind(p) = "fanout",
         Within(S, Thread(p)) = {}, NEW L \in LegSets(p),
         NEW r, r.store = EnterFanout(S, p, L), r.runs, r.legs = {LeafPath(p, l) : l \in L}
  PROVE  Moves(S, r, Thread(p))
<1> DEFINE t == Thread(p)
           T == EnterFanout(S, p, L)
<1>1. /\ p \in DOMAIN Tree \ {<<>>} /\ p \in Seq(STRING)
      /\ t = ParentPath(p) /\ Above(t, p) /\ ~Above(p, t) /\ ~IsLeg(p)
      /\ IsThread(t) /\ t \in Seq(STRING) /\ t \in DOMAIN Tree
      /\ DOMAIN S = Files /\ StoreOK(S) /\ S[InstanceFile] # Missing /\ Inside(S, p)
      /\ ~Above(p, <<>>)
  <2>1. p \in DOMAIN Tree \ {<<>>} /\ ~IsLeg(p)
    BY LegsKind DEF StandsAt
  <2>2. p \in Seq(STRING) /\ ~Above(p, <<>>) /\ ~Above(p, ParentPath(p))
    BY <2>1, AboveParent, AboveOrder, TreeAssumption
  <2> QED
    BY <2>1, <2>2, ThreadIs, StandsIs DEF StandsAt
<1>2. /\ DOMAIN T = Files /\ L \subseteq ChildIds(p)
      /\ \A f \in Files : T[f] # S[f] =>
              \/ \E l \in L : f = NodeFile(Child(p, l)) \/ f = NodeFile(LeafPath(p, l))
              \/ f = JoinFile(p) \/ f = ManifestFile(p)
      /\ \A l \in L : /\ T[NodeFile(Child(p, l))] = Seeded(Child(p, l))
                      /\ T[NodeFile(LeafPath(p, l))] = FreshUnit(LeafPath(p, l))
      /\ p \in NestedFanouts => T[JoinFile(p)] = Marker(FALSE, FALSE)
      /\ LegIds(T, p) = L
  <2>1. Seeds(S, T, p, L)
    BY <1>1, SeededIs
  <2> HIDE DEF T
  <2> QED
    BY <2>1 DEF Seeds
<1>15. r.store = T
  OBVIOUS
<1>3. Hands(r) = {LeafPath(p, l) : l \in L}
  BY DEF Hands
<1> HIDE DEF T
<1>4. ASSUME NEW f \in Files, T[f] # S[f]
      PROVE  Above(p, f[2]) /\ Above(t, f[2])
  <2>1. /\ Above(p, p)
        /\ \A l \in L : Above(p, Child(p, l)) /\ Above(p, LeafPath(p, l))
        /\ \A l \in L : Child(p, l) \in Seq(STRING) /\ LeafPath(p, l) \in Seq(STRING)
    BY <1>1, <1>2, LeafIs, AboveOrder, TreeAssumption
  <2>2. Above(p, f[2]) /\ f[2] \in Seq(STRING)
    BY <1>1, <1>2, <1>4, <2>1, FilePaths
  <2>3. Above(t, f[2])
    BY <1>1, <2>2, AboveOrder
  <2> QED
    BY <2>2, <2>3
<1>5. /\ T[InstanceFile] = S[InstanceFile]
      /\ t # <<>> => T[NodeFile(t)] = S[NodeFile(t)]
  <2>1. T[InstanceFile] = S[InstanceFile]
    BY <1>1, <1>4, FilesAre, FilePaths
  <2>2. t # <<>> => NodeFile(t) \in Files
    BY <1>1, ThreadsAre, FilesAre DEF HasFile
  <2> QED
    BY <1>1, <1>4, <2>1, <2>2, FilePaths
<1>6. t # <<>> => IsLeg(t) /\ Going(T, t)
  BY <1>1, <1>5, StandsIs DEF Going, Present
<1>7. ASSUME NEW l \in L
      PROVE  Going(T, Child(p, l)) /\ Expected(T, Child(p, l))
  <2> DEFINE c == Child(p, l)
  <2>1. /\ IsLeg(c) /\ ParentPath(c) = p /\ LastId(c) = l
        /\ NodeKind(c) \in {"agent", "sequence"} /\ c \in DOMAIN Tree \ {<<>>}
    BY <1>1, <1>2, LeafIs
  <2>2. T[NodeFile(c)] = Seeded(c)
    BY <1>2
  <2> HIDE DEF c
  <2>3. Seeded(c) # Missing /\ Seeded(c).state \notin Terminal
    <3>1. CASE NodeKind(c) = "sequence"
      <4>1. Seeded(c) = Cursor(EnclosingFanoutId(c), FirstChildId(c))
        BY <3>1 DEF Seeded
      <4>2. DOMAIN Seeded(c) = {"state", "sub_state"} /\ DOMAIN Missing = {"missing"}
            /\ Seeded(c).state = EnclosingFanoutId(c)
        BY <4>1 DEF Cursor, Missing
      <4> QED
        BY <2>1, <4>2, InFlight
    <3>2. CASE NodeKind(c) = "agent"
      <4>1. Seeded(c) = FreshUnit(c) /\ c \in Units
        BY <2>1, <3>2 DEF Seeded, Units
      <4>2. DOMAIN Seeded(c) = {"state", "iteration", "history", "last"} /\ DOMAIN Missing = {"missing"}
            /\ Seeded(c).state = LifeState(c)
        BY <4>1 DEF FreshUnit, Missing
      <4> QED
        BY <4>1, <4>2, InFlight
    <3> QED
      BY <2>1, <3>1, <3>2
  <2>4. Len(c) > 2 => T[JoinFile(p)] # Missing
    <3>1. Len(c) > 2 => p \in NestedFanouts
      BY <2>1, LegsParent
    <3>2. Marker(FALSE, FALSE) # Missing
      <4>1. DOMAIN Marker(FALSE, FALSE) = {"joined", "failed"} /\ DOMAIN Missing = {"missing"}
        BY DEF Marker, Missing
      <4> QED
        BY <4>1
    <3> QED
      BY <1>2, <3>1, <3>2
  <2> QED
    BY <1>2, <2>1, <2>2, <2>3, <2>4 DEF Going, Present, Expected, c
<1>8. Within(T, t) \subseteq {p}
  <2> SUFFICES ASSUME NEW q \in Within(T, t), q # p PROVE FALSE
    OBVIOUS
  <2>1. q \in Places(T) /\ q \notin Places(S) /\ q \in DOMAIN Tree \ {<<>>}
    BY PlaceIs DEF Within
  <2>2. \A l \in L : /\ NodeKind(Child(p, l)) \in {"agent", "sequence"}
                     /\ NodeKind(LeafPath(p, l)) = "agent"
                     /\ ParentPath(Child(p, l)) = p
                     /\ NodeKind(ParentPath(LeafPath(p, l))) = "fanout" => ParentPath(LeafPath(p, l)) = p
    <3> SUFFICES ASSUME NEW l \in L
                 PROVE  /\ NodeKind(Child(p, l)) \in {"agent", "sequence"}
                        /\ NodeKind(LeafPath(p, l)) = "agent"
                        /\ ParentPath(Child(p, l)) = p
                        /\ NodeKind(ParentPath(LeafPath(p, l))) = "fanout" => ParentPath(LeafPath(p, l)) = p
      OBVIOUS
    <3>1. /\ NodeKind(Child(p, l)) \in {"agent", "sequence"}
          /\ NodeKind(LeafPath(p, l)) = "agent"
          /\ ParentPath(Child(p, l)) = p
          /\ NodeKind(Child(p, l)) = "agent" => LeafPath(p, l) = Child(p, l)
          /\ NodeKind(Child(p, l)) = "sequence" => ParentPath(LeafPath(p, l)) = Child(p, l)
      BY <1>1, <1>2, LeafIs
    <3> QED
      BY <3>1
  <2>3. \A f \in Files : T[f] # S[f] =>
              \/ \E l \in L : f = NodeFile(Child(p, l)) \/ f = NodeFile(LeafPath(p, l))
              \/ f = JoinFile(p) \/ f = ManifestFile(p)
    BY <1>2
  <2>4. NodeKind(q) = "gate" => T[NodeFile(q)] = S[NodeFile(q)]
    <3> SUFFICES ASSUME NodeKind(q) = "gate", T[NodeFile(q)] # S[NodeFile(q)] PROVE FALSE
      OBVIOUS
    <3>1. NodeFile(q) \in Files
      BY <2>1, FilesAre
    <3>2. \E l \in L : q = Child(p, l) \/ q = LeafPath(p, l)
      BY <2>3, <3>1, FilePaths
    <3> QED
      BY <2>2, <3>2
  <2>5. q \in NestedFanouts => T[JoinFile(q)] = S[JoinFile(q)]
    BY <2>3, FilesAre, FilePaths
  <2>6. ASSUME NodeKind(q) = "fanout", NEW l \in ChildIds(q), Present(T, Child(q, l)), ~Present(S, Child(q, l))
        PROVE  FALSE
    <3>1. NodeFile(Child(q, l)) \in Files /\ ParentPath(Child(q, l)) = q
      BY <2>1, <2>6, LegsAre, ChildrenAreNodes
    <3>2. T[NodeFile(Child(q, l))] # S[NodeFile(Child(q, l))]
      BY <2>6 DEF Present
    <3>3. \E m \in L : Child(q, l) = Child(p, m) \/ Child(q, l) = LeafPath(p, m)
      BY <2>3, <3>1, <3>2, FilePaths
    <3> QED
      BY <2>2, <2>6, <3>1, <3>3
  <2> QED
    BY <1>1, <1>5, <2>1, <2>4, <2>5, <2>6, NewPlaces

<1>9. ASSUME NEW q \in Hands(r) \union Within(T, t)
      PROVE  /\ q \in DOMAIN Tree \ {<<>>} /\ Above(t, q)
             /\ t = <<>> => T[InstanceFile] # Missing /\ q[1] = T[InstanceFile].phase
             /\ \A x \in DOMAIN Tree : IsLeg(x) /\ Above(t, x) /\ Above(x, q) =>
                  Going(T, x) /\ (x # t => Expected(T, x))
  <2>1. q = p \/ \E l \in L : q = LeafPath(p, l)
    BY <1>3, <1>8
  <2>2. /\ q \in DOMAIN Tree \ {<<>>} /\ q \in Seq(STRING) /\ Above(p, q)
        /\ Thread(q) = t \/ \E l \in L : Thread(q) = Child(p, l)
    BY <1>1, <1>2, <2>1, LeafIs, AboveOrder, UnitsAreAgents
  <2>3. Above(t, q)
    BY <1>1, <2>2, AboveOrder
  <2>4. q[1] = p[1]
    BY <1>1, <2>2, AboveFirst
  <2>5. p[1] = T[InstanceFile].phase
    BY <1>1, <1>5 DEF Inside
  <2>6. ASSUME NEW x \in DOMAIN Tree, IsLeg(x), Above(t, x), Above(x, q)
        PROVE  Going(T, x) /\ (x # t => Expected(T, x))
    <3>1. Above(x, Thread(q)) /\ x \in Seq(STRING)
      BY <2>2, <2>6, ThreadsAbove, TreeAssumption DEF IsThread
    <3>2. CASE x = t
      BY <1>6, <2>6, <3>2, LegsKind
    <3>3. CASE x # t
      <4>1. ~Above(x, t)
        BY <1>1, <2>6, <3>1, <3>3, AboveOrder
      <4>2. PICK l \in L : Thread(q) = Child(p, l)
        BY <2>2, <3>1, <4>1
      <4>3. /\ Child(p, l) \in DOMAIN Tree \ {<<>>} /\ ParentPath(Child(p, l)) = p
        BY <1>1, <1>2, LeafIs
      <4>4. x = Child(p, l)
        <5> SUFFICES ASSUME x # Child(p, l) PROVE FALSE
          OBVIOUS
        <5>1. Above(x, p)
          BY <3>1, <4>2, <4>3, AboveParent
        <5>2. Above(x, t)
          BY <1>1, <2>6, <5>1, ThreadsAbove DEF IsThread
        <5> QED
          BY <4>1, <5>2
      <4> QED
        BY <1>7, <4>4
    <3> QED
      BY <3>2, <3>3
  <2> QED
    BY <1>1, <1>5, <2>2, <2>3, <2>4, <2>5, <2>6
<1>10. ASSUME NEW a \in Hands(r), NEW b \in Hands(r), a # b
       PROVE  Far(a, b)
  <2>1. PICK l \in L : a = LeafPath(p, l)
    BY <1>3
  <2>2. PICK m \in L : b = LeafPath(p, m)
    BY <1>3
  <2>3. /\ Thread(a) = Child(p, l) /\ Thread(b) = Child(p, m)
        /\ a \in DOMAIN Tree \ {<<>>} /\ b \in DOMAIN Tree \ {<<>>}
        /\ IsLeg(Child(p, l)) /\ IsLeg(Child(p, m))
        /\ ParentPath(Child(p, l)) = p /\ ParentPath(Child(p, m)) = p
        /\ Child(p, l) \in DOMAIN Tree /\ Child(p, m) \in DOMAIN Tree
        /\ Child(p, l) # <<>> /\ Child(p, m) # <<>>
    BY <1>1, <1>2, <2>1, <2>2, LeafIs
  <2>4. Child(p, l) # Child(p, m)
    <3>1. l # m
      BY <1>10, <2>1, <2>2
    <3>2. LastId(Child(p, l)) = l /\ LastId(Child(p, m)) = m
      BY <1>1, <1>2, LeafIs
    <3> QED
      BY <3>1, <3>2
  <2>5. ASSUME NEW c \in DOMAIN Tree, c # <<>>, NEW d \in DOMAIN Tree, d # <<>>,
               IsLeg(c), ParentPath(c) = p, ParentPath(d) = p, c # d, Above(c, d)
        PROVE  FALSE
    <3>2. c \in Seq(STRING)
      BY TreeAssumption
    <3>1. ~Above(c, p)
      BY <2>5, <3>2, AboveParent
    <3> QED
      BY <2>5, <3>1, <3>2, AboveParent
  <2>6. ~Above(Thread(a), b)
    BY <2>3, <2>4, <2>5, ThreadsAbove DEF IsThread
  <2>7. ~Above(Thread(b), a)
    BY <2>3, <2>4, <2>5, ThreadsAbove DEF IsThread
  <2> QED
    BY <2>6, <2>7 DEF Far
<1>11. ASSUME NEW a \in Hands(r)
       PROVE  /\ Over(p, a)
              /\ Present(T, a) /\ T[NodeFile(a)].state = LifeState(a)
  <2>1. PICK l \in L : a = LeafPath(p, l)
    BY <1>3
  <2>2. /\ a \in Units /\ NodeKind(a) = "agent" /\ Above(p, a)
        /\ T[NodeFile(a)] = FreshUnit(a)
    BY <1>1, <1>2, <2>1, LeafIs
  <2>3. DOMAIN FreshUnit(a) = {"state", "iteration", "history", "last"} /\ DOMAIN Missing = {"missing"}
        /\ FreshUnit(a).state = LifeState(a)
    BY DEF FreshUnit, Missing
  <2> QED
    BY <2>2, <2>3 DEF Over, Present
<1>12. ASSUME NEW a \in Units, HistoryOK(S, a)
       PROVE  HistoryOK(T, a)
  <2>1. CASE T[NodeFile(a)] = S[NodeFile(a)]
    BY <1>12, <2>1, HistorySame
  <2>2. CASE T[NodeFile(a)] # S[NodeFile(a)]
    <3>1. NodeFile(a) \in Files /\ NodeKind(a) = "agent"
      BY UnitsAreAgents
    <3>2. PICK l \in L : a = Child(p, l) \/ a = LeafPath(p, l)
      BY <1>2, <2>2, <3>1, FilePaths
    <3>3. a = LeafPath(p, l)
      BY <1>1, <1>2, <3>1, <3>2, LeafIs
    <3>4. T[NodeFile(a)] = FreshUnit(a)
      BY <1>2, <3>3
    <3>5. FreshUnit(a).state = LifeState(a) /\ FreshUnit(a).history = 0 /\ FreshUnit(a).iteration = 1
      BY DEF FreshUnit
    <3> QED
      BY <3>4, <3>5, InFlight DEF HistoryOK, Terminal
  <2> QED
    BY <2>1, <2>2
<1>13. t = <<>> /\ RootEntered(S) => RootEntered(T)
  <2> SUFFICES ASSUME t = <<>>, RootEntered(S) PROVE RootEntered(T)
    OBVIOUS
  <2>1. \A q : Above(<<>>, q)
    BY DEF Above, Prefix
  <2>2. Places(S) = {}
    BY <2>1 DEF Within
  <2> QED
    BY <1>5, <2>2 DEF RootEntered
<1>14. QED
  <2>1. \A f \in Files : T[f] # S[f] => f \in Strays \/ Above(t, f[2])
    BY <1>4
  <2>2. r.runs => \A a \in r.legs : Present(T, a) /\ T[NodeFile(a)].state = LifeState(a)
    BY <1>11 DEF Hands
  <2>3. \A a \in Units : Above(t, a) /\ HistoryOK(S, a) => HistoryOK(T, a)
    BY <1>12
  <2>4. \A a, b \in Within(T, t) : a = b
    BY <1>8
  <2>5. \A a \in Hands(r), b \in Within(T, t) : Far(a, b) \/ Over(b, a)
    BY <1>8, <1>11
  <2> QED
    BY <1>9, <1>10, <1>13, <1>15, <2>1, <2>2, <2>3, <2>4, <2>5 DEF Moves

LEMMA FreshIs ==
  ASSUME NEW p \in Units
  PROVE  LET u == FreshUnit(p) IN
         /\ u # Missing /\ u.state = LifeState(p)
         /\ \A T : T[NodeFile(p)] = u => HistoryOK(T, p)
<1>1. /\ DOMAIN FreshUnit(p) = {"state", "iteration", "history", "last"} /\ DOMAIN Missing = {"missing"}
      /\ FreshUnit(p).state = LifeState(p) /\ FreshUnit(p).history = 0 /\ FreshUnit(p).iteration = 1
  BY DEF FreshUnit, Missing
<1>2. \A T : T[NodeFile(p)] = FreshUnit(p) => HistoryOK(T, p)
  BY <1>1, InFlight DEF HistoryOK, Terminal
<1>3. QED
  BY <1>1, <1>2

\* A unit that is entered afresh.
LEMMA AgentMoves ==
  ASSUME GatesApart, NEW S, NEW p \in Units, StandsAt(S, p), Within(S, Thread(p)) = {},
         NEW r, r.store = Write(S, NodeFile(p), FreshUnit(p)), r.runs, r.legs = {p}
  PROVE  Moves(S, r, Thread(p))
<1> DEFINE t == Thread(p)
           T == Write(S, NodeFile(p), FreshUnit(p))
<1>1. /\ p \in DOMAIN Tree \ {<<>>} /\ NodeKind(p) = "agent" /\ NodeFile(p) \in Files
      /\ DOMAIN S = Files /\ IsThread(t) /\ S[InstanceFile] # Missing
  BY UnitsAreAgents, StandsIs DEF StandsAt
<1>2. \A f \in Files : T[f] = IF f = NodeFile(p) THEN FreshUnit(p) ELSE S[f]
  BY <1>1, WriteIs
<1>3. r.store = T /\ Hands(r) = {p}
  BY DEF Hands
<1> HIDE DEF T
<1>4. /\ T[NodeFile(p)] = FreshUnit(p) /\ T[NodeFile(p)] # Missing
      /\ T[NodeFile(p)].state = LifeState(p) /\ LifeState(p) \notin Terminal
      /\ HistoryOK(T, p)
  BY <1>1, <1>2, FreshIs, InFlight
<1>5. Edits(S, T, t) /\ Within(T, t) = {} /\ Admits(T, t, p)
  <2>1. CASE t = <<>>
    <3>1. T[InstanceFile] = S[InstanceFile]
      BY <1>2, FilesAre, NotTheInstance
    <3>2. /\ Edits(S, T, <<>>)
          /\ Within(T, <<>>) = {}
      BY <1>1, <1>2, <1>4, <2>1, <3>1, RootWrites
    <3>3. p[1] = S[InstanceFile].phase
      BY <2>1, StandsIs
    <3> QED
      BY <1>1, <2>1, <3>1, <3>2, <3>3 DEF Admits
  <2>2. CASE t # <<>>
    <3>1. Edits(S, T, t) /\ Within(T, t) = {}
      BY <1>2, <1>4, <2>2, UnitWrites
    <3>2. NodeFile(t) \in Files /\ Going(S, t)
      BY <1>1, <2>2, StandsIs, ThreadsAre, FilesAre DEF HasFile
    <3>3. Going(T, t)
      BY <1>2, <1>4, <3>2, FilePaths DEF Going, Present
    <3> QED
      BY <1>1, <2>2, <3>1, <3>3 DEF Admits
  <2> QED
    BY <2>1, <2>2
<1>6. QED
  BY <1>1, <1>3, <1>4, <1>5, MovesOne DEF Present

\* A gate that is come to: of the root, which is opened; of a leg, whose own file
\* stays as it is.
LEMMA GateMoves ==
  ASSUME GatesApart, NEW S, NEW p, StandsAt(S, p), NodeKind(p) = "gate", Within(S, Thread(p)) = {},
         NEW r, r.store = Write(S, RootGateFile(p), OpenGate(p, {})), ~r.runs, r.emit = {}
  PROVE  Moves(S, r, Thread(p))
<1> DEFINE t == Thread(p)
           T == Write(S, RootGateFile(p), OpenGate(p, {}))
<1>1. /\ p \in DOMAIN Tree \ {<<>>} /\ NodeKind(p) = "gate"
      /\ DOMAIN S = Files /\ IsThread(t) /\ S[InstanceFile] # Missing
  BY StandsIs DEF StandsAt
<1>2. \A f \in Files : T[f] = IF f = RootGateFile(p) THEN OpenGate(p, {}) ELSE S[f]
  BY <1>1, WriteIs
<1>3. r.store = T
  OBVIOUS
<1> HIDE DEF T
<1>4. T[InstanceFile] = S[InstanceFile]
  BY <1>2, FilesAre, NotTheInstance
<1>5. CASE t = <<>>
  <2>1. RootGateFile(p) = NodeFile(p) /\ p[1] = S[InstanceFile].phase
    BY <1>5, StandsIs DEF RootGateFile
  <2>2. p \notin Units
    BY <1>1, UnitsAreAgents
  <2>3. /\ Edits(S, T, <<>>)
        /\ Within(T, <<>>) \subseteq {p}
    BY <1>1, <1>2, <1>4, <1>5, <2>1, <2>2, RootWrites
  <2>4. Admits(T, <<>>, p)
    BY <1>1, <1>4, <1>5, <2>1 DEF Admits
  <2> QED
    BY <1>1, <1>3, <1>5, <2>3, <2>4, MovesRest
<1>6. CASE t # <<>>
  <2> DEFINE W == {RootGateFile(p)}
  <2>1. RootGateFile(p) \in Strays
    <3>1. ~IsRootChild(p)
      BY <1>1, <1>6, ThreadIs DEF IsRootChild
    <3> QED
      BY <1>1, <3>1 DEF Strays, LegGates
  <2>2. /\ \A q \in DOMAIN Tree : HasFile(q) => NodeFile(q) \notin W
        /\ \A q : JoinFile(q) \notin W
    BY <2>1, NotStray, FilePaths
  <2>3. \A f \in Files : f \notin W => T[f] = S[f]
    BY <1>2
  <2>4. \A f \in W : f \in Strays
    BY <2>1
  <2>5. \A q \in Units : NodeFile(q) \notin W
    BY <2>2, UnitsAreAgents DEF HasFile
  <2> HIDE DEF W
  <2>6. /\ Edits(S, T, t)
        /\ \A q \in Within(T, t) : \/ q \in Within(S, t)
                                   \/ NodeKind(q) = "gate" /\ NodeFile(q) \in W
                                   \/ JoinFile(q) \in W
    BY <1>6, <2>3, <2>4, <2>5, LegWrites
  <2>7. Within(T, t) = {}
    BY <2>2, <2>6 DEF Within, Places, HasFile
  <2> QED
    BY <1>1, <1>3, <2>6, <2>7, MovesRest
<1>7. QED
  BY <1>5, <1>6

\* What enter_node returns.
LEMMA EnterIs ==
  ASSUME NEW S, NEW p, NEW command, NEW r \in Enter(S, p, command)
  PROVE  \/ /\ NodeKind(p) = "gate"
            /\ r.store = Write(S, RootGateFile(p), OpenGate(p, {})) /\ ~r.runs /\ r.emit = {}
         \/ /\ NodeKind(p) = "agent" /\ r.runs /\ r.legs = {p} /\ r.emit = {}
            /\ \/ Preserved(S, p, command) /\ r.store = S /\ ~r.push
               \/ ~Preserved(S, p, command) /\ r.store = Write(S, NodeFile(p), FreshUnit(p))
         \/ /\ NodeKind(p) = "fanout" /\ r.runs /\ r.emit = {}
            /\ \E L \in LegSets(p) : /\ r.store = EnterFanout(S, p, L)
                                     /\ r.legs = {LeafPath(p, l) : l \in L}
<1>1. CASE NodeKind(p) = "gate"
  <2>1. PICK e \in Entries(S, p, command) : r = Tells(Pushes(e.store, {}))
    BY <1>1 DEF Enter
  <2>2. e.store = Write(S, RootGateFile(p), OpenGate(p, {}))
    BY <1>1 DEF Entries
  <2> QED
    BY <1>1, <2>1, <2>2, ResultIs
<1>2. CASE NodeKind(p) = "agent"
  <2>1. PICK e \in Entries(S, p, command) : r = Result(e.store, e.seeded, None, {}, TRUE, e.legs)
    BY <1>2 DEF Enter
  <2>2. /\ e.store = IF Preserved(S, p, command) THEN S ELSE Write(S, NodeFile(p), FreshUnit(p))
        /\ e.seeded = ~Preserved(S, p, command) /\ e.legs = {p}
    BY <1>2 DEF Entries
  <2>3. r.store = e.store /\ r.push = e.seeded /\ r.runs /\ r.legs = e.legs /\ r.emit = {}
    BY <2>1 DEF Result
  <2> QED
    BY <1>2, <2>2, <2>3
<1>3. CASE NodeKind(p) = "fanout"
  <2>1. PICK e \in Entries(S, p, command) : r = Result(e.store, e.seeded, None, {}, TRUE, e.legs)
    BY <1>3 DEF Enter
  <2>2. PICK L \in LegSets(p) :
          e = [store |-> EnterFanout(S, p, L), seeded |-> TRUE,
               legs |-> {LeafPath(p, l) : l \in L}]
    BY <1>3 DEF Entries
  <2>3. e.store = EnterFanout(S, p, L) /\ e.legs = {LeafPath(p, l) : l \in L}
    BY <2>2
  <2>4. r.store = e.store /\ r.runs /\ r.legs = e.legs /\ r.emit = {}
    BY <2>1 DEF Result
  <2> QED
    BY <1>3, <2>3, <2>4
<1>4. CASE NodeKind(p) \notin {"gate", "agent", "fanout"}
  <2>1. Entries(S, p, command) = {}
    BY <1>4 DEF Entries
  <2> QED
    BY <1>4, <2>1 DEF Enter
<1>5. QED
  BY <1>1, <1>2, <1>3, <1>4

LEMMA EnterMoves ==
  ASSUME GatesApart, NEW S, NEW p, StandsAt(S, p), Within(S, Thread(p)) = {},
         NEW command, NEW r \in Enter(S, p, command)
  PROVE  \/ Moves(S, r, Thread(p))
         \/ /\ p \in Units /\ Preserved(S, p, command) /\ r.store = S
            /\ ~r.push /\ r.runs /\ r.legs = {p} /\ r.emit = {}
<1>1. p \in DOMAIN Tree \ {<<>>}
  BY DEF StandsAt
<1>2. NodeKind(p) = "agent" => p \in Units
  BY <1>1 DEF Units
<1>3. QED
  BY <1>2, EnterIs, GateMoves, FanoutMoves, AgentMoves

-----------------------------------------------------------------------------
(* Scripts that end a wait: merge, replies, joins. *)

\* A result that edits the instance and the node the root stands at, and goes on or
\* comes to rest.
LEMMA RootGoes ==
  ASSUME NEW S, NEW a, StandsAt(S, a), Thread(a) = <<>>, NEW T, NEW r, r.store = T, ~r.runs,
         \A f \in Files : f # InstanceFile /\ f # NodeFile(a) => T[f] = S[f],
         T[InstanceFile] # Missing, T[InstanceFile].joined \/ ~S[InstanceFile].joined,
         NodeKind(a) # "fanout" \/ T[InstanceFile].joined,
         a \in Units => T[NodeFile(a)] = S[NodeFile(a)],
         \/ T[InstanceFile].halted = S[InstanceFile].halted
         \/ T[InstanceFile].halted = None
  PROVE  /\ ~Waits(T, a) /\ r.emit = {} => Moves(S, r, <<>>)
         /\ \A id \in ChildIds(<<>>) :
              ~Waits(T, a) /\ r.emit = {Continue(<<id>>)} /\ T[InstanceFile].phase = id
                => Moves(S, r, <<>>)
         /\ r.emit = {} /\ T[InstanceFile].phase = S[InstanceFile].phase => Moves(S, r, <<>>)
<1>1. a \in Units /\ HistoryOK(S, a) => HistoryOK(T, a)
  BY HistorySame
<1>2. /\ Edits(S, T, <<>>)
      /\ \A q \in Within(T, <<>>) : /\ q \in Places(T)
                                    /\ \/ q = a /\ a \in Within(S, <<>>)
                                       \/ /\ q = <<T[InstanceFile].halted>>
                                          /\ T[InstanceFile].halted # S[InstanceFile].halted
                                       \/ q = a /\ NodeKind(a) = "gate"
  BY <1>1, RootWrites
<1>3. <<None>> \notin DOMAIN Tree
  <2> SUFFICES ASSUME <<None>> \in DOMAIN Tree PROVE FALSE
    OBVIOUS
  <2>1. <<None>> # <<>> /\ LastId(<<None>>) = None
    BY DEF LastId
  <2> QED
    BY <2>1, NodesAreChildren
<1>4. \A q \in Within(T, <<>>) : q = a /\ Waits(T, a)
  BY <1>2, <1>3, PlaceIs
<1>5. /\ IsThread(<<>>) /\ a \in DOMAIN Tree \ {<<>>} /\ a[1] = S[InstanceFile].phase
  BY StandsIs DEF IsThread, StandsAt
<1>6. ~Waits(T, a) => Within(T, <<>>) = {}
  BY <1>4
<1>7. ASSUME ~Waits(T, a), r.emit = {} PROVE Moves(S, r, <<>>)
  BY <1>2, <1>5, <1>6, <1>7, MovesRest
<1>8. ASSUME NEW id \in ChildIds(<<>>), ~Waits(T, a), r.emit = {Continue(<<id>>)},
             T[InstanceFile].phase = id
      PROVE  Moves(S, r, <<>>)
  <2>1. Admits(T, <<>>, <<id>>)
    BY <1>8, RootChildIs DEF Admits
  <2> QED
    BY <1>2, <1>5, <1>6, <1>8, <2>1, MovesOn
<1>9. ASSUME r.emit = {}, T[InstanceFile].phase = S[InstanceFile].phase
      PROVE  Moves(S, r, <<>>)
  <2>1. Admits(T, <<>>, a)
    BY <1>5, <1>9 DEF Admits
  <2> QED
    BY <1>2, <1>4, <1>5, <1>9, <2>1, MovesRest
<1>10. QED
  BY <1>7, <1>8, <1>9

\* The merge ends its leg, or the run.
LEMMA MergeMoves ==
  ASSUME GatesApart, NEW S, NEW p, StandsAt(S, p), NodeKind(p) = "merge",
         Within(S, Thread(p)) = {}, NEW r \in Merge(S, p)
  PROVE  Moves(S, r, Thread(p)) \/ r = Quiet(S)
<1> DEFINE t == Thread(p)
           cursor == NodeFile(ParentPath(p))
           inst == S[InstanceFile]
           sub == IF S[cursor] = Missing THEN None ELSE S[cursor].sub_state
<1>1. /\ p \in DOMAIN Tree \ {<<>>} /\ DOMAIN S = Files /\ StoreOK(S)
      /\ inst \in Instances /\ inst # Missing /\ p \notin Units /\ ~Waits(S, p)
      /\ (t = <<>> <=> ~(Len(p) > 1)) /\ (t = <<>> <=> Len(p) = 1)
  <2>1. p \in DOMAIN Tree \ {<<>>} /\ DOMAIN S = Files /\ StoreOK(S)
      /\ inst \in Instances /\ inst # Missing /\ p \notin Units
    BY StandsIs DEF StandsAt, Units
  <2>2. Above(t, p) /\ (t = <<>> <=> Len(p) = 1)
    BY <2>1, ThreadIs
  <2>3. PICK n \in Nat \ {0} : n = Len(p)
    BY <2>1, NodesAreChildren
  <2>4. n > 1 <=> n # 1
    BY <2>3
  <2>5. t = <<>> <=> ~(Len(p) > 1)
    BY <2>2, <2>3, <2>4, Zenon
  <2> QED
    BY <2>1, <2>2, <2>5, PlaceIs DEF Within
<1>2. CASE MergeConclusions(S, p) = {}
  BY <1>2 DEF Merge
<1>3. CASE MergeConclusions(S, p) # {} /\ Len(p) > 1
  <2> DEFINE T == Write(S, cursor, Cursor("done", sub))
  <2>1. r = Pushes(T, {FireJoin(p)})
    BY <1>3 DEF Merge
  <2>2. t # <<>> /\ t = ParentPath(p) /\ IsLeg(t) /\ Above(t, t) /\ HasFile(t) /\ t \in DOMAIN Tree
    <3>1. NodeKind(ParentPath(p)) # "fanout"
      BY <1>1, LegsKind DEF IsLeg
    <3>2. t # <<>>
      BY <1>1, <1>3
    <3> QED
      BY <1>1, <3>1, <3>2, UnitOfLeg
  <2>3. \A f \in Files : T[f] = IF f = cursor THEN Cursor("done", sub) ELSE S[f]
    BY <1>1, WriteIs
  <2> HIDE DEF T
  <2>4. r.store = T /\ ~r.runs /\ r.emit = {FireJoin(p)}
    BY <2>1, ResultIs
  <2>5. /\ \A f \in Files : f \notin {cursor} => T[f] = S[f]
        /\ \A f \in {cursor} : f \in Strays \/ Above(t, f[2])
        /\ \A q \in Units : NodeFile(q) \in {cursor} /\ HistoryOK(S, q) => HistoryOK(T, q)
    <3>1. NodeKind(t) = "sequence"
      BY <1>1, <2>2, UnitOfLeg DEF IsLeg
    <3>2. t \notin Units
      BY <3>1 DEF Units
    <3> QED
      BY <2>2, <2>3, <3>2, FilePaths
  <2>6. /\ Edits(S, T, t)
        /\ \A q \in Within(T, t) : \/ q \in Within(S, t)
                               \/ /\ NodeKind(q) = "gate" /\ NodeFile(q) \in {cursor}
                               \/ /\ q \in NestedFanouts /\ JoinFile(q) \in {cursor}
    <3> HIDE DEF cursor
    <3> QED
    BY <2>2, <2>5, LegWrites
  <2>7. Within(T, t) = {}
    <3>1. NodeKind(t) = "sequence"
      BY <1>1, <2>2, UnitOfLeg DEF IsLeg
    <3>2. \A q : NodeFile(q) = cursor => q = t
      BY <2>2, FilePaths
    <3>3. \A q : JoinFile(q) # cursor
      BY FilePaths
    <3> HIDE DEF cursor, t
    <3> QED
      BY <2>6, <3>1, <3>2, <3>3 DEF t
  <2> QED
    BY <1>1, <2>2, <2>4, <2>6, <2>7, MovesUp
<1>4. CASE MergeConclusions(S, p) # {} /\ ~(Len(p) > 1)
  <2>1. t = <<>> /\ LastId(p) = inst.phase
    <3>1. t = <<>>
      BY <1>1, <1>4
    <3> QED
      BY <3>1, StandsIs
  <2> DEFINE i == [inst EXCEPT !.phase = LastId(p), !.joined = TRUE, !.label = "done"]
             T == Write(S, InstanceFile, i)
  <2>2. PICK c : r = Concludes(T, c, {})
    BY <1>1, <1>4 DEF Merge
  <2>3. i # Missing /\ i.joined /\ i.halted = inst.halted
    BY <1>1, InstanceFields
  <2>4. \A f \in Files : T[f] = IF f = InstanceFile THEN i ELSE S[f]
    BY <1>1, WriteIs
  <2> HIDE DEF T, i
  <2>5. r.store = T /\ ~r.runs /\ r.emit = {}
    BY <2>2 DEF Concludes, Tells, Result
  <2>6. T[InstanceFile] = i
    BY <2>4, FilesAre
  <2>7. ~Waits(T, p)
    BY <1>1, <2>3, <2>6 DEF Waits
  <2> QED
    BY <1>1, <2>1, <2>3, <2>4, <2>5, <2>6, <2>7, RootGoes
<1>5. QED
  BY <1>2, <1>3, <1>4

\* The result r on S, of a run in group g, ends the wait of a thread, and moves it.
Ends(S, r, g) ==
  \E a \in DOMAIN Tree \ {<<>>} :
    /\ Waits(S, a) /\ g = PlaceGroup(a)
    /\ NodeKind(a) = "fanout" => AllTerminal(S, a, a)
    /\ StandsAt(S, a) => Moves(S, r, Thread(a))

\* Only a name can be waited at.
LEMMA HaltedIs ==
  ASSUME NEW S, StoreOK(S), S[InstanceFile] # Missing
  PROVE  /\ <<None>> \notin DOMAIN Tree
         /\ \A q \in DOMAIN Tree : q = <<S[InstanceFile].halted>> => NodeKind(q) = "agent"
<1>1. <<None>> \notin DOMAIN Tree
  <2> SUFFICES ASSUME <<None>> \in DOMAIN Tree PROVE FALSE
    OBVIOUS
  <2>1. <<None>> # <<>> /\ LastId(<<None>>) = None
    BY DEF LastId
  <2> QED
    BY <2>1, NodesAreChildren
<1>2. S[InstanceFile].halted \in RootAgents \union {None}
  BY InstanceValue, InstancesChange
<1>3. QED
  BY <1>1, <1>2 DEF RootAgents

\* An override goes on past the agent that halted the root.
LEMMA OverrideEnds ==
  ASSUME NEW S, StoreOK(S), NEW r \in Override(S), r.push
  PROVE  Ends(S, r, RootGroup)
<1> DEFINE inst == S[InstanceFile]
           a == <<inst.halted>>
           next == NextSibling(a)
           i == [inst EXCEPT !.phase = next, !.label = next, !.halted = None,
                             !.overrides = @ \union {inst.halted}]
           T == Write(S, InstanceFile, i)
<1>1. Read(S, InstanceFile) = inst /\ DOMAIN S = Files
  BY FilesAre DEF Read, StoreOK
<1>2. ~Quiet(S).push
  BY ResultIs
<1>3. /\ inst # Missing /\ inst.halted # None /\ next # None
      /\ r = Pushes(T, {Continue(<<next>>)})
  BY <1>1, <1>2 DEF Override
<1>4. inst \in Instances /\ inst.halted \in RootAgents
  BY <1>3, InstanceValue, InstancesChange
<1>5. /\ a \in DOMAIN Tree \ {<<>>} /\ Thread(a) = <<>> /\ NodeKind(a) = "agent"
      /\ ParentPath(a) = <<>>
  BY <1>4, RootChildIs DEF RootAgents
<1>6. next \in ChildIds(<<>>)
  BY <1>3, <1>5, NextIsSibling
<1>7. i # Missing /\ i.joined = inst.joined /\ i.halted = None /\ i.phase = next
  BY <1>4, InstanceFields
<1> HIDE DEF i
<1>8. \A f \in Files : T[f] = IF f = InstanceFile THEN i ELSE S[f]
  BY <1>1, WriteIs
<1> HIDE DEF T
<1>9. r.store = T /\ ~r.runs /\ r.emit = {Continue(<<next>>)}
  BY <1>3, ResultIs
<1>10. T[InstanceFile] = i /\ T[NodeFile(a)] = S[NodeFile(a)]
  BY <1>5, <1>8, FilesAre, NotTheInstance
<1>11. Waits(S, a) /\ PlaceGroup(a) = RootGroup
  BY <1>3, <1>5 DEF Waits, PlaceGroup
<1> HIDE DEF a, next
<1>12. ~Waits(T, a)
  <2>1. a # <<None>>
    BY <1>3, <1>4, <1>5, HaltedIs
  <2> QED
    BY <1>5, <1>7, <1>10, <2>1 DEF Waits
<1>13. StandsAt(S, a) => Moves(S, r, <<>>)
  BY <1>5, <1>6, <1>7, <1>8, <1>9, <1>10, <1>12, RootGoes
<1>14. QED
  BY <1>5, <1>11, <1>13 DEF Ends

\* A decision on the root's gate.
LEMMA ResolveEnds ==
  ASSUME NEW S, StoreOK(S), NEW decision \in {"approve", "request-changes", "reject"}, NEW said,
         NEW r \in ResolveGate(S, decision, said), r.push
  PROVE  Ends(S, r, RootGroup)
<1> DEFINE inst == S[InstanceFile]
           a == <<inst.phase>>
           file == S[NodeFile(a)]
           next == NextSibling(a)
           Decided(gate, state) == GateDecided(S, a, gate, state, decision)
           Moved(U, phase, label) ==
             Write(U, InstanceFile, [inst EXCEPT !.phase = phase, !.label = label])
<1>1. Read(S, InstanceFile) = inst /\ DOMAIN S = Files
  BY FilesAre DEF Read, StoreOK
<1>2. ~Quiet(S).push
  BY ResultIs
<1>3. /\ inst # Missing /\ NodeKind(a) = "gate" /\ Read(S, NodeFile(a)) # Missing
      /\ Read(S, NodeFile(a)).gate \in {"open", "changes_requested"}
      /\ \/ /\ decision = "approve" /\ next # None
            /\ r = Pushes(Moved(Decided("approved", Read(S, NodeFile(a)).state), next, next),
                          {Continue(<<next>>)})
         \/ /\ decision = "approve" /\ next = None
            /\ r = Concludes(Moved(Decided("approved", Read(S, NodeFile(a)).state), inst.phase, "done"),
                             "success", {})
         \/ /\ decision = "request-changes"
            /\ r = Tells(Pushes(Decided("changes_requested", Read(S, NodeFile(a)).state), {}))
         \/ /\ decision = "reject"
            /\ r = Concludes(Moved(Decided("rejected", "failed"), inst.phase, "failed"),
                             "failure", {})
  BY <1>1, <1>2 DEF ResolveGate
<1>4. /\ inst \in Instances /\ inst.phase \in ChildIds(<<>>)
      /\ a \in DOMAIN Tree \ {<<>>} /\ Thread(a) = <<>> /\ ParentPath(a) = <<>>
      /\ a \notin Units /\ <<inst.halted>> # a
  <2>1. inst \in Instances /\ inst.phase \in ChildIds(<<>>)
    BY <1>3, InstanceValue, InstancesChange
  <2>2. a \in DOMAIN Tree \ {<<>>} /\ Thread(a) = <<>> /\ ParentPath(a) = <<>>
    BY <2>1, RootChildIs
  <2>3. a \notin Units
    BY <1>3 DEF Units
  <2>4. <<inst.halted>> # a
    <3> HIDE DEF a
    <3> QED
      BY <1>3, <2>2, HaltedIs
  <2> QED
    BY <2>1, <2>2, <2>3, <2>4
<1>5. NodeFile(a) \in Files /\ NodeFile(a) # InstanceFile /\ Read(S, NodeFile(a)) = file
  BY <1>1, <1>3, <1>4, FilesAre, NotTheInstance DEF Read
<1>6. DOMAIN file = GateFields
  BY <1>3, <1>4, <1>5, NodeValue DEF NodeOK
<1>7. Waits(S, a) /\ PlaceGroup(a) = RootGroup
  BY <1>3, <1>5 DEF Waits, PlaceGroup, Present
<1>8. ASSUME NEW gate, NEW state
      PROVE  /\ DOMAIN Decided(gate, state) = Files
             /\ \A f \in Files : f # NodeFile(a) => Decided(gate, state)[f] = S[f]
             /\ Decided(gate, state)[NodeFile(a)] # Missing
             /\ Decided(gate, state)[NodeFile(a)].gate = gate
  <2> DEFINE v == [file EXCEPT !.gate = gate, !.state = state, !.history = Append(@, decision)]
  <2>1. Decided(gate, state) = Write(S, NodeFile(a), v)
    BY DEF GateDecided
  <2>2. DOMAIN v = GateFields /\ v.gate = gate
    BY <1>6 DEF GateFields
  <2>3. v # Missing
    <3>1. "gate" \in DOMAIN v
      BY <2>2 DEF GateFields
    <3> HIDE DEF v
    <3>2. DOMAIN Missing = {"missing"}
      BY InstanceFields
    <3> QED
      BY <3>1, <3>2
  <2> HIDE DEF v, Decided
  <2>4. /\ DOMAIN Write(S, NodeFile(a), v) = Files
        /\ \A f \in Files : Write(S, NodeFile(a), v)[f] = IF f = NodeFile(a) THEN v ELSE S[f]
    BY <1>1, WriteIs
  <2> QED
    BY <1>5, <2>1, <2>2, <2>3, <2>4
<1>9. ASSUME NEW U, DOMAIN U = Files, NEW phase \in ChildIds(<<>>), NEW label
      PROVE  /\ \A f \in Files : f # InstanceFile => Moved(U, phase, label)[f] = U[f]
             /\ LET i == Moved(U, phase, label)[InstanceFile] IN
                /\ i # Missing /\ i.joined = inst.joined /\ i.halted = inst.halted
                /\ i.phase = phase
  <2> DEFINE i == [inst EXCEPT !.phase = phase, !.label = label]
  <2>1. i # Missing /\ i.joined = inst.joined /\ i.halted = inst.halted /\ i.phase = phase
    BY <1>4, InstanceFields
  <2> HIDE DEF i
  <2>2. \A f \in Files : Write(U, InstanceFile, i)[f] = IF f = InstanceFile THEN i ELSE U[f]
    BY <1>9, WriteIs
  <2>3. Moved(U, phase, label) = Write(U, InstanceFile, i)
    BY DEF i
  <2> QED
    BY <2>1, <2>2, <2>3, FilesAre
<1> HIDE DEF Decided, Moved
\* What the decision leaves on the branch.
<1>10. ASSUME NEW T, r.store = T, ~r.runs, StandsAt(S, a),
              \A f \in Files : f # InstanceFile /\ f # NodeFile(a) => T[f] = S[f],
              NEW i, T[InstanceFile] = i, i # Missing, i.joined = inst.joined, i.halted = inst.halted,
              T[NodeFile(a)] # Missing
       PROVE  /\ r.emit = {} /\ i.phase = inst.phase => Moves(S, r, <<>>)
              /\ \A id \in ChildIds(<<>>) :
                   T[NodeFile(a)].gate \notin {"open", "changes_requested"}
                     /\ r.emit = {Continue(<<id>>)} /\ i.phase = id => Moves(S, r, <<>>)
  <2>1. T[NodeFile(a)].gate \notin {"open", "changes_requested"} => ~Waits(T, a)
    BY <1>3, <1>4, <1>10 DEF Waits
  <2> HIDE DEF a
  <2> QED
    BY <1>3, <1>4, <1>10, <2>1, RootGoes
<1> HIDE DEF a, file, inst
<1>11. CASE /\ decision = "approve" /\ next # None
            /\ r = Pushes(Moved(Decided("approved", file.state), next, next), {Continue(<<next>>)})
  <2> DEFINE D == Decided("approved", file.state)
             T == Moved(D, next, next)
  <2>1. next \in ChildIds(<<>>)
    BY <1>4, <1>11, NextIsSibling
  <2> HIDE DEF next
  <2>2. /\ DOMAIN D = Files /\ D[NodeFile(a)] # Missing /\ D[NodeFile(a)].gate = "approved"
        /\ \A f \in Files : f # NodeFile(a) => D[f] = S[f]
    BY <1>8
  <2> HIDE DEF D
  <2>3. /\ \A f \in Files : f # InstanceFile => T[f] = D[f]
        /\ T[InstanceFile] # Missing /\ T[InstanceFile].joined = inst.joined
        /\ T[InstanceFile].halted = inst.halted /\ T[InstanceFile].phase = next
    BY <1>9, <2>1, <2>2
  <2> HIDE DEF T
  <2>4. r.store = T /\ ~r.runs /\ r.emit = {Continue(<<next>>)}
    BY <1>11, ResultIs DEF T, D
  <2>5. T[NodeFile(a)] # Missing /\ T[NodeFile(a)].gate = "approved"
        /\ \A f \in Files : f # InstanceFile /\ f # NodeFile(a) => T[f] = S[f]
    BY <1>5, <2>2, <2>3
  <2>6. StandsAt(S, a) => Moves(S, r, <<>>)
    BY <1>10, <2>1, <2>3, <2>4, <2>5
  <2> QED
    BY <1>3, <1>4, <1>7, <2>6 DEF Ends
<1>12. ASSUME NEW gate, NEW state, NEW label, NEW c,
              r = Concludes(Moved(Decided(gate, state), inst.phase, label), c, {})
       PROVE  StandsAt(S, a) => Moves(S, r, <<>>)
  <2> DEFINE D == Decided(gate, state)
             T == Moved(D, inst.phase, label)
  <2>2. /\ DOMAIN D = Files /\ D[NodeFile(a)] # Missing
        /\ \A f \in Files : f # NodeFile(a) => D[f] = S[f]
    BY <1>8
  <2> HIDE DEF D
  <2>3. /\ \A f \in Files : f # InstanceFile => T[f] = D[f]
        /\ T[InstanceFile] # Missing /\ T[InstanceFile].joined = inst.joined
        /\ T[InstanceFile].halted = inst.halted /\ T[InstanceFile].phase = inst.phase
    BY <1>4, <1>9, <2>2
  <2> HIDE DEF T
  <2>4. r = Concludes(T, c, {})
    BY <1>12 DEF T, D
  <2>5. r.store = T /\ ~r.runs /\ r.emit = {}
    BY <2>4 DEF Concludes, Tells, Result
  <2>6. T[NodeFile(a)] # Missing /\ \A f \in Files : f # InstanceFile /\ f # NodeFile(a) => T[f] = S[f]
    BY <1>5, <2>2, <2>3
  <2> QED
    BY <1>10, <2>3, <2>5, <2>6
<1>13. CASE r = Tells(Pushes(Decided("changes_requested", file.state), {}))
  <2> DEFINE T == Decided("changes_requested", file.state)
  <2>2. /\ T[NodeFile(a)] # Missing
        /\ \A f \in Files : f # NodeFile(a) => T[f] = S[f]
    BY <1>8
  <2> HIDE DEF T
  <2>3. r.store = T /\ ~r.runs /\ r.emit = {}
    BY <1>13, ResultIs DEF T
  <2>4. T[InstanceFile] = inst
    BY <1>5, <2>2, FilesAre DEF inst
  <2>5. inst # Missing
    BY <1>3
  <2>6. StandsAt(S, a) => Moves(S, r, <<>>)
    BY <1>10, <2>2, <2>3, <2>4, <2>5
  <2> QED
    BY <1>3, <1>4, <1>7, <2>6 DEF Ends
<1>14. QED
  <2>1. CASE \E gate, state, label, c :
               r = Concludes(Moved(Decided(gate, state), inst.phase, label), c, {})
    BY <1>3, <1>4, <1>7, <1>12, <2>1 DEF Ends
  <2> QED
    BY <1>3, <1>5, <1>11, <1>13, <2>1

\* A result that edits an open gate of a leg, its answers and the leg's cursor, and
\* rests, ends the leg or goes on in it.
LEMMA GateGoes ==
  ASSUME GatesApart, NEW S, NEW p \in LegGates, StandsAt(S, p), NEW T, NEW r, r.store = T, ~r.runs,
         \A f \in Files : f \notin {AnswersFile(p), NodeFile(p), NodeFile(ParentPath(p))} => T[f] = S[f],
         NodeKind(ParentPath(p)) = "sequence", T[InstanceFile] = S[InstanceFile]
  PROVE  /\ T[NodeFile(ParentPath(p))] = S[NodeFile(ParentPath(p))] /\ r.emit = {}
              => Moves(S, r, Thread(p))
         /\ T[NodeFile(p)].gate = "answered" /\ r.emit = {FireJoin(p)} => Moves(S, r, Thread(p))
         /\ \A id \in ChildIds(ParentPath(p)) :
              /\ T[NodeFile(p)].gate = "answered" /\ Going(T, ParentPath(p))
              /\ r.emit = {Continue(Child(ParentPath(p), id))}
              => Moves(S, r, Thread(p))
<1> DEFINE t == Thread(p)
           W == {AnswersFile(p), NodeFile(p), NodeFile(ParentPath(p))}
<1>1. /\ p \in DOMAIN Tree \ {<<>>} /\ NodeKind(p) = "gate" /\ DOMAIN S = Files
      /\ S[InstanceFile] \in Instances /\ StoreOK(S) /\ S[InstanceFile] # Missing
  BY StandsIs DEF StandsAt, LegGates
<1>2. /\ t = ParentPath(p) /\ t # <<>> /\ IsLeg(t) /\ IsThread(t) /\ Going(S, t)
      /\ Above(t, t) /\ Above(t, p) /\ t \in DOMAIN Tree \ {<<>>} /\ NodeKind(t) = "sequence"
      /\ ParentPath(p) = t /\ p # t
  <2>1. ~IsLeg(p)
    BY <1>1, LegsKind
  <2>2. Thread(p) = ParentPath(p) /\ IsThread(t) /\ Above(t, p)
    BY <1>1, <2>1, ThreadIs
  <2>3. t # <<>>
    BY <2>2 DEF NodeKind, None
  <2>4. IsLeg(t) /\ Going(S, t)
    BY <2>3, StandsIs
  <2> QED
    BY <1>1, <2>2, <2>3, <2>4, ThreadsAre
<1>3. /\ \A f \in W : f \in Strays \/ Above(t, f[2])
      /\ \A q \in Units : NodeFile(q) \in W /\ HistoryOK(S, q) => HistoryOK(T, q)
      /\ \A q : NodeFile(q) \in W => q = p \/ q = t
      /\ \A q : JoinFile(q) \notin W
  <2>1. \A q \in Units : q # p /\ q # t
    BY <1>1, <1>2 DEF Units
  <2>2. \A q : NodeFile(q) \in W => q = p \/ q = t
    BY <1>2, FilePaths
  <2>3. \A q : JoinFile(q) \notin W
    BY FilePaths
  <2>4. \A f \in W : Above(t, f[2])
    BY <1>2, FilePaths
  <2> QED
    BY <2>1, <2>2, <2>3, <2>4
<1> HIDE DEF t, W
<1>4. \A f \in Files : f \notin W => T[f] = S[f]
  BY DEF W
<1>5. /\ Edits(S, T, t)
      /\ \A q \in Within(T, t) : \/ q \in Within(S, t)
                                 \/ NodeKind(q) = "gate" /\ NodeFile(q) \in W
                                 \/ q \in NestedFanouts /\ JoinFile(q) \in W
  BY <1>2, <1>3, <1>4, LegWrites DEF t
<1>6. Within(T, t) \subseteq {p}
  <2>1. Within(S, t) \subseteq {p}
    BY DEF StandsAt, t
  <2> QED
    BY <1>2, <1>3, <1>5, <2>1
<1>7. T[NodeFile(p)].gate = "answered" => Within(T, t) = {}
  <2> SUFFICES ASSUME T[NodeFile(p)].gate = "answered", p \in Within(T, t) PROVE FALSE
    BY <1>6
  <2>1. Waits(T, p)
    BY PlaceIs DEF Within
  <2>2. p # <<S[InstanceFile].halted>>
    BY <1>1, HaltedIs
  <2> QED
    BY <1>1, <2>1, <2>2 DEF Waits
<1>8. ASSUME T[NodeFile(t)] = S[NodeFile(t)], r.emit = {} PROVE Moves(S, r, t)
  <2>1. Admits(T, t, p)
    BY <1>1, <1>2, <1>8 DEF Admits, Going, Present, t
  <2> QED
    BY <1>2, <1>5, <1>6, <1>8, <2>1, MovesRest
<1>9. ASSUME T[NodeFile(p)].gate = "answered", r.emit = {FireJoin(p)} PROVE Moves(S, r, t)
  BY <1>1, <1>2, <1>5, <1>7, <1>9, MovesUp
<1>10. ASSUME NEW id \in ChildIds(t), T[NodeFile(p)].gate = "answered", Going(T, t),
              r.emit = {Continue(Child(t, id))}
       PROVE  Moves(S, r, t)
  <2> DEFINE q == Child(t, id)
  <2>1. q \in DOMAIN Tree \ {<<>>} /\ Thread(q) = t
    BY <1>2, SiblingIs
  <2> HIDE DEF q
  <2>2. Admits(T, t, q)
    BY <1>2, <1>10, <2>1 DEF Admits
  <2>3. r.emit = {Continue(q)}
    BY <1>10 DEF q
  <2> QED
    BY <1>2, <1>5, <1>7, <1>10, <2>2, <2>3, MovesOn
<1>11. QED
  BY <1>2, <1>8, <1>9, <1>10 DEF t

\* Answers to the gate a leg waits at.
LEMMA AnswerEnds ==
  ASSUME GatesApart, NEW S, StoreOK(S), S[InstanceFile] # Missing, NEW said,
         NEW r \in Answer(S, said), r.push
  PROVE  Ends(S, r, RootGroup)
<1> DEFINE p == FindOpenGate(S, said.branch)
           leg == ParentPath(p)
           next == NextSibling(p)
           v == S[NodeFile(p)]
           questions == v.questions
           answered == AllAnswers(S, p, said)
           A == Answers(questions, answered)
           T == Write(S, AnswersFile(p), A)
           w(gate) == [v EXCEPT !.gate = gate, !.history = Append(@, said.answered)]
           U(gate) == Write(T, NodeFile(p), w(gate))
<1>1. p # <<>>
  <2>1. ~Quiet(S).push
    BY DEF Quiet, Result
  <2>2. p = <<>> => r = Quiet(S)
    BY DEF Answer
  <2> HIDE DEF p
  <2> QED
    BY <2>1, <2>2
<1>2. p \in OpenGates(S, said.branch)
  BY <1>1 DEF FindOpenGate
<1>3. \/ ~Covers(questions, answered) /\ r = Pushes(U("open"), {})
      \/ /\ next # None
         /\ r = Pushes(Write(U("answered"), NodeFile(leg), Cursor(LifeState(p), next)),
                       {Continue(Child(leg, next))})
      \/ r = Pushes(Write(U("answered"), NodeFile(leg), [S[NodeFile(leg)] EXCEPT !.state = "done"]),
                    {FireJoin(p)})
  BY <1>1 DEF Answer
<1> HIDE DEF p
<1>4. /\ p \in LegGates /\ p \in DOMAIN Tree \ {<<>>} /\ NodeKind(p) = "gate" /\ ~IsRootChild(p)
      /\ NodeKind(leg) = "sequence" /\ leg \in DOMAIN Tree \ {<<>>}
      /\ v # Missing /\ S[NodeFile(leg)] # Missing
      /\ v.gate = "open" /\ DOMAIN v = GateFields
      /\ leg # p
  <2>1. /\ p \in LegGates /\ p \in DOMAIN Tree /\ NodeKind(p) = "gate" /\ ~IsRootChild(p)
        /\ NodeKind(leg) = "sequence" /\ leg \in DOMAIN Tree
        /\ v # Missing /\ S[NodeFile(leg)] # Missing
    BY <1>2, OpenGatesAre
  <2>2. NodeFile(p) \in DOMAIN S
    BY <2>1, FilesAre DEF StoreOK
  <2>3. v.gate = "open"
    BY <1>2, <2>2 DEF OpenGates
  <2>4. DOMAIN v = GateFields
    BY <2>1, NodeValue DEF NodeOK
  <2>5. leg # <<>>
    BY <2>1 DEF NodeKind, None
  <2> QED
    BY <1>1, <2>1, <2>3, <2>4, <2>5
<1>5. /\ NodeFile(p) \in Files /\ NodeFile(leg) \in Files /\ AnswersFile(p) \in Files
      /\ NodeFile(p) # NodeFile(leg) /\ NodeFile(p) # AnswersFile(p) /\ NodeFile(leg) # AnswersFile(p)
      /\ InstanceFile \in Files /\ InstanceFile # NodeFile(p) /\ InstanceFile # NodeFile(leg)
      /\ InstanceFile # AnswersFile(p) /\ DOMAIN S = Files
  BY <1>4, FilesAre, FilePaths, NotTheInstance DEF StoreOK
<1>6. Waits(S, p) /\ PlaceGroup(p) = RootGroup
  BY <1>4 DEF Waits, PlaceGroup, Present
<1> HIDE DEF leg
<1>7. ASSUME NEW gate
      PROVE  /\ DOMAIN U(gate) = Files /\ U(gate)[NodeFile(p)].gate = gate
             /\ \A f \in Files : f # AnswersFile(p) /\ f # NodeFile(p) => U(gate)[f] = S[f]
  <2>1. w(gate).gate = gate
    <3> DEFINE history == Append(v.history, said.answered)
    <3>1. w(gate) = [v EXCEPT !.gate = gate, !.history = history]
      OBVIOUS
    <3> HIDE DEF history, v
    <3> QED
      BY <1>4, <3>1 DEF GateFields
  <2> HIDE DEF w, A
  <2>2. DOMAIN T = Files /\ \A f \in Files : T[f] = IF f = AnswersFile(p) THEN A ELSE S[f]
    BY <1>5, WriteIs
  <2> HIDE DEF T
  <2>3. DOMAIN U(gate) = Files /\ \A f \in Files : U(gate)[f] = IF f = NodeFile(p) THEN w(gate) ELSE T[f]
    BY <2>2, WriteIs
  <2> HIDE DEF U
  <2> QED
    BY <1>5, <2>1, <2>2, <2>3
<1> HIDE DEF U, T, w, A, questions, answered
<1>8. ASSUME NEW c
      PROVE  LET V == Write(U("answered"), NodeFile(leg), c) IN
             /\ V[NodeFile(leg)] = c /\ V[NodeFile(p)].gate = "answered"
             /\ \A f \in Files : f \notin {AnswersFile(p), NodeFile(p), NodeFile(leg)} => V[f] = S[f]
             /\ V[InstanceFile] = S[InstanceFile]
  BY <1>5, <1>7, WriteIs
<1>9. SUFFICES ASSUME StandsAt(S, p) PROVE Moves(S, r, Thread(p))
  BY <1>4, <1>6 DEF Ends
<1>10. CASE r = Pushes(U("open"), {})
  <2>1. r.store = U("open") /\ ~r.runs /\ r.emit = {}
    BY <1>10, ResultIs
  <2>2. /\ \A f \in Files : f \notin {AnswersFile(p), NodeFile(p), NodeFile(leg)} => U("open")[f] = S[f]
        /\ U("open")[NodeFile(leg)] = S[NodeFile(leg)] /\ U("open")[InstanceFile] = S[InstanceFile]
    BY <1>5, <1>7
  <2> QED
    BY <1>4, <1>9, <2>1, <2>2, GateGoes DEF leg
<1>11. CASE /\ next # None
            /\ r = Pushes(Write(U("answered"), NodeFile(leg), Cursor(LifeState(p), next)),
                          {Continue(Child(leg, next))})
  <2> DEFINE c == Cursor(LifeState(p), next)
             V == Write(U("answered"), NodeFile(leg), c)
  <2>1. next \in ChildIds(leg)
    BY <1>4, <1>11, NextIsSibling DEF leg
  <2>2. c # Missing /\ c.state \notin Terminal
    <3>1. DOMAIN c = {"state", "sub_state"} /\ c.state = LifeState(p)
      BY DEF Cursor
    <3>2. LifeState(p) \notin Terminal
      BY <1>4, InFlight DEF leg
    <3> HIDE DEF c
    <3> QED
      BY <3>1, <3>2, InstanceFields
  <2> HIDE DEF c, next
  <2>3. /\ V[NodeFile(leg)] = c /\ V[NodeFile(p)].gate = "answered"
        /\ \A f \in Files : f \notin {AnswersFile(p), NodeFile(p), NodeFile(leg)} => V[f] = S[f]
        /\ V[InstanceFile] = S[InstanceFile]
    BY <1>8
  <2> HIDE DEF V
  <2>4. r.store = V /\ ~r.runs /\ r.emit = {Continue(Child(leg, next))}
    BY <1>11, ResultIs DEF V, c
  <2>5. Going(V, leg)
    BY <2>2, <2>3 DEF Going, Present
  <2> QED
    BY <1>4, <1>9, <2>1, <2>3, <2>4, <2>5, GateGoes DEF leg
<1>12. CASE r = Pushes(Write(U("answered"), NodeFile(leg), [S[NodeFile(leg)] EXCEPT !.state = "done"]),
                       {FireJoin(p)})
  <2> DEFINE c == [S[NodeFile(leg)] EXCEPT !.state = "done"]
             V == Write(U("answered"), NodeFile(leg), c)
  <2> HIDE DEF c
  <2>3. /\ V[NodeFile(leg)] = c /\ V[NodeFile(p)].gate = "answered"
        /\ \A f \in Files : f \notin {AnswersFile(p), NodeFile(p), NodeFile(leg)} => V[f] = S[f]
        /\ V[InstanceFile] = S[InstanceFile]
    BY <1>8
  <2> HIDE DEF V
  <2>4. r.store = V /\ ~r.runs /\ r.emit = {FireJoin(p)}
    BY <1>12, ResultIs DEF V, c
  <2> QED
    BY <1>4, <1>9, <2>3, <2>4, GateGoes DEF leg
<1>13. QED
  BY <1>3, <1>10, <1>11, <1>12

LEMMA Least ==
  ASSUME NEW I \in SUBSET Nat, I # {}
  PROVE  \E m \in I : \A k \in I : m <= k
<1> DEFINE R == OpToRel(<, Nat)
<1>1. IsWellFoundedOn(R, Nat)
  BY NatLessThanWellFounded
<1>2. \A k, m \in Nat : <<k, m>> \in R <=> k < m
  BY DEF OpToRel
<1> HIDE DEF R
<1>3. PICK m \in I : \A k \in I : ~(<<k, m>> \in R)
  BY <1>1, WFMin
<1>4. \A k \in I : ~(k < m)
  BY <1>2, <1>3
<1>5. \A k \in I : m <= k
  BY <1>4
<1> QED
  BY <1>5

\* A list has finitely many ids.
LEMMA ChildIdsFinite ==
  ASSUME NEW p \in DOMAIN Tree
  PROVE  IsFiniteSet(ChildIds(p))
<1>1. Children(p) \in Seq(STRING)
  <2>1. CASE Tree[p].kind \in Containers
    BY <2>1, TreeAssumption DEF Children
  <2>2. CASE Tree[p].kind \notin Containers
    BY <2>2 DEF Children
  <2> QED
    BY <2>1, <2>2
<1>2. DOMAIN Children(p) = 1 .. Len(Children(p)) /\ Len(Children(p)) \in Nat
  BY <1>1
<1>3. IsFiniteSet(1 .. Len(Children(p)))
  BY <1>2, FS_Interval
<1>4. Children(p) \in Surjection(1 .. Len(Children(p)), ChildIds(p))
  BY <1>1, <1>2 DEF ChildIds, Surjection
<1>5. QED
  BY <1>3, <1>4, FS_Surjection

\* The fan-out at the cursor is the current one.
LEMMA CurrentIs ==
  ASSUME NEW id \in FanoutIds
  PROVE  CurrentFanout(id) = <<id>>
<1>1. id \in ChildIds(<<>>) /\ NodeKind(<<id>>) = "fanout" /\ FanoutIds \subseteq PhaseIds
      /\ PhaseIds \subseteq ChildIds(<<>>)
  BY DEF FanoutIds, PhaseIds
<1>2. CASE IsMultiphase
  BY <1>1, <1>2 DEF CurrentFanout
<1>3. CASE ~IsMultiphase
  <2>1. IsFiniteSet(PhaseIds)
    <3>1. IsFiniteSet(ChildIds(<<>>))
      BY TreeAssumption, ChildIdsFinite
    <3> QED
      BY <1>1, <3>1, FS_Subset
  <2>2. Cardinality(PhaseIds) \in Nat /\ ~(Cardinality(PhaseIds) > 1)
    BY <1>3, <2>1, FS_CardinalityType DEF IsMultiphase
  <2>3. \A x \in FanoutIds : x = id
    <3> SUFFICES ASSUME NEW x \in FanoutIds, x # id PROVE FALSE
      OBVIOUS
    <3>1. {x, id} \in SUBSET PhaseIds
      BY <1>1
    <3>2. Cardinality({x, id}) <= Cardinality(PhaseIds)
      BY <2>1, <3>1, FS_Subset
    <3>3. IsFiniteSet({x}) /\ Cardinality({x}) = 1
      BY FS_Singleton
    <3>4. Cardinality({x} \union {id}) = 1 + 1
      BY <3>3, FS_AddElement
    <3>5. {x} \union {id} = {x, id}
      OBVIOUS
    <3> QED
      BY <2>2, <3>2, <3>4, <3>5
  <2> DEFINE I == {i \in DOMAIN RootIds : RootIds[i] \in FanoutIds}
  <2>4. RootIds \in Seq(STRING) /\ DOMAIN RootIds = 1 .. Len(RootIds) /\ Len(RootIds) \in Nat
    <3>1. RootIds \in Seq(STRING)
      <4>1. <<>> \in DOMAIN Tree
        BY TreeAssumption
      <4> QED
        BY <4>1, TreeAssumption DEF RootIds, Children
    <3> QED
      BY <3>1
  <2>5. I # {} /\ I \in SUBSET Nat
    <3>1. PICK i \in DOMAIN RootIds : RootIds[i] = id
      BY <1>1 DEF ChildIds, RootIds
    <3> QED
      BY <2>4, <3>1
  <2>6. PICK m \in I : \A k \in I : m <= k
    BY <2>5, Least
  <2>7. /\ m \in DOMAIN RootIds /\ RootIds[m] \in FanoutIds
        /\ \A k \in 1 .. m - 1 : RootIds[k] \notin FanoutIds
    <3>1. \A k \in 1 .. m - 1 : k \in DOMAIN RootIds /\ ~(m <= k)
      BY <2>4, <2>6
    <3> QED
      BY <2>6, <3>1
  <2> DEFINE c == CHOOSE i \in DOMAIN RootIds :
                   /\ RootIds[i] \in FanoutIds
                   /\ \A k \in 1 .. i - 1 : RootIds[k] \notin FanoutIds
  <2>8. RootIds[c] \in FanoutIds
    BY <2>7
  <2>9. CurrentFanout(id) = <<RootIds[c]>>
    BY <1>3 DEF CurrentFanout
  <2> HIDE DEF c
  <2> QED
    BY <2>3, <2>8, <2>9
<1>4. QED
  BY <1>2, <1>3

\* The join of a nested fan-out moves the leg around it on, or ends it.
LEMMA NestedJoinEnds ==
  ASSUME GatesApart, NEW S, StoreOK(S), S[InstanceFile] # Missing, NEW p \in NestedFanouts,
         S[JoinFile(p)] # Missing, NEW r, r = NestedJoin(S, p), r.push
  PROVE  Ends(S, r, <<"join", p>>)
<1> DEFINE leg == ParentPath(p)
           joins == JoinsOver(leg, LastId(p))
           policy == IF joins = <<>> THEN AllPolicy ELSE Tree[joins[1]].policy
           next == IF joins = <<>> THEN None ELSE Tree[joins[1]].next
           cursor == IF S[NodeFile(leg)] = Missing THEN Cursor(None, None) ELSE S[NodeFile(leg)]
           Joined(failed, newCursor) ==
             Write(Write(S, JoinFile(p), Marker(TRUE, failed)), NodeFile(leg), newCursor)
           met == PolicyMet(S, p, p, policy)
<1>1. r # Quiet(S)
  BY DEF Quiet, Result
<1>2. /\ ~S[JoinFile(p)].joined /\ AllTerminal(S, p, p)
      /\ \/ r = Pushes(Joined(TRUE, [cursor EXCEPT !.state = "failed"]), {FireJoin(leg)})
         \/ /\ next # None
            /\ r = Pushes(Joined(FALSE, Cursor(EnclosingFanoutId(leg), next)), {Continue(Child(leg, next))})
         \/ r = Pushes(Joined(FALSE, [cursor EXCEPT !.state = "done"]), {FireJoin(leg)})
  <2>1. NestedJoin(S, p) =
          IF (S[JoinFile(p)] # Missing /\ S[JoinFile(p)].joined) \/ ~AllTerminal(S, p, p)
          THEN Quiet(S)
          ELSE CASE ~met ->
                     Pushes(Joined(TRUE, [cursor EXCEPT !.state = "failed"]), {FireJoin(leg)})
                 [] met /\ next # None ->
                     Pushes(Joined(FALSE, Cursor(EnclosingFanoutId(leg), next)),
                            {Continue(Child(leg, next))})
                 [] met /\ next = None ->
                     Pushes(Joined(FALSE, [cursor EXCEPT !.state = "done"]), {FireJoin(leg)})
    BY DEF NestedJoin
  <2> DEFINE c1 == Pushes(Joined(TRUE, [cursor EXCEPT !.state = "failed"]), {FireJoin(leg)})
             c2 == Pushes(Joined(FALSE, Cursor(EnclosingFanoutId(leg), next)), {Continue(Child(leg, next))})
             c3 == Pushes(Joined(FALSE, [cursor EXCEPT !.state = "done"]), {FireJoin(leg)})
  <2>2. NestedJoin(S, p) =
          IF (S[JoinFile(p)] # Missing /\ S[JoinFile(p)].joined) \/ ~AllTerminal(S, p, p)
          THEN Quiet(S)
          ELSE CASE ~met -> c1 [] met /\ next # None -> c2 [] met /\ next = None -> c3
    BY <2>1
  <2> HIDE DEF c1, c2, c3, met, next
  <2>3. /\ ~(S[JoinFile(p)].joined \/ ~AllTerminal(S, p, p))
        /\ r = c1 \/ (next # None /\ r = c2) \/ r = c3
    BY <1>1, <2>2
  <2> QED
    BY <2>3 DEF c1, c2, c3
<1>3. /\ p \in DOMAIN Tree \ {<<>>} /\ NodeKind(p) = "fanout" /\ ~IsRootChild(p) /\ Len(p) > 1
      /\ leg \in DOMAIN Tree \ {<<>>} /\ NodeKind(leg) = "sequence" /\ p # leg
      /\ Thread(p) = leg /\ IsLeg(leg) /\ Above(leg, leg) /\ Above(leg, p) /\ IsThread(leg)
      /\ ParentPath(p) = leg
  <2>1. p \in DOMAIN Tree \ {<<>>} /\ NodeKind(p) = "fanout" /\ ~IsRootChild(p)
    BY DEF NestedFanouts, NodeKind, None
  <2>2. Len(p) # 1 /\ Len(p) > 1
    BY <2>1, LongFanouts DEF IsRootChild
  <2>3. NodeKind(leg) = "sequence"
    BY <2>1, <2>2, InSubPipeline
  <2>4. ~IsLeg(p)
    BY <2>1, LegsKind
  <2>5. Thread(p) = leg /\ Above(leg, p) /\ IsThread(leg)
    BY <2>1, <2>4, ThreadIs
  <2>6. leg # <<>>
    BY <2>3 DEF NodeKind, None
  <2>7. IsLeg(leg) /\ leg \in DOMAIN Tree \ {<<>>} /\ Above(leg, leg)
    BY <2>5, <2>6, ThreadsAre
  <2> QED
    BY <2>1, <2>2, <2>3, <2>5, <2>7
<1>4. next # None => next \in ChildIds(leg)
  <2>1. joins # <<>> => Tree[joins[1]].next \in ChildIds(leg) \union {None}
    BY NamesAssumption
  <2> QED
    BY <2>1
<1>5. Waits(S, p) /\ PlaceGroup(p) = <<"join", p>>
  BY <1>2, <1>3 DEF Waits, PlaceGroup
<1>6. DOMAIN S = Files /\ JoinFile(p) \in Files /\ NodeFile(leg) \in Files
      /\ JoinFile(p) # NodeFile(leg) /\ JoinFile(p) # InstanceFile /\ NodeFile(leg) # InstanceFile
      /\ InstanceFile \in Files
  BY <1>3, FilesAre, FilePaths, NotTheInstance DEF StoreOK
<1> HIDE DEF leg, next, cursor
<1>7. ASSUME NEW failed, NEW c
      PROVE  LET V == Joined(failed, c) IN
             /\ V[NodeFile(leg)] = c /\ V[JoinFile(p)].joined
             /\ \A f \in Files : f \notin {JoinFile(p), NodeFile(leg)} => V[f] = S[f]
             /\ V[InstanceFile] = S[InstanceFile]
  <2> DEFINE m == Marker(TRUE, failed)
             T == Write(S, JoinFile(p), m)
             V == Joined(failed, c)
  <2>1. m.joined
    BY DEF Marker
  <2> HIDE DEF m
  <2>2. DOMAIN T = Files /\ \A f \in Files : T[f] = IF f = JoinFile(p) THEN m ELSE S[f]
    BY <1>6, WriteIs
  <2> HIDE DEF T
  <2>3. \A f \in Files : Write(T, NodeFile(leg), c)[f] = IF f = NodeFile(leg) THEN c ELSE T[f]
    BY <2>2, WriteIs
  <2>4. V = Write(T, NodeFile(leg), c)
    BY DEF T, m
  <2> HIDE DEF V
  <2>5. /\ V[NodeFile(leg)] = c /\ V[JoinFile(p)].joined
        /\ \A f \in Files : f \notin {JoinFile(p), NodeFile(leg)} => V[f] = S[f]
        /\ V[InstanceFile] = S[InstanceFile]
    BY <1>6, <2>1, <2>2, <2>3, <2>4
  <2> QED
    BY <2>5 DEF V
<1>8. SUFFICES ASSUME StandsAt(S, p) PROVE Moves(S, r, leg)
  BY <1>2, <1>3, <1>5 DEF Ends
<1>9. ASSUME NEW V, V[JoinFile(p)].joined,
             \A f \in Files : f \notin {JoinFile(p), NodeFile(leg)} => V[f] = S[f],
             V[InstanceFile] = S[InstanceFile]
      PROVE  Edits(S, V, leg) /\ Within(V, leg) = {}
  <2> DEFINE W == {JoinFile(p), NodeFile(leg)}
  <2>1. /\ \A f \in W : f \in Strays \/ Above(leg, f[2])
        /\ \A q \in Units : NodeFile(q) \notin W
        /\ \A q : NodeFile(q) \in W => q = leg
        /\ \A q : JoinFile(q) \in W => q = p
    <3>1. \A q \in Units : q # leg
      BY <1>3 DEF Units
    <3>2. \A q : NodeFile(q) \in W => q = leg
      BY FilePaths
    <3> QED
      BY <1>3, <3>1, <3>2, FilePaths
  <2>2. \A f \in Files : f \notin W => V[f] = S[f]
    BY <1>9
  <2> HIDE DEF W
  <2>3. /\ Edits(S, V, leg)
        /\ \A q \in Within(V, leg) : \/ q \in Within(S, leg)
                                     \/ NodeKind(q) = "gate" /\ NodeFile(q) \in W
                                     \/ q \in NestedFanouts /\ JoinFile(q) \in W
    BY <1>3, <1>8, <2>1, <2>2, LegWrites DEF IsLeg
  <2>4. Within(S, leg) \subseteq {p}
    BY <1>3, <1>8 DEF StandsAt
  <2>5. \A q \in Within(V, leg) : q = p
    BY <1>3, <2>1, <2>3, <2>4
  <2>6. ~Waits(V, p)
    <3>1. p # <<S[InstanceFile].halted>>
      BY <1>3, HaltedIs
    <3> QED
      BY <1>3, <1>9, <3>1 DEF Waits
  <2> QED
    BY <2>3, <2>5, <2>6, PlaceIs DEF Within
<1> HIDE DEF Joined
<1>10. ASSUME NEW failed, NEW c, r = Pushes(Joined(failed, c), {FireJoin(leg)})
       PROVE  Moves(S, r, leg)
  <2> DEFINE V == Joined(failed, c)
  <2>1. /\ V[JoinFile(p)].joined
        /\ \A f \in Files : f \notin {JoinFile(p), NodeFile(leg)} => V[f] = S[f]
        /\ V[InstanceFile] = S[InstanceFile]
    BY <1>7
  <2> HIDE DEF V
  <2>2. r.store = V /\ ~r.runs /\ r.emit = {FireJoin(leg)}
    BY <1>10, ResultIs DEF V
  <2>3. Edits(S, V, leg) /\ Within(V, leg) = {}
    BY <1>9, <2>1
  <2> QED
    BY <1>3, <2>2, <2>3, MovesUp
<1>11. CASE next # None
            /\ r = Pushes(Joined(FALSE, Cursor(EnclosingFanoutId(leg), next)), {Continue(Child(leg, next))})
  <2> DEFINE c == Cursor(EnclosingFanoutId(leg), next)
             V == Joined(FALSE, c)
             q == Child(leg, next)
  <2>1. q \in DOMAIN Tree \ {<<>>} /\ Thread(q) = leg
    BY <1>3, <1>4, <1>11, SiblingIs
  <2>2. c # Missing /\ c.state \notin Terminal
    <3>1. DOMAIN c = {"state", "sub_state"} /\ c.state = EnclosingFanoutId(leg)
      BY DEF Cursor
    <3> HIDE DEF c
    <3> QED
      BY <1>3, <3>1, InFlight, InstanceFields
  <2> HIDE DEF c, q
  <2>3. /\ V[NodeFile(leg)] = c /\ V[JoinFile(p)].joined
        /\ \A f \in Files : f \notin {JoinFile(p), NodeFile(leg)} => V[f] = S[f]
        /\ V[InstanceFile] = S[InstanceFile]
    BY <1>7
  <2> HIDE DEF V
  <2>4. r.store = V /\ ~r.runs /\ r.emit = {Continue(q)}
    <3>1. r = Pushes(V, {Continue(q)})
      BY <1>11 DEF V, c, q
    <3> QED
      BY <3>1, ResultIs
  <2>5. Edits(S, V, leg) /\ Within(V, leg) = {}
    BY <1>9, <2>3
  <2>6. Admits(V, leg, q)
    BY <1>3, <2>1, <2>2, <2>3 DEF Admits, Going, Present
  <2> QED
    BY <1>3, <2>4, <2>5, <2>6, MovesOn
<1>12. QED
  <2>1. \/ \E failed, c : r = Pushes(Joined(failed, c), {FireJoin(leg)})
        \/ next # None
           /\ r = Pushes(Joined(FALSE, Cursor(EnclosingFanoutId(leg), next)), {Continue(Child(leg, next))})
    BY <1>2 DEF Joined
  <2> QED
    BY <1>10, <1>11, <2>1

\* The join of a root fan-out moves the root on, or ends the run.
LEMMA TopJoinEnds ==
  ASSUME NEW S, StoreOK(S), RootEntered(S), \A q \in Places(S) : Inside(S, q),
         NEW r, r = TopJoin(S), r.push
  PROVE  Ends(S, r, <<"join", <<>>>>)
<1> DEFINE inst == S[InstanceFile]
           p == CurrentFanout(inst.phase)
           prefix == IF IsMultiphase THEN <<inst.phase>> ELSE p
           over == JoinsOver(<<>>, LastId(p))
           joins == IF over # <<>> THEN over
                    ELSE SelectSeq([i \in DOMAIN RootIds |-> <<RootIds[i]>>],
                                   LAMBDA q : NodeKind(q) = "join")
           policy == IF joins = <<>> THEN AllPolicy ELSE Tree[joins[1]].policy
           next == IF joins = <<>> THEN None ELSE Tree[joins[1]].next
           met == PolicyMet(S, p, prefix, policy)
           Value(phase, label) == [inst EXCEPT !.joined = TRUE, !.phase = phase, !.label = label]
           Closed(phase, label) == Write(S, InstanceFile, Value(phase, label))
           c1 == Pushes(Closed(next, next), {Continue(<<next>>)})
           c2 == Concludes(Closed(inst.phase, "done"), "success", {})
           c3 == Concludes(Closed(inst.phase, "failed"), "failure", {})
<1>1. /\ inst # Missing /\ ~inst.joined /\ AllTerminal(S, p, prefix)
      /\ \/ next \in ChildIds(<<>>) /\ r = c1
         \/ r = c2
         \/ r = c3
  <2>1. TopJoin(S) =
          IF inst = Missing \/ inst.joined \/ ~AllTerminal(S, p, prefix) THEN Quiet(S)
          ELSE CASE met /\ next \in ChildIds(<<>>) -> c1
                 [] met /\ next \notin ChildIds(<<>>) -> c2
                 [] ~met -> c3
    BY DEF TopJoin
  <2> HIDE DEF c1, c2, c3, met, next, inst, p, prefix
  <2>2. ~Quiet(S).push
    BY DEF Quiet, Result
  <2> QED
    BY <2>1, <2>2
<1> HIDE DEF c1, c2, c3, met, next, over, joins, policy
<1>2. PICK a \in Places(S) : Len(a) = 1 /\ NodeKind(a) = "fanout"
  BY <1>1 DEF RootEntered
<1>3. a \in DOMAIN Tree \ {<<>>} /\ Waits(S, a) /\ a[1] = inst.phase /\ a \in Seq(STRING)
  BY <1>2, PlaceIs, TreeAssumption DEF Inside
<1>4. a = <<inst.phase>>
  <2> HIDE DEF inst
  <2> QED
    BY <1>2, <1>3
<1>5. inst \in Instances /\ inst.phase \in ChildIds(<<>>) /\ inst.phase \in FanoutIds
  <2>1. inst \in Instances /\ inst.phase \in ChildIds(<<>>)
    BY <1>1, InstanceValue, InstancesChange
  <2> QED
    BY <1>2, <1>4, <2>1 DEF FanoutIds
<1>6. p = a /\ prefix = a
  BY <1>4, <1>5, CurrentIs
<1>7. /\ Thread(a) = <<>> /\ a \notin Units /\ PlaceGroup(a) = <<"join", <<>>>>
      /\ AllTerminal(S, a, a) /\ DOMAIN S = Files
  <2>1. Thread(a) = <<>>
    BY <1>2, <1>3, ThreadIs
  <2>2. a \notin Units
    BY <1>2 DEF Units
  <2>3. ~(Len(a) > 1)
    BY <1>2
  <2> QED
    BY <1>1, <1>2, <1>6, <2>1, <2>2, <2>3 DEF PlaceGroup, StoreOK
<1> HIDE DEF p, prefix
<1>8. ASSUME NEW phase, NEW label
      PROVE  LET V == Closed(phase, label) IN
             /\ \A f \in Files : f # InstanceFile => V[f] = S[f]
             /\ V[InstanceFile] # Missing /\ V[InstanceFile].joined
             /\ V[InstanceFile].halted = inst.halted /\ V[InstanceFile].phase = phase
  <2> DEFINE i == Value(phase, label)
             V == Closed(phase, label)
  <2>1. i # Missing /\ i.joined /\ i.halted = inst.halted /\ i.phase = phase
    <3>1. DOMAIN i = DOMAIN inst /\ i.joined /\ i.halted = inst.halted /\ i.phase = phase
      BY <1>5, InstanceFields
    <3>2. "phase" \in DOMAIN inst /\ "phase" \notin DOMAIN Missing
      BY <1>5, InstanceFields
    <3> HIDE DEF i
    <3> QED
      BY <3>1, <3>2
  <2>2. V = Write(S, InstanceFile, i)
    OBVIOUS
  <2> HIDE DEF i, V
  <2>3. \A f \in Files : V[f] = IF f = InstanceFile THEN i ELSE S[f]
    BY <1>7, <2>2, WriteIs
  <2>4. InstanceFile \in Files
    BY FilesAre
  <2>5. /\ \A f \in Files : f # InstanceFile => V[f] = S[f]
        /\ V[InstanceFile] # Missing /\ V[InstanceFile].joined
        /\ V[InstanceFile].halted = inst.halted /\ V[InstanceFile].phase = phase
    BY <2>1, <2>3, <2>4
  <2> QED
    BY <2>5 DEF V
<1> HIDE DEF Closed
<1>9. SUFFICES ASSUME StandsAt(S, a) PROVE Moves(S, r, <<>>)
  BY <1>3, <1>7, <1>2 DEF Ends
<1>10. ASSUME NEW T, \A f \in Files : f # InstanceFile => T[f] = S[f],
              T[InstanceFile] # Missing, T[InstanceFile].joined,
              T[InstanceFile].halted = inst.halted
       PROVE  ~Waits(T, a)
  <2>1. a # <<T[InstanceFile].halted>>
    BY <1>1, <1>2, <1>3, <1>10, HaltedIs
  <2> QED
    BY <1>2, <1>10, <2>1 DEF Waits
<1>11. CASE next \in ChildIds(<<>>) /\ r = c1
  <2> DEFINE V == Closed(next, next)
  <2>1. /\ \A f \in Files : f # InstanceFile => V[f] = S[f]
        /\ V[InstanceFile] # Missing /\ V[InstanceFile].joined
        /\ V[InstanceFile].halted = inst.halted /\ V[InstanceFile].phase = next
    BY <1>8
  <2>2. r = Pushes(V, {Continue(<<next>>)})
    BY <1>11 DEF c1
  <2> HIDE DEF V
  <2>3. r.store = V /\ ~r.runs /\ r.emit = {Continue(<<next>>)}
    BY <2>2, ResultIs
  <2> QED
    BY <1>7, <1>9, <1>10, <1>11, <2>1, <2>3, RootGoes
<1>12. CASE r = c2 \/ r = c3
  <2>1. PICK label, c : r = Concludes(Closed(inst.phase, label), c, {})
    BY <1>12 DEF c2, c3
  <2> DEFINE V == Closed(inst.phase, label)
  <2>2. /\ \A f \in Files : f # InstanceFile => V[f] = S[f]
        /\ V[InstanceFile] # Missing /\ V[InstanceFile].joined
        /\ V[InstanceFile].halted = inst.halted /\ V[InstanceFile].phase = inst.phase
    BY <1>8
  <2>3. r = Concludes(V, c, {})
    BY <2>1
  <2> HIDE DEF V
  <2>4. r.store = V /\ ~r.runs /\ r.emit = {}
    BY <2>3 DEF Concludes, Tells, Result
  <2> QED
    BY <1>7, <1>9, <1>10, <2>2, <2>4, RootGoes
<1>13. QED
  BY <1>1, <1>11, <1>12

-----------------------------------------------------------------------------
(* The start. *)

\* The instance as a start finds and makes it: no file but its own, which stands at
\* the first root child.
Blank(S) == \A f \in Files : f # InstanceFile => S[f] = Missing

LEMMA BlankWaits ==
  ASSUME NEW S, Blank(S), StoreOK(S), S[InstanceFile] # Missing, S[InstanceFile].halted = None
  PROVE  Places(S) = {}
<1> SUFFICES ASSUME NEW q \in DOMAIN Tree \ {<<>>}, Waits(S, q) PROVE FALSE
  BY PlaceIs
<1>1. q # <<S[InstanceFile].halted>>
  BY HaltedIs
<1>2. CASE NodeKind(q) = "gate" /\ Present(S, q)
  BY <1>2, FilesAre, NotTheInstance DEF Present, Blank
<1>3. CASE NodeKind(q) = "fanout"
  <2>1. CASE Len(q) > 1
    <3>1. q \in NestedFanouts
      BY <1>3, <2>1, LongFanouts
    <3>2. S[JoinFile(q)] = Missing
      BY <3>1, FilesAre, NotTheInstance DEF Blank
    <3> QED
      BY <1>1, <1>3, <2>1, <3>2 DEF Waits
  <2>2. CASE ~(Len(q) > 1)
    <3>1. PICK l \in ChildIds(q) : Present(S, Child(q, l))
      BY <1>1, <1>3, <2>2 DEF Waits
    <3>2. NodeFile(Child(q, l)) \in Files
      BY <1>3, LeafIs
    <3> QED
      BY <3>1, <3>2, NotTheInstance DEF Present, Blank
  <2> QED
    BY <2>1, <2>2
<1>4. QED
  BY <1>1, <1>2, <1>3 DEF Waits

\* What a start makes of a blank branch is at nodes of the first phase.
LEMMA StartMoves ==
  ASSUME GatesApart, NEW S, StoreOK(S), \A f \in Files : S[f] = Missing,
         NEW r \in EnterRoot(S, "start")
  PROVE  Moves(S, r, <<>>) /\ (r.runs \/ r.emit = {})
<1> DEFINE first == RootIds[1]
           T == Write(Wiped(S), InstanceFile, NewInstance(first))
           p == <<first>>
<1>1. first \in ChildIds(<<>>)
  <2>1. RootIds # <<>> /\ RootIds \in Seq(STRING \ {None})
    BY NamesAssumption, TreeAssumption DEF RootIds, Children
  <2>2. 1 \in DOMAIN RootIds
    BY <2>1, EmptySeq, LenProperties
  <2> QED
    BY <2>2 DEF ChildIds, RootIds
<1>2. /\ p \in DOMAIN Tree \ {<<>>} /\ Thread(p) = <<>> /\ p[1] = first
      /\ ParentPath(p) = <<>> /\ Len(p) = 1
  BY <1>1, RootChildIs
<1>3. r \in Enter(T, p, "start")
  BY DEF EnterRoot
<1>4. /\ NewInstance(first) \in Instances /\ NewInstance(first).phase = first
      /\ NewInstance(first).halted = None /\ NewInstance(first) # Missing
      /\ ~NewInstance(first).joined
  <2>1. NewInstance(first) \in Instances
    BY <1>1 DEF NewInstance, Instances
  <2>2. /\ NewInstance(first).phase = first /\ NewInstance(first).halted = None
        /\ ~NewInstance(first).joined
    BY DEF NewInstance
  <2> QED
    BY <2>1, <2>2, InstanceFields
<1>5. /\ DOMAIN T = Files /\ \A f \in Files : f # InstanceFile => T[f] = Missing
      /\ T[InstanceFile] = NewInstance(first)
  <2>1. DOMAIN Wiped(S) = Files /\ \A f \in Files : Wiped(S)[f] = Missing
    BY DEF Wiped, StoreOK
  <2> HIDE DEF T
  <2>2. \A f \in Files : T[f] = IF f = InstanceFile THEN NewInstance(first) ELSE Wiped(S)[f]
    BY <2>1, WriteIs DEF T
  <2>3. DOMAIN T = Files
    BY <2>1, WriteIs DEF T
  <2> QED
    BY <2>1, <2>2, <2>3, FilesAre
<1> HIDE DEF T, first, p
<1>6. StoreOK(T) /\ Blank(T) /\ T[InstanceFile] # Missing
  <2>1. FileOK(InstanceFile, NewInstance(first))
    BY <1>4, FilePaths DEF FileOK, ValueOK
  <2> QED
    BY <1>4, <1>5, <2>1 DEF StoreOK, FileOK, Blank
<1>7. Places(T) = {}
  BY <1>4, <1>5, <1>6, BlankWaits
<1>8. StandsAt(T, p) /\ Within(T, <<>>) = {}
  <2>1. \A x \in DOMAIN Tree : IsLeg(x) => ~Above(x, p)
    <3> SUFFICES ASSUME NEW x, IsLeg(x), Above(x, p) PROVE FALSE
      OBVIOUS
    <3>1. Len(x) > 1 /\ Len(x) \in Nat /\ Len(x) <= Len(p)
      BY LegsParent DEF Above
    <3> QED
      BY <1>2, <3>1
  <2>2. Within(T, <<>>) = {}
    BY <1>7 DEF Within
  <2> QED
    BY <1>2, <1>4, <1>5, <1>6, <2>1, <2>2 DEF StandsAt, Inside
<1>9. Moves(T, r, <<>>)
  <2>1. ~Preserved(T, p, "start")
    BY DEF Preserved
  <2> QED
    BY <1>2, <1>3, <1>8, <2>1, EnterMoves
<1>10. \A q \in Units : ~Present(T, q)
  BY <1>5, FilesAre, NotTheInstance DEF Units, Present
<1>11. \A f \in Files : f \in Strays \/ Above(<<>>, f[2])
  BY FilesAt, AboveOrder
<1>12. ~RootEntered(S)
  BY FilesAre DEF RootEntered
<1>13. Moves(S, r, <<>>)
  <2>1. \A q \in Units : Above(<<>>, q) => HistoryOK(r.store, q)
    <3> SUFFICES ASSUME NEW q \in Units, Above(<<>>, q) PROVE HistoryOK(r.store, q)
      OBVIOUS
    <3>1. HistoryOK(T, q)
      BY <1>10 DEF HistoryOK
    <3> QED
      BY <1>9, <3>1 DEF Moves
  <2> QED
    BY <1>9, <1>11, <1>12, <2>1 DEF Moves
<1>14. QED
  BY <1>3, <1>13, EnterIs

\* The number of the comment moves nothing.
LEMMA NumberMoves ==
  ASSUME NEW S, NEW r, NEW q, Moves(S, r, <<>>), SameBut(r.store, q.store),
         q.runs = r.runs, q.legs = r.legs, q.emit = r.emit, r.legs \subseteq Units
  PROVE  Moves(S, q, <<>>)
<1> DEFINE T == r.store
           U == q.store
<1>1. /\ \A p : p \in Places(U) <=> p \in Places(T)
      /\ RootEntered(U) <=> RootEntered(T)
      /\ \A x : IsLeg(x) => (Expected(U, x) <=> Expected(T, x)) /\ (Going(U, x) <=> Going(T, x))
      /\ \A p \in Units : HistoryOK(U, p) <=> HistoryOK(T, p)
  BY SameReads
<1>2. \A p \in Units : U[NodeFile(p)] = T[NodeFile(p)]
  BY FilesAre, NotTheInstance DEF SameBut, Units
<1>3. Hands(q) = Hands(r) /\ Within(U, <<>>) = Within(T, <<>>)
  BY <1>1 DEF Hands, Within
<1>4. \A f \in Files : f \in Strays \/ Above(<<>>, f[2])
  BY FilesAt, AboveOrder
<1>5. T[InstanceFile] # Missing =>
        U[InstanceFile] # Missing /\ U[InstanceFile].phase = T[InstanceFile].phase
  BY DEF SameBut
<1> HIDE DEF T, U
<1>6. Moves(S, r, <<>>) => 
        /\ r.runs => \A p \in r.legs : Present(U, p) /\ U[NodeFile(p)].state = LifeState(p)
        /\ \A p \in Units : Above(<<>>, p) /\ HistoryOK(S, p) => HistoryOK(U, p)
        /\ RootEntered(S) => RootEntered(U)
  BY <1>1, <1>2 DEF Moves, T, Present
<1>7. \A p \in Hands(q) \union Within(U, <<>>) :
       /\ p \in DOMAIN Tree \ {<<>>} /\ Above(<<>>, p)
       /\ U[InstanceFile] # Missing /\ p[1] = U[InstanceFile].phase
       /\ \A x \in DOMAIN Tree : IsLeg(x) /\ Above(<<>>, x) /\ Above(x, p) =>
            Going(U, x) /\ (x # <<>> => Expected(U, x))
  BY <1>1, <1>3, <1>5 DEF Moves, T
<1>8. QED
  BY <1>3, <1>4, <1>6, <1>7 DEF Moves, T, U

-----------------------------------------------------------------------------
(* Scripts run. *)

\* A result whose update of the comment created it says of the threads what it said.
LEMMA NumberedSame ==
  ASSUME NEW S, NEW r, ResultOK(S, r), r.store[InstanceFile] # Missing, NEW n \in Nat
  PROVE  LET todo == [r EXCEPT !.store[InstanceFile].comment = n] IN
         /\ SameBut(r.store, todo.store)
         /\ todo.runs = r.runs /\ todo.legs = r.legs /\ todo.emit = r.emit /\ todo.push = r.push
<1> DEFINE todo == [r EXCEPT !.store[InstanceFile].comment = n]
           i == [r.store[InstanceFile] EXCEPT !.comment = n]
<1>1. StoreOK(r.store) /\ DOMAIN r = ResultFields /\ DOMAIN r.store = Files /\ InstanceFile \in Files
  BY FilesAre DEF ResultOK, StoreOK
<1>2. /\ todo.store = Write(r.store, InstanceFile, i)
      /\ todo.runs = r.runs /\ todo.legs = r.legs /\ todo.emit = r.emit /\ todo.push = r.push
  BY <1>1 DEF Write, ResultFields
<1>3. r.store[InstanceFile] \in Instances
  BY <1>1, InstanceValue
<1>4. /\ i # Missing /\ i.phase = r.store[InstanceFile].phase
      /\ i.joined = r.store[InstanceFile].joined /\ i.halted = r.store[InstanceFile].halted
  <2>1. /\ DOMAIN i = DOMAIN r.store[InstanceFile] /\ i.phase = r.store[InstanceFile].phase
        /\ i.joined = r.store[InstanceFile].joined /\ i.halted = r.store[InstanceFile].halted
    BY <1>3, InstanceFields
  <2>2. "phase" \in DOMAIN r.store[InstanceFile] /\ "phase" \notin DOMAIN Missing
    BY <1>3, InstanceFields
  <2> HIDE DEF i
  <2> QED
    BY <2>1, <2>2
<1> HIDE DEF todo, i
<1>5. SameBut(r.store, todo.store)
  <2>1. /\ DOMAIN todo.store = Files
        /\ \A f \in Files : todo.store[f] = IF f = InstanceFile THEN i ELSE r.store[f]
    BY <1>1, <1>2, WriteIs
  <2> QED
    BY <1>1, <1>4, <2>1 DEF SameBut
<1>6. QED
  BY <1>2, <1>5 DEF todo

\* Only the start creates the comment.
LEMMA NotCreated ==
  ASSUME EngineInv, CommentInv, used["start"] <= 1, used["redelivery"] = 0,
         NEW j \in jobs, j.stage = "ready", j.command # "start", NEW r \in Outcomes(store, j)
  PROVE  ~(r.tells /\ NeedsComment(r.store))
<1>1. StoreOK(store) /\ JobOK(j) /\ UntilStarted
  BY DEF EngineInv
<1>2. CASE ~HasComment
  BY <1>2 DEF HasComment, NeedsComment
<1>3. CASE HasComment /\ Untold
  <2>1. j.role = "plan" /\ j.command \in Replies
    BY <1>1, <1>3 DEF JobOK, Untold
  <2>2. r \in Plan(store, j.command, j.path, j.said)
    BY <2>1 DEF Outcomes
  <2>3. r = Quiet(store)
    <3>1. CASE Started
      BY <1>1, <1>3, <2>1, <2>2, <3>1, ReplyTooEarly DEF Untold
    <3>2. CASE ~Started
      BY <1>1, <2>1, <2>2, <3>2, BlankPlan DEF UntilStarted
    <3> QED
      BY <3>1, <3>2
  <2> QED
    BY <2>3 DEF Quiet, Result
<1>4. CASE HasComment /\ Told
  <2>1. CASE Started
    <3>1. CommentKept(store, r.store)
      BY <2>1, OutcomeComment
    <3>2. r.store[InstanceFile].comment # 0
      BY <1>4, <2>1, <3>1 DEF Told, Numbered, CommentKept, Started
    <3> QED
      BY <3>2 DEF NeedsComment
  <2>2. CASE ~Started
    <3>1. ResultOK(store, r) /\ ~r.push
      BY <2>2, OutcomesOK
    <3> QED
      BY <3>1 DEF ResultOK
  <2> QED
    BY <2>1, <2>2
<1>5. QED
  BY <1>2, <1>3, <1>4 DEF CommentInv

\* A script that pushes nothing does nothing, but for a `continue` onto a unit in
\* flight, which runs it.
LEMMA EnterPushes ==
  ASSUME NEW S, NEW p, NEW command, NEW r \in Enter(S, p, command), ~r.push
  PROVE  /\ NodeKind(p) = "agent" /\ Preserved(S, p, command)
         /\ r.runs /\ r.legs = {p} /\ r.emit = {}
<1>1. NodeKind(p) # "gate"
  <2> SUFFICES ASSUME NodeKind(p) = "gate" PROVE FALSE
    OBVIOUS
  <2>1. PICK e \in Entries(S, p, command) : r = Tells(Pushes(e.store, {}))
    BY DEF Enter
  <2> QED
    BY <2>1, ResultIs
<1>2. PICK e \in Entries(S, p, command) : r = Result(e.store, e.seeded, None, {}, TRUE, e.legs)
  BY <1>1 DEF Enter
<1>3. ~e.seeded /\ r.runs /\ r.legs = e.legs /\ r.emit = {}
  BY <1>2 DEF Result
<1>4. NodeKind(p) # "fanout"
  <2> SUFFICES ASSUME NodeKind(p) = "fanout" PROVE FALSE
    OBVIOUS
  <2>1. PICK L \in LegSets(p) :
          e = [store |-> EnterFanout(S, p, L), seeded |-> TRUE,
               legs |-> {LeafPath(p, l) : l \in L}]
    BY DEF Entries
  <2>2. e.seeded
    BY <2>1
  <2> QED
    BY <1>3, <2>2
<1>5. NodeKind(p) = "agent"
  BY <1>1, <1>4 DEF Entries
<1>6. e.seeded = ~Preserved(S, p, command) /\ e.legs = {p}
  BY <1>5 DEF Entries
<1>7. QED
  BY <1>3, <1>5, <1>6

LEMMA NotPushed ==
  ASSUME EngineInv, NEW j \in jobs, j.command # "start", NEW r \in Outcomes(store, j), ~r.push
  PROVE  \/ ~r.runs /\ r.emit = {}
         \/ /\ j.role = "plan" /\ j.command = "continue" /\ j.path \in Units
            /\ Preserved(store, j.path, "continue")
            /\ r.runs /\ r.legs = {j.path} /\ r.emit = {}
<1>1. StoreOK(store) /\ JobOK(j) /\ UntilStarted
  BY DEF EngineInv
<1>2. \A S : ~Quiet(S).runs /\ Quiet(S).emit = {}
  BY DEF Quiet, Result
<1>3. \A T, E : Pushes(T, E).push /\ Tells(Pushes(T, E)).push
  BY ResultIs
<1>4. \A T, c, E : Concludes(T, c, E).push
  BY DEF Concludes, Tells, Result
<1>5. CASE j.role = "plan"
  <2>1. r \in Plan(store, j.command, j.path, j.said)
        /\ j.command \in Replies \union {"continue"}
    BY <1>1, <1>5 DEF Outcomes, JobOK
  <2>2. CASE j.command = "override"
    <3>1. r \in Override(store)
      BY <2>1, <2>2 DEF Plan
    <3> QED
      BY <1>2, <1>3, <3>1 DEF Override
  <2>3. CASE j.command \in {"approve", "request-changes", "reject"}
    <3>1. r \in ResolveGate(store, j.command, j.said)
      BY <2>1, <2>3 DEF Plan
    <3> QED
      BY <1>2, <1>3, <1>4, <2>3, <3>1 DEF ResolveGate
  <2>4. CASE j.command = "answer"
    <3>1. r \in Answer(store, j.said)
      BY <2>1, <2>4 DEF Plan
    <3> QED
      BY <1>2, <1>3, <3>1 DEF Answer
  <2>5. CASE j.command = "continue"
    <3>1. r \in ContinueAt(store, j.path)
      BY <2>1, <2>5 DEF Plan
    <3>2. CASE NodeKind(j.path) \in {"fanout", "agent", "gate"}
      <4>1. r \in Enter(store, j.path, "continue")
        BY <3>1, <3>2 DEF ContinueAt
      <4>2. /\ NodeKind(j.path) = "agent" /\ Preserved(store, j.path, "continue")
            /\ r.runs /\ r.legs = {j.path} /\ r.emit = {}
        BY <4>1, EnterPushes
      <4>3. j.path \in Units
        BY <4>2 DEF Units, NodeKind, None
      <4> QED
        BY <1>5, <2>5, <4>2, <4>3
    <3>3. CASE NodeKind(j.path) = "merge"
      <4>1. r \in Merge(store, j.path)
        BY <3>1, <3>3 DEF ContinueAt
      <4> QED
        BY <1>2, <1>3, <1>4, <4>1 DEF Merge
    <3>4. CASE NodeKind(j.path) \notin {"fanout", "agent", "gate", "merge"}
      BY <1>2, <3>1, <3>4 DEF ContinueAt
    <3> QED
      BY <3>2, <3>3, <3>4
  <2> QED
    BY <2>1, <2>2, <2>3, <2>4, <2>5 DEF Replies
<1>6. CASE j.role = "leg"
  <2>1. Started /\ j.path \in Units /\ j.group \in RunTags
    BY <1>1, <1>6 DEF JobOK, UntilStarted, None
  <2>2. r \in AdvanceOutcomes(store, j.path, j.group)
    BY <1>6 DEF Outcomes
  <2> QED
    BY <1>1, <2>1, <2>2, AdvanceOK DEF Lands, Started
<1>7. CASE j.role = "join"
  <2>1. r = Join(store, j.path)
    BY <1>7 DEF Outcomes
  <2>2. CASE Len(j.path) > 1
    <3>1. r = NestedJoin(store, j.path)
      BY <2>1, <2>2 DEF Join
    <3>2. r = Quiet(store) \/ \E T, E : r = Pushes(T, E)
      BY <3>1 DEF NestedJoin
    <3> QED
      BY <1>2, <1>3, <3>2
  <2>3. CASE ~(Len(j.path) > 1)
    <3>1. r = TopJoin(store)
      BY <2>1, <2>3 DEF Join
    <3>2. r = Quiet(store) \/ (\E T, E : r = Pushes(T, E)) \/ (\E T, c, E : r = Concludes(T, c, E))
      BY <3>1 DEF TopJoin
    <3> QED
      BY <1>2, <1>3, <1>4, <3>2
  <2> QED
    BY <2>2, <2>3
<1>8. QED
  BY <1>1, <1>5, <1>6, <1>7 DEF JobOK

\* A job that is to run its script works for a thread that stands where it works.
LEMMA WorkStands ==
  ASSUME EngineInv, GatesApart, Threads, Started, NEW j \in jobs, j.stage = "ready",
         NEW a \in DOMAIN Tree \ {<<>>}, WorksAt(j, store, a)
  PROVE  /\ StandsAt(store, a)
         /\ a \in At(j) => Within(store, Thread(a)) = {}
<1>1. StoreOK(store) /\ DOMAIN store = Files /\ store[InstanceFile] # Missing /\ Unpushed(j)
  BY DEF EngineInv, StoreOK, Started, Unpushed
<1>2. Sole /\ Spaced /\ AllInside /\ Synced(store, Thread(a))
  BY DEF Threads, Synced
<1>3. /\ Inside(store, a)
      /\ \A p \in Places(store) : p # a => Far(p, a) \/ Over(p, a)
      /\ a \in At(j) => a \notin Places(store)
  BY <1>1, <1>2, Anchored
<1>4. ASSUME NEW q \in Within(store, Thread(a))
      PROVE  q \in Places(store) /\ q = a
  <2>1. q \in Places(store) /\ Above(Thread(a), q) /\ q \in DOMAIN Tree \ {<<>>}
    BY PlaceIs DEF Within
  <2> QED
    BY <1>3, <2>1, Outside
<1>5. QED
  BY <1>1, <1>3, <1>4 DEF StandsAt

\* Where the result of a script leads: on from the node it works at.
Leads(j, r) ==
  \E p \in DOMAIN Tree \ {<<>>} :
    WorksAt(j, store, p) /\ Moves(store, r, Thread(p))

LEMMA EndsLeads ==
  ASSUME EngineInv, GatesApart, Threads, Started, NEW j \in jobs, j.stage = "ready",
         j.role # "leg", j.command # "continue", NEW r, Ends(store, r, j.group)
  PROVE  Leads(j, r)
<1>1. PICK a \in DOMAIN Tree \ {<<>>} :
         /\ Waits(store, a) /\ j.group = PlaceGroup(a)
         /\ NodeKind(a) = "fanout" => AllTerminal(store, a, a)
         /\ StandsAt(store, a) => Moves(store, r, Thread(a))
  BY DEF Ends
<1>2. WorksAt(j, store, a)
  BY <1>1 DEF WorksAt
<1>3. StandsAt(store, a)
  BY <1>2, WorkStands
<1>4. QED
  BY <1>1, <1>2, <1>3 DEF Leads

LEMMA LegLeads ==
  ASSUME EngineInv, GatesApart, Threads, NEW j \in jobs, j.stage = "ready", j.role = "leg",
         NEW r \in Outcomes(store, j)
  PROVE  Leads(j, r)
<1>1. JobOK(j) /\ UntilStarted /\ Unpushed(j)
  BY DEF EngineInv, Unpushed
<1>2. Started /\ j.path \in Units /\ j.group \in RunTags /\ j.path \in DOMAIN Tree \ {<<>>}
  BY <1>1, UnitsAreAgents DEF JobOK, UntilStarted, None
<1>3. r \in AdvanceOutcomes(store, j.path, j.group)
  BY DEF Outcomes
<1>4. j.path \in At(j) /\ j.path \in Running(j) /\ WorksAt(j, store, j.path)
  BY <1>1 DEF At, Running, WorksAt
<1>5. Present(store, j.path) /\ store[NodeFile(j.path)].state = LifeState(j.path)
  BY <1>4, HoldersNow DEF Threads, RunningUnits
<1>6. StandsAt(store, j.path) /\ Within(store, Thread(j.path)) = {}
  BY <1>2, <1>4, WorkStands
<1>7. Moves(store, r, Thread(j.path))
  BY <1>2, <1>3, <1>5, <1>6, AdvanceMoves
<1>8. QED
  BY <1>2, <1>4, <1>7 DEF Leads

LEMMA ContinueLeads ==
  ASSUME EngineInv, GatesApart, Threads, NEW j \in jobs, j.stage = "ready",
         j.command = "continue", NEW r \in Outcomes(store, j), r.push
  PROVE  Leads(j, r)
<1>1. JobOK(j) /\ UntilStarted /\ Unpushed(j)
  BY DEF EngineInv, Unpushed
<1>2. j.role = "plan" /\ Started
  BY <1>1 DEF JobOK, UntilStarted, None, Replies
<1>3. r \in ContinueAt(store, j.path)
  BY <1>2 DEF Outcomes, Plan, Replies
<1>4. j.path \in At(j) /\ WorksAt(j, store, j.path)
  BY <1>1 DEF At, WorksAt
<1>5. j.path \in DOMAIN Tree \ {<<>>}
  BY <1>4, HoldersAre DEF Threads, AllInside
<1>6. StandsAt(store, j.path) /\ Within(store, Thread(j.path)) = {}
  BY <1>2, <1>4, <1>5, WorkStands
<1>7. ~Quiet(store).push
  BY ResultIs
<1>8. Moves(store, r, Thread(j.path))
  <2>1. CASE NodeKind(j.path) \in {"fanout", "agent", "gate"}
    <3>1. r \in Enter(store, j.path, "continue")
      BY <1>3, <2>1 DEF ContinueAt
    <3> QED
      BY <1>6, <3>1, EnterMoves
  <2>2. CASE NodeKind(j.path) = "merge"
    <3>1. r \in Merge(store, j.path)
      BY <1>3, <2>2 DEF ContinueAt
    <3> QED
      BY <1>6, <1>7, <2>2, <3>1, MergeMoves
  <2>3. CASE NodeKind(j.path) \notin {"fanout", "agent", "gate", "merge"}
    BY <1>3, <1>7, <2>3 DEF ContinueAt
  <2> QED
    BY <2>1, <2>2, <2>3
<1>9. QED
  BY <1>4, <1>5, <1>8 DEF Leads

LEMMA ReplyLeads ==
  ASSUME EngineInv, GatesApart, Threads, NEW j \in jobs, j.stage = "ready",
         j.command \in Replies, NEW r \in Outcomes(store, j), r.push
  PROVE  Leads(j, r)
<1>1. JobOK(j) /\ UntilStarted /\ StoreOK(store)
  BY DEF EngineInv
<1>2. j.role = "plan" /\ j.command # "continue" /\ j.command # "start"
  BY <1>1 DEF JobOK, None, Replies
<1>3. r \in Plan(store, j.command, j.path, j.said)
  BY <1>2 DEF Outcomes
<1>4. Started
  BY <1>2, OutcomesOK
<1>5. j.group = RootGroup
  BY <1>2 DEF Threads, GroupsNamed
<1>6. Ends(store, r, RootGroup)
  <2>1. CASE j.command = "override"
    <3>1. r \in Override(store)
      BY <1>3, <2>1 DEF Plan
    <3> QED
      BY <1>1, <3>1, OverrideEnds
  <2>2. CASE j.command \in {"approve", "request-changes", "reject"}
    <3>1. r \in ResolveGate(store, j.command, j.said)
      BY <1>3, <2>2 DEF Plan
    <3> QED
      BY <1>1, <2>2, <3>1, ResolveEnds
  <2>3. CASE j.command = "answer"
    <3>1. r \in Answer(store, j.said)
      BY <1>3, <2>3 DEF Plan
    <3> QED
      BY <1>1, <1>4, <3>1, AnswerEnds DEF Started
  <2> QED
    BY <2>1, <2>2, <2>3 DEF Replies
<1>7. QED
  BY <1>2, <1>4, <1>5, <1>6, EndsLeads

LEMMA JoinLeads ==
  ASSUME EngineInv, GatesApart, Threads, NEW j \in jobs, j.stage = "ready",
         j.role = "join", NEW r \in Outcomes(store, j), r.push
  PROVE  Leads(j, r)
<1>1. JobOK(j) /\ UntilStarted /\ StoreOK(store)
  BY DEF EngineInv
<1>2. /\ Started /\ j.role # "leg" /\ j.command # "continue"
      /\ j.path \in NestedFanouts \union {<<>>} /\ j.group = <<"join", j.path>>
  BY <1>1 DEF JobOK, UntilStarted, Threads, GroupsNamed
<1>3. r = Join(store, j.path)
  BY DEF Outcomes
<1>4. j.path \in ProbedAll
  <2>1. j.path \in Probed(j)
    BY DEF Probed
  <2> QED
    BY <2>1, HoldersNow
<1>5. /\ j.path = <<>> => RootEntered(store)
      /\ j.path # <<>> => store[JoinFile(j.path)] # Missing
  BY <1>4 DEF Threads, ProbesOK
<1>6. Ends(store, r, <<"join", j.path>>)
  <2>1. CASE j.path = <<>>
    <3>1. ~(Len(j.path) > 1)
      BY <2>1
    <3>2. r = TopJoin(store)
      BY <1>3, <3>1 DEF Join
    <3>3. \A q \in Places(store) : Inside(store, q)
      BY DEF Threads, AllInside
    <3> QED
      BY <1>1, <1>5, <2>1, <3>2, <3>3, TopJoinEnds
  <2>2. CASE j.path # <<>>
    <3>1. j.path \in NestedFanouts
      BY <1>2, <2>2
    <3>2. Len(j.path) > 1
      <4>1. /\ j.path \in DOMAIN Tree \ {<<>>} /\ NodeKind(j.path) = "fanout"
            /\ Len(j.path) # 1
        BY <2>2, <3>1 DEF NestedFanouts, IsRootChild
      <4> QED
        BY <4>1, LongFanouts
    <3>3. r = NestedJoin(store, j.path)
      BY <1>3, <3>2 DEF Join
    <3> QED
      BY <1>1, <1>2, <1>5, <2>2, <3>1, <3>3, NestedJoinEnds DEF Started
  <2> QED
    BY <2>1, <2>2
<1>7. QED
  BY <1>2, <1>6, EndsLeads

\* Every edit that a script makes is of the thread it works for.
LEMMA OutcomesLead ==
  ASSUME EngineInv, GatesApart, Threads, NEW j \in jobs, j.stage = "ready",
         j.command # "start", NEW r \in Outcomes(store, j), r.push
  PROVE  Leads(j, r)
<1>1. JobOK(j)
  BY DEF EngineInv
<1>2. QED
  BY <1>1, LegLeads, ContinueLeads, ReplyLeads, JoinLeads DEF JobOK

LEMMA PreservedUnit ==
  ASSUME NEW p \in Units, NEW S, StoreOK(S), Preserved(S, p, "continue")
  PROVE  Present(S, p) /\ S[NodeFile(p)].state = LifeState(p)
<1>1. p \in DOMAIN Tree /\ p # <<>> /\ NodeFile(p) \in Files
  BY UnitsAreAgents
<1>2. LifeState(p) # None
  BY <1>1, NodesAreChildren DEF LifeState
<1>3. StateOf(S, p) = LifeState(p)
  BY DEF Preserved
<1>4. QED
  BY <1>1, <1>2, <1>3 DEF StateOf, Read, Present, StoreOK

\* A script that has run: its job goes on at its node, or hands on from it.
LEMMA StartExecutes ==
  ASSUME EngineInv, OneStart, used["start"] <= 1, GatesApart, Threads,
         NEW j \in jobs, Execute(j), j.command = "start"
  PROVE  Threads'
<1>0. PICK r \in Outcomes(store, j) : \E k : Executed(j, r, k)
  BY ExecuteIs
<1>1. PICK k : Executed(j, r, k)
  BY <1>0
<1>2. UNCHANGED <<store, waiting>> /\ j.stage = "ready" /\ StoreOK(store) /\ JobOK(j)
  BY DEF Execute, EngineInv
<1>3. j.role = "plan" /\ ~Started /\ \A f \in Files : store[f] = Missing
  BY <1>2 DEF JobOK, OneStart, StartsOnce, EngineInv, UntilStarted, None
<1>4. r \in EnterRoot(store, "start")
  BY <1>3 DEF Outcomes, Plan
<1>5. Moves(store, r, <<>>) /\ (r.runs \/ r.emit = {})
  BY <1>2, <1>3, <1>4, StartMoves
<1>6. ResultOK(store, r) /\ r.push /\ r.store[InstanceFile] # Missing /\ r.legs \subseteq Units
  BY <1>2, <1>4, EnterRootOK DEF ResultOK
<1>7. /\ Moves(store, k.todo, <<>>) /\ k.todo.push
      /\ k.todo.runs = r.runs /\ k.todo.emit = r.emit
  <2>1. CASE r.tells /\ NeedsComment(r.store)
    <3>1. comments + 1 \in Nat
      BY DEF EngineInv
    <3>2. k.todo = [r EXCEPT !.store[InstanceFile].comment = comments + 1]
      BY <1>1, <2>1 DEF Executed
    <3>3. /\ SameBut(r.store, k.todo.store)
          /\ k.todo.runs = r.runs /\ k.todo.legs = r.legs /\ k.todo.emit = r.emit
          /\ k.todo.push = r.push
      <4> DEFINE n == comments + 1
                 q == [r EXCEPT !.store[InstanceFile].comment = n]
      <4>1. n \in Nat /\ k.todo = q
        BY <3>1, <3>2
      <4> HIDE DEF n
      <4>2. /\ SameBut(r.store, q.store)
            /\ q.runs = r.runs /\ q.legs = r.legs /\ q.emit = r.emit /\ q.push = r.push
        BY <1>6, <4>1, NumberedSame
      <4> HIDE DEF q
      <4> QED
        BY <4>1, <4>2
    <3> QED
      BY <1>5, <1>6, <3>3, NumberMoves
  <2>2. CASE ~(r.tells /\ NeedsComment(r.store))
    BY <1>1, <1>5, <1>6, <2>2 DEF Executed
  <2> QED
    BY <2>1, <2>2
<1>8. /\ Becomes(j, k) /\ k.role = j.role /\ k.group = j.group /\ k.command = j.command
      /\ k.path = j.path /\ k.stage = "edited" /\ k.clone = store
  BY <1>1 DEF Executed
<1>9. Unpushed(k) /\ Unpushed(j) /\ k.role = "plan" /\ k.command = "start"
  BY <1>2, <1>3, <1>7, <1>8 DEF Unpushed
<1>10. At(k) = {} /\ Running(k) = {} /\ Probed(k) = {}
  BY <1>9 DEF At, Running, Probed
<1>11. k.todo.runs \/ k.todo.emit = {}
  BY <1>5, <1>7
<1>12. QED
  BY <1>2, <1>7, <1>8, <1>9, <1>10, <1>11, OneGoesOn

LEMMA ExecuteThreads ==
  ASSUME EngineInv, OneStart, CommentInv, used["start"] <= 1, used["redelivery"] = 0,
         GatesApart, Threads, NEW j \in jobs, Execute(j)
  PROVE  Threads'
<1>1. CASE j.command = "start"
  BY <1>1, StartExecutes
<1>2. CASE j.command # "start"
  <2>0. PICK r \in Outcomes(store, j) : \E k : Executed(j, r, k)
    BY ExecuteIs
  <2>1. PICK k : Executed(j, r, k)
    BY <2>0
  <2>2. UNCHANGED <<store, waiting>> /\ j.stage = "ready" /\ StoreOK(store) /\ JobOK(j)
    BY DEF Execute, EngineInv
  <2>3. k.todo = r
    BY <1>2, <2>1, <2>2, NotCreated DEF Executed
  <2>4. /\ Becomes(j, k) /\ k.role = j.role /\ k.group = j.group /\ k.command = j.command
        /\ k.path = j.path /\ k.stage = "edited" /\ k.clone = store
    BY <2>1 DEF Executed
  <2>5. Unpushed(j)
    BY <2>2 DEF Unpushed
  <2>6. CASE r.push
    <3>1. Unpushed(k)
      BY <2>3, <2>4, <2>6 DEF Unpushed
    <3>2. At(k) = At(j) /\ Running(k) = Running(j) /\ Probed(k) = Probed(j)
      BY <2>4, <2>5, <3>1 DEF At, Running, Probed
    <3>3. \A p \in Running(k) :
            p \in Units /\ Present(store, p) /\ store[NodeFile(p)].state = LifeState(p)
      BY <3>2, HoldersNow, RunningAreUnits DEF Threads
    <3>4. PICK p \in DOMAIN Tree \ {<<>>} : WorksAt(j, store, p) /\ Moves(store, r, Thread(p))
      BY <1>2, <2>2, <2>6, OutcomesLead DEF Leads
    <3>5. WorksAt(k, k.clone, p) /\ Synced(k.clone, Thread(p))
      BY <2>4, <3>4 DEF WorksAt, Synced
    <3>6. k.command # "start" /\ Moves(k.clone, k.todo, Thread(p))
      BY <1>2, <2>3, <2>4, <3>4
    <3> QED
      BY <1>2, <2>2, <2>4, <3>2, <3>3, <3>5, <3>6, OneGoesOn
  <2>7. CASE ~r.push
    <3>1. ~Unpushed(k) /\ ~Editing(k)
      BY <2>3, <2>4, <2>7 DEF Unpushed, Editing
    <3>2. \/ ~r.runs /\ r.emit = {}
          \/ /\ j.role = "plan" /\ j.command = "continue" /\ j.path \in Units
             /\ Preserved(store, j.path, "continue")
             /\ r.runs /\ r.legs = {j.path} /\ r.emit = {}
      BY <1>2, <2>7, NotPushed
    <3>3. Woken({}) = {} /\ Called({}) = {}
      BY NothingWoken
    <3>4. At(k) \subseteq At(j) /\ Probed(k) \subseteq Probed(j)
      BY <2>3, <2>4, <2>5, <3>1, <3>2, <3>3 DEF At, Probed, Hands
    <3>5. \A p \in Running(k) :
            p \in Units /\ Present(store, p) /\ store[NodeFile(p)].state = LifeState(p)
      BY <2>2, <2>3, <3>1, <3>2, PreservedUnit DEF Running
    <3> QED
      BY <1>2, <2>2, <2>4, <3>1, <3>4, <3>5, OneGoesOn
  <2> QED
    BY <2>6, <2>7
<1>3. QED
  BY <1>1, <1>2

-----------------------------------------------------------------------------
(* The invariant, and what follows from it. *)

LEMMA StutterThreads == Threads /\ UNCHANGED vars => Threads'
<1> SUFFICES ASSUME Threads, UNCHANGED <<store, jobs, waiting>>
             PROVE  Threads'
  BY DEF vars
<1>1. AtAll' = AtAll /\ Woke' = Woke /\ RunningAll' = RunningAll /\ ProbedAll' = ProbedAll
  BY DEF AtAll, Woke, RunningAll, ProbedAll
<1>2. Sole' /\ Spaced' /\ AllInside'
  BY <1>1 DEF Threads, Sole, Spaced, AllInside
<1>3. RunningUnits' /\ ProbesOK' /\ Histories'
  BY <1>1 DEF Threads, RunningUnits, ProbesOK, Histories
<1>4. EditsOK'
  BY DEF Threads, EditsOK, Synced
<1>5. StartAlone' /\ GroupsNamed'
  BY DEF Threads, StartAlone, GroupsNamed
<1>6. QED
  BY <1>2, <1>3, <1>4, <1>5 DEF Threads

LEMMA ThreadNext ==
  EngineInv /\ OneStart /\ CommentInv /\ ThreadInv /\ [Next]_vars => ThreadInv'
<1> SUFFICES ASSUME EngineInv, OneStart, CommentInv, ThreadInv, [Next]_vars,
                    PullRequest, GatesApart, used'["start"] <= 1, used'["redelivery"] = 0
             PROVE  Threads'
  BY DEF ThreadInv, Calm
<1>1. used["start"] <= 1 /\ used["redelivery"] = 0
  BY RegimeBefore
<1>2. Threads
  BY <1>1 DEF ThreadInv, Calm
<1>3. CASE Work
  <2>1. PICK j \in jobs : Step(j)
    BY <1>3 DEF Work
  <2>2. CASE Execute(j)
    BY <1>1, <1>2, <2>2, ExecuteThreads
  <2>3. CASE Report(j)
    BY <1>2, <2>3, ReportThreads
  <2>4. CASE Push(j)
    BY <1>1, <1>2, <2>4, PushThreads
  <2>5. CASE FailPush(j) \/ FailComment(j)
    BY <1>1, <1>2, <2>5, EndsThreads
  <2>6. CASE Finish(j)
    BY <1>1, <1>2, <2>6, FinishThreads
  <2>7. CASE MarkInProgress(j)
    BY <1>2, <2>7, MarkThreads
  <2>8. CASE StartLegs(j) \/ StartLegsWithComment(j)
    BY <1>1, <1>2, <2>8, StartLegsThreads
  <2> QED
    BY <2>1, <2>2, <2>3, <2>4, <2>5, <2>6, <2>7, <2>8 DEF Step
<1>4. CASE \E command \in Commands : \E said \in SaidWith(command) : Comment(command, said)
  BY <1>1, <1>2, <1>4, CommentThreads
<1>5. CASE \E p \in DOMAIN Tree \ {<<>>} : Redeliver(p)
  <2>1. Use("redelivery")
    BY <1>5 DEF Redeliver
  <2> QED
    BY <1>1, <2>1, UseOK DEF Bounds
<1>6. CASE \E j \in jobs : Die(j)
  BY <1>1, <1>2, <1>6, EndsThreads
<1>7. CASE UNCHANGED vars
  BY <1>2, <1>7, StutterThreads
<1>8. QED
  BY <1>3, <1>4, <1>5, <1>6, <1>7 DEF Next

LEMMA InitThreads == Init => ThreadInv
<1> SUFFICES ASSUME Init PROVE Threads
  BY DEF ThreadInv
<1>1. jobs = {} /\ waiting = {} /\ \A f \in Files : store[f] = Missing
  BY DEF Init
<1>2. store[InstanceFile] = Missing
  BY <1>1, FilesAre
<1>3. \A p : p \notin Places(store)
  BY <1>2, PlaceIs DEF Waits
<1>4. \A p : p \notin AtAll /\ p \notin RunningAll /\ p \notin ProbedAll
  BY <1>1, WokenIs DEF AtAll, Woke, RunningAll, ProbedAll
<1>5. Histories
  BY <1>1, FilesAre DEF Histories, HistoryOK, Present, Units
<1>6. Sole /\ EditsOK /\ StartAlone /\ GroupsNamed
  BY <1>1 DEF Sole, EditsOK, StartAlone, GroupsNamed
<1>7. Spaced /\ AllInside /\ RunningUnits /\ ProbesOK
  BY <1>3, <1>4 DEF Spaced, AllInside, RunningUnits, ProbesOK
<1>8. QED
  BY <1>5, <1>6, <1>7 DEF Threads

LEMMA ThreadsApart == Spec => []ThreadInv
BY InitThreads, ThreadNext, InitOneStart, OneStartNext, CommentNext, InitComment, EngineInvariant, PTL DEF Spec

\* Of an instance that is started once and whose events arrive once no two attempts at
\* one leg are ever under way: its file has one writer at a time, whoever comments,
\* dies or joins meanwhile (advance.py, join.py, the concurrency groups).
THEOREM OneFlight ==
  Spec => [](PullRequest /\ GatesApart /\ used["start"] <= 1 => SingleFlight)
<1>1. ThreadInv => (PullRequest /\ GatesApart /\ used["start"] <= 1 => SingleFlight)
  <2> SUFFICES ASSUME ThreadInv, PullRequest, GatesApart, used["start"] <= 1,
                      used["redelivery"] = 0,
                      NEW j \in Legs(jobs), NEW k \in Legs(jobs), Unpushed(j), Unpushed(k),
                      j.path = k.path, j # k
               PROVE  FALSE
    BY DEF SingleFlight
  <2>1. j \in jobs /\ k \in jobs /\ j.path \in At(j) /\ j.path \in At(k)
    BY DEF Legs, At
  <2> QED
    BY <2>1, SoleIs DEF ThreadInv, Calm, Threads
<1>2. QED
  BY <1>1, ThreadsApart, PTL

\* The retry loop of such an instance is bounded across its runs: a unit's history is
\* never longer than its max_iterations, and a leg that failed has used them all
\* (decide, advance.py).
THEOREM AttemptsAreBounded == Spec => [](Calm => AttemptsBounded)
<1>1. EngineInv /\ ThreadInv => (Calm => AttemptsBounded)
  <2> SUFFICES ASSUME EngineInv, Threads, NEW p \in Units, store[NodeFile(p)] # Missing
               PROVE  /\ store[NodeFile(p)].history <= Tree[p].max
                      /\ store[NodeFile(p)].state = "failed" /\ ~IsRootChild(p) =>
                           store[NodeFile(p)].history = Tree[p].max
    BY DEF ThreadInv, AttemptsBounded
  <2> DEFINE u == store[NodeFile(p)]
  <2>1. NodeOK(p, u)
    BY UnitsAreAgents, NodeValue DEF EngineInv
  <2>2. u.iteration \in 1 .. Tree[p].max /\ Tree[p].max \in Nat
    BY <2>1, UnitsAreAgents DEF NodeOK
  <2>3. /\ u.history = IF u.state = LifeState(p) THEN u.iteration - 1 ELSE u.iteration
        /\ u.state = "failed" /\ ~IsRootChild(p) => u.iteration = Tree[p].max
    BY DEF Threads, Histories, HistoryOK, Present
  <2>4. LifeState(p) # "failed"
    BY InFlight DEF Terminal
  <2> HIDE DEF u
  <2>5. /\ u.history <= Tree[p].max
        /\ u.state = "failed" /\ ~IsRootChild(p) => u.history = Tree[p].max
    BY <2>2, <2>3, <2>4
  <2> QED
    BY <2>5 DEF u
<1>2. QED
  BY <1>1, ThreadsApart, EngineInvariant, PTL
=============================================================================

---------------------------- MODULE EngineProofs -----------------------------
(***************************************************************************)
(* Theorems about the engine (Engine.tla), for every protocol and every    *)
(* bound, from the lemmas about its scripts (ScriptProofs).                *)
(***************************************************************************)
EXTENDS ScriptProofs

Started == store[InstanceFile] # Missing

\* The results that leave nothing behind.
Inert(todo) == ~todo.push /\ ~todo.runs /\ todo.emit = {}

TodoOK(todo) ==
  /\ DOMAIN todo = ResultFields
  /\ StoreOK(todo.store)
  /\ todo.push \in BOOLEAN /\ todo.runs \in BOOLEAN
  /\ todo.check \in Checks
  /\ EmitOK(todo.emit)
  /\ todo.legs \subseteq Units
  /\ todo.store[InstanceFile] # Missing \/ Inert(todo)

JobFields == {"role", "group", "path", "command", "said", "stage", "clone", "todo"}

\* A job is one of a plan, a leg or a join, and has read and edited typed files.
JobOK(j) ==
  /\ DOMAIN j = JobFields
  /\ j.group \in RunTags
  /\ \/ j.role = "plan" /\ j.command \in Replies \union {"start", "continue"}
     \/ j.role = "leg" /\ j.command = None /\ j.path \in Units
     \/ j.role = "join" /\ j.command = "join" /\ j.path \in NestedFanouts \union {<<>>}
  /\ j.stage \in {"ready", "edited", "pushed", "marked"}
  /\ j.stage # "ready" => StoreOK(j.clone) /\ TodoOK(j.todo)
  /\ j.stage = "marked" => j.todo.runs
  /\ j.stage = "edited" =>
       /\ j.todo.push \/ j.todo.store = j.clone
       /\ AnswersKept(j.clone, j.todo.store)
       /\ ManifestsFilled(j.clone, j.todo.store)

\* A clone of an instance is a clone of a recorded one; only an instance that is
\* recorded has runs under way, and nothing is on the branch before it.
UntilStarted ==
  /\ \A j \in jobs :
       /\ j.stage # "ready" /\ j.clone[InstanceFile] # Missing => Started
       /\ j.stage \in {"pushed", "marked"} => Started
  /\ ~Started =>
       /\ \A f \in Files : store[f] = Missing
       /\ \A j \in jobs : j.role = "plan" /\ j.command \in Replies \union {"start"}
       /\ \A w \in waiting : w.command \in Replies \union {"start"}

\* The runs of one concurrency group: one plan or one join, or legs; one event waits.
GroupsExclusive ==
  /\ \A j, k \in jobs : j.group = k.group /\ j # k => j.role = "leg" /\ k.role = "leg"
  /\ \A v, w \in waiting : Group(v) = Group(w) => v = w
  /\ \A w \in waiting : Busy(jobs, Group(w))

EngineInv ==
  /\ StoreOK(store)
  /\ \A j \in jobs : JobOK(j)
  /\ \A w \in waiting : EventOK(w)
  /\ UntilStarted
  /\ GroupsExclusive
  /\ check \in Checks
  /\ comments \in Nat
  /\ used \in [Bounds -> Nat]
  /\ \A b \in Bounds : used[b] <= Limit[b]

\* The start that is under way, at most one: once the instance is recorded its
\* script has pushed.
StartsOnce ==
  /\ \A j, k \in jobs : j.command = "start" /\ k.command = "start" => j = k
  /\ \A j \in jobs, w \in waiting : ~(j.command = "start" /\ w.command = "start")
  /\ \A v, w \in waiting : v.command = "start" /\ w.command = "start" => v = w
  /\ Started => /\ \A w \in waiting : w.command # "start"
                /\ \A j \in jobs : j.command = "start" => j.stage \in {"pushed", "marked"}

\* No clone is of an instance that was wiped since: what a script read is there.
ClonesKept ==
  \A j \in jobs : j.stage = "edited" =>
    /\ FilesKept(j.clone, store)
    /\ IF j.command = "start" THEN \A f \in Files : j.clone[f] = Missing
       ELSE /\ FilesKept(j.clone, j.todo.store)
            /\ j.todo.push => j.clone[InstanceFile] # Missing

OneStart ==
  used["start"] <= 1 =>
    /\ used["start"] = 0 => /\ ~Started
                            /\ \A j \in jobs : j.command # "start"
                            /\ \A w \in waiting : w.command # "start"
    /\ StartsOnce
    /\ ClonesKept

SeededInv == OneStart /\ (used["start"] <= 1 => ManifestSeeded)

-----------------------------------------------------------------------------
(* Jobs and events. *)

Exclusive(J) ==
  \A j, k \in J : j.group = k.group /\ j # k => j.role = "leg" /\ k.role = "leg"

LEMMA QueuedOK ==
  ASSUME NEW e, EventOK(e)
  PROVE  /\ JobOK(Queued(e))
         /\ Queued(e).group = Group(e) /\ Queued(e).stage = "ready"
         /\ Queued(e).command = e.command
         /\ e.workflow # "join" => Queued(e).role = "plan"
<1> DEFINE k == Queued(e)
<1>1. /\ DOMAIN k = JobFields /\ k.group = <<e.workflow, e.path>> /\ k.path = e.path
      /\ k.command = e.command /\ k.stage = "ready"
      /\ k.role = IF e.workflow = "join" THEN "join" ELSE "plan"
  BY DEF Queued, Job, Group, JobFields
<1> HIDE DEF k
<1>2. k.group \in RunTags
  BY <1>1 DEF EventOK, RunTags
<1>3. JobOK(k)
  BY <1>1, <1>2 DEF JobOK, EventOK
<1> USE DEF k
<1>4. QED
  BY <1>1, <1>3 DEF Group

LEMMA LegOK ==
  ASSUME NEW g \in RunTags, NEW p \in Units
  PROVE  /\ JobOK(Leg(g, p))
         /\ Leg(g, p).group = g /\ Leg(g, p).stage = "ready" /\ Leg(g, p).role = "leg"
         /\ Leg(g, p).command = None
<1> DEFINE k == Leg(g, p)
<1>1. /\ DOMAIN k = JobFields /\ k.group = g /\ k.path = p /\ k.stage = "ready"
      /\ k.role = "leg" /\ k.command = None
  BY DEF Leg, Job, JobFields
<1> HIDE DEF k
<1>2. JobOK(k)
  BY <1>1, UnitsAreAgents DEF JobOK
<1> USE DEF k
<1>3. QED
  BY <1>1, <1>2

\* What an arrival of events makes of the groups.
LEMMA ScheduleOK ==
  ASSUME NEW J, NEW E, Schedule(J, E),
         \A j \in J : JobOK(j), Exclusive(J),
         \A w \in waiting : EventOK(w), \A v, w \in waiting : Group(v) = Group(w) => v = w,
         \A e \in E : EventOK(e), \A d, e \in E : d = e
  PROVE  /\ \A j \in jobs' : JobOK(j)
         /\ \A w \in waiting' : EventOK(w)
         /\ GroupsExclusive'
         /\ \A k \in jobs' : \/ k \in J
                             \/ \E w \in waiting \union E : k = Queued(w) /\ w \notin waiting'
         /\ waiting' \subseteq waiting \union E
<1> DEFINE pending == {w \in waiting : \A e \in E : Group(e) # Group(w)} \union E
           free == {w \in pending : ~Busy(J, Group(w))}
<1>1. jobs' = J \union {Queued(w) : w \in free} /\ waiting' = pending \ free
  BY DEF Schedule
<1>2. /\ \A w \in pending : EventOK(w) /\ w \in waiting \union E
      /\ \A v, w \in pending : Group(v) = Group(w) => v = w
  OBVIOUS
<1> HIDE DEF pending
<1>3. \A k \in jobs' : \/ k \in J
                       \/ \E w \in free : k = Queued(w) /\ JobOK(k) /\ k.group = Group(w)
  BY <1>1, <1>2, QueuedOK
<1>4. \A j \in jobs' : JobOK(j)
  BY <1>3
<1>5. \A w \in waiting' : EventOK(w) /\ w \in waiting \union E
  BY <1>1, <1>2
<1>6. Exclusive(jobs')
  <2> SUFFICES ASSUME NEW j \in jobs', NEW k \in jobs', j.group = k.group, j # k
               PROVE  j.role = "leg" /\ k.role = "leg"
    BY DEF Exclusive
  <2>1. CASE j \in J /\ k \in J
    BY <2>1 DEF Exclusive
  <2>2. CASE j \in J /\ k \notin J
    BY <1>3, <2>2 DEF Busy
  <2>3. CASE j \notin J /\ k \in J
    BY <1>3, <2>3 DEF Busy
  <2>4. CASE j \notin J /\ k \notin J
    BY <1>2, <1>3, <2>4
  <2> QED
    BY <2>1, <2>2, <2>3, <2>4
<1>7. \A v, w \in waiting' : Group(v) = Group(w) => v = w
  BY <1>1, <1>2
<1>8. \A w \in waiting' : Busy(jobs', Group(w))
  BY <1>1 DEF Busy
<1>9. \A k \in jobs' : \/ k \in J
                       \/ \E w \in waiting \union E : k = Queued(w) /\ w \notin waiting'
  BY <1>1, <1>2, <1>3
<1>10. GroupsExclusive'
  BY <1>6, <1>7, <1>8 DEF GroupsExclusive, Exclusive, Busy, Group
<1>11. QED
  BY <1>4, <1>5, <1>9, <1>10

\* A job that goes on in its group.
LEMMA BecomesOK ==
  ASSUME \A j \in jobs : JobOK(j), GroupsExclusive, NEW j \in jobs, NEW k, JobOK(k),
         k.group = j.group, k.role = j.role, Becomes(j, k), UNCHANGED waiting
  PROVE  /\ \A i \in jobs' : JobOK(i)
         /\ GroupsExclusive'
         /\ jobs' = (jobs \ {j}) \union {k}
<1>1. jobs' = (jobs \ {j}) \union {k}
  BY DEF Becomes
<1>2. \A i, m \in jobs' : i.group = m.group /\ i # m => i.role = "leg" /\ m.role = "leg"
  BY <1>1 DEF GroupsExclusive
<1>3. \A w \in waiting' : \E i \in jobs' : i.group = Group(w)
  BY <1>1 DEF GroupsExclusive, Busy
<1>4. GroupsExclusive'
  BY <1>2, <1>3 DEF GroupsExclusive, Busy, Group
<1>5. QED
  BY <1>1, <1>4

LEMMA LeaveOK ==
  ASSUME \A j \in jobs : JobOK(j), GroupsExclusive, \A w \in waiting : EventOK(w),
         NEW j \in jobs, NEW E, Leave(j, E), \A e \in E : EventOK(e), \A d, e \in E : d = e
  PROVE  /\ \A i \in jobs' : JobOK(i)
         /\ \A w \in waiting' : EventOK(w)
         /\ GroupsExclusive'
         /\ \A k \in jobs' : \/ k \in jobs \ {j}
                             \/ \E w \in waiting \union E : k = Queued(w) /\ w \notin waiting'
         /\ waiting' \subseteq waiting \union E
<1>1. Schedule(jobs \ {j}, E)
  BY DEF Leave
<1>2. Exclusive(jobs \ {j})
  BY DEF GroupsExclusive, Exclusive
<1>3. \A v, w \in waiting : Group(v) = Group(w) => v = w
  BY DEF GroupsExclusive
<1>4. QED
  BY <1>1, <1>2, <1>3, ScheduleOK

LEMMA InitOK == Init => EngineInv
<1> SUFFICES ASSUME Init PROVE EngineInv
  OBVIOUS
<1>1. StoreOK(store) /\ \A f \in Files : store[f] = Missing
  BY DEF Init, StoreOK, FileOK
<1>2. ~Started
  BY <1>1, FilesAre DEF Started
<1>3. used \in [Bounds -> Nat] /\ \A b \in Bounds : used[b] <= Limit[b]
  BY LimitAssumption DEF Init
<1>4. check \in Checks /\ comments \in Nat
  BY DEF Init, Checks
<1>5. UntilStarted /\ GroupsExclusive
  BY <1>1, <1>2 DEF Init, UntilStarted, GroupsExclusive
<1>6. QED
  BY <1>1, <1>3, <1>4, <1>5 DEF Init, EngineInv

-----------------------------------------------------------------------------
(* Scripts. *)

LEMMA KeepsAfter ==
  ASSUME NEW S, NEW T, NEW U, StoreOK(T), AnswersKept(S, T), ManifestsFilled(S, T), Keeps(T, U)
  PROVE  AnswersKept(S, U) /\ ManifestsFilled(S, U)
<1>1. AnswersKept(S, U)
  BY FilesAre DEF AnswersKept, AnsweredAt, Keeps, AnswersFile
<1>2. ManifestsFilled(S, U)
  <2> SUFFICES ASSUME NEW p \in DOMAIN Tree, IsDynamic(p), U[ManifestFile(p)] # S[ManifestFile(p)],
                      NEW l \in LegIds(U, p)
               PROVE  U[NodeFile(Child(p, l))] # Missing
    BY DEF ManifestsFilled
  <2>1. U[ManifestFile(p)] = T[ManifestFile(p)]
    BY FilesAre DEF Keeps, ManifestFile
  <2>2. LegIds(U, p) = LegIds(T, p)
    BY <2>1 DEF LegIds, Read, Keeps, StoreOK
  <2>3. T[NodeFile(Child(p, l))] # Missing
    BY <2>1, <2>2 DEF ManifestsFilled
  <2>4. l \in ChildIds(p) /\ NodeKind(p) = "fanout"
    BY <2>2, LegIdsAreChildren DEF IsDynamic
  <2>5. NodeFile(Child(p, l)) \in Files
    BY <2>4, LegsAre
  <2> QED
    BY <2>3, <2>5 DEF Keeps, FilesKept
<1>3. QED
  BY <1>1, <1>2

\* What a script may make of the clone it reads.
LEMMA OutcomesOK ==
  ASSUME EngineInv, NEW j \in jobs, NEW r \in Outcomes(store, j)
  PROVE  /\ ResultOK(store, r)
         /\ r.store[InstanceFile] # Missing \/ Inert(r)
         /\ j.command # "start" => FilesKept(store, r.store) /\ (Started \/ ~r.push)
<1>1. StoreOK(store) /\ JobOK(j) /\ UntilStarted
  BY DEF EngineInv
<1>2. ASSUME Started, GoesOn(store, r), j.command # "start"
      PROVE  /\ ResultOK(store, r) /\ r.store[InstanceFile] # Missing
             /\ FilesKept(store, r.store)
  BY <1>2, FilesAre DEF GoesOn, FilesKept, Started
<1>3. CASE j.role = "plan"
  <2>1. r \in Plan(store, j.command, j.path, j.said)
        /\ j.command \in Replies \union {"start", "continue"}
    BY <1>1, <1>3 DEF Outcomes, JobOK
  <2>2. CASE j.command = "start"
    <3>1. r \in EnterRoot(store, "start")
      BY <2>1, <2>2 DEF Plan
    <3> QED
      BY <1>1, <2>2, <3>1, EnterRootOK
  <2>3. CASE j.command \in Replies \union {"continue"} /\ Started
    <3>1. j.command # "start"
      BY <2>3 DEF Replies
    <3>2. GoesOn(store, r)
      BY <1>1, <2>1, <2>3, PlanOK DEF Started
    <3> QED
      BY <1>2, <2>3, <3>1, <3>2
  <2>4. CASE j.command \in Replies \union {"continue"} /\ ~Started
    <3>1. j.command \in Replies /\ j.command # "start" /\ \A f \in Files : store[f] = Missing
      BY <1>1, <2>4 DEF UntilStarted, Replies
    <3>2. r = Quiet(store)
      BY <1>1, <2>1, <3>1, BlankPlan
    <3>3. GoesOn(store, r)
      BY <1>1, <3>2, QuietOK
    <3>4. Inert(r)
      BY <3>2 DEF Inert, Quiet, Result
    <3>5. ~r.push
      BY <3>4 DEF Inert
    <3> QED
      BY <3>1, <3>3, <3>4, <3>5 DEF GoesOn
  <2> QED
    BY <2>1, <2>2, <2>3, <2>4
<1>4. CASE j.role = "leg"
  <2>1. Started /\ j.path \in Units /\ j.group \in RunTags /\ j.command # "start"
    BY <1>1, <1>4 DEF JobOK, UntilStarted, None
  <2>2. r \in AdvanceOutcomes(store, j.path, j.group)
    BY <1>4 DEF Outcomes
  <2>3. GoesOn(store, r)
    BY <1>1, <2>1, <2>2, AdvanceOK DEF Lands, Started
  <2> QED
    BY <1>2, <2>1, <2>3
<1>5. CASE j.role = "join"
  <2>1. Started /\ j.path \in NestedFanouts \union {<<>>} /\ j.command # "start"
    BY <1>1, <1>5 DEF JobOK, UntilStarted
  <2>2. r = Join(store, j.path)
    BY <1>5 DEF Outcomes
  <2>3. GoesOn(store, r)
    BY <1>1, <2>1, <2>2, JoinOK
  <2> QED
    BY <1>2, <2>1, <2>3
<1>6. QED
  BY <1>1, <1>3, <1>4, <1>5 DEF JobOK

\* A result whose update of the shared comment created it.
LEMMA CreatedOK ==
  ASSUME NEW S, NEW r, ResultOK(S, r), r.tells, r.store[InstanceFile] # Missing, NEW n \in Nat
  PROVE  LET todo == [r EXCEPT !.store[InstanceFile].comment = n] IN
         /\ TodoOK(todo) /\ todo.push
         /\ AnswersKept(S, todo.store) /\ ManifestsFilled(S, todo.store)
         /\ FilesKept(r.store, todo.store)
         /\ todo.store[InstanceFile] # Missing
<1> DEFINE todo == [r EXCEPT !.store[InstanceFile].comment = n]
           i == [r.store[InstanceFile] EXCEPT !.comment = n]
           T == Write(r.store, InstanceFile, i)
<1>1. StoreOK(r.store) /\ r.push /\ DOMAIN r = ResultFields /\ InstanceFile \in DOMAIN r.store
  BY FilesAre DEF ResultOK, StoreOK
<1>2. /\ DOMAIN todo = ResultFields /\ todo.store = T /\ todo.push = r.push
      /\ todo.check = r.check /\ todo.emit = r.emit /\ todo.runs = r.runs /\ todo.legs = r.legs
  BY <1>1 DEF Write, ResultFields
<1>3. i \in Instances
  <2>1. r.store[InstanceFile] \in Instances
    BY <1>1, InstanceValue
  <2> QED
    BY <2>1, InstancesChange
<1> HIDE DEF todo, i
<1>4. Keeps(r.store, T)
  BY <1>1, <1>3, WriteInstance
<1>5. AnswersKept(S, T) /\ ManifestsFilled(S, T)
  BY <1>1, <1>4, KeepsAfter DEF ResultOK
<1>6. T[InstanceFile] # Missing
  BY <1>4, FilesAre DEF Keeps, FilesKept
<1> HIDE DEF T
<1>7. TodoOK(todo)
  BY <1>2, <1>4, <1>6 DEF TodoOK, ResultOK, Keeps
<1>8. QED
  BY <1>1, <1>2, <1>4, <1>5, <1>6, <1>7 DEF todo, Keeps

LEMMA ExecuteOK ==
  ASSUME EngineInv, NEW j \in jobs, Execute(j)
  PROVE  \E k : /\ Becomes(j, k)
                /\ JobOK(k) /\ k.group = j.group /\ k.role = j.role /\ k.command = j.command
                /\ k.stage = "edited" /\ k.clone = store
                /\ j.command # "start" => /\ FilesKept(store, k.todo.store)
                                          /\ Started \/ ~k.todo.push
                /\ comments' \in Nat
<1>1. PICK r \in Outcomes(store, j) :
        LET creates == r.tells /\ NeedsComment(r.store)
            todo == IF creates
                    THEN [r EXCEPT !.store[InstanceFile].comment = comments + 1]
                    ELSE r
        IN /\ Becomes(j, [j EXCEPT !.stage = "edited", !.clone = store, !.todo = todo])
           /\ comments' = IF creates THEN comments + 1 ELSE comments
  BY DEF Execute
<1> DEFINE creates == r.tells /\ NeedsComment(r.store)
           todo == IF creates THEN [r EXCEPT !.store[InstanceFile].comment = comments + 1] ELSE r
           k == [j EXCEPT !.stage = "edited", !.clone = store, !.todo = todo]
<1>2. /\ ResultOK(store, r) /\ (r.store[InstanceFile] # Missing \/ Inert(r))
      /\ (j.command # "start" => FilesKept(store, r.store) /\ (Started \/ ~r.push))
  BY OutcomesOK
<1>3. comments \in Nat /\ comments + 1 \in Nat /\ StoreOK(store) /\ JobOK(j)
  BY DEF EngineInv
<1>4. /\ TodoOK(todo) /\ (todo.push \/ todo.store = store)
      /\ AnswersKept(store, todo.store) /\ ManifestsFilled(store, todo.store)
      /\ (j.command # "start" => FilesKept(store, todo.store) /\ (Started \/ ~todo.push))
  <2>1. CASE creates
    <3>1. r.store[InstanceFile] # Missing /\ r.tells
      BY <2>1 DEF NeedsComment
    <3>2. /\ TodoOK(todo) /\ todo.push
          /\ AnswersKept(store, todo.store) /\ ManifestsFilled(store, todo.store)
          /\ FilesKept(r.store, todo.store)
      BY <1>2, <1>3, <2>1, <3>1, CreatedOK
    <3>3. r.push
      BY <1>2, <3>1 DEF ResultOK
    <3> HIDE DEF todo
    <3> QED
      BY <1>2, <3>2, <3>3 DEF FilesKept
  <2>2. CASE ~creates
    <3>1. todo = r
      BY <2>2
    <3>2. TodoOK(r)
      BY <1>2 DEF ResultOK, TodoOK
    <3> HIDE DEF todo
    <3> QED
      BY <1>2, <3>1, <3>2 DEF ResultOK
  <2> QED
    BY <2>1, <2>2
<1> HIDE DEF todo
<1>5. /\ DOMAIN k = JobFields /\ k.stage = "edited" /\ k.clone = store /\ k.todo = todo
      /\ k.group = j.group /\ k.role = j.role /\ k.command = j.command /\ k.path = j.path
  BY <1>3 DEF JobOK, JobFields
<1>6. Becomes(j, k) /\ comments' \in Nat
  <2>1. Becomes(j, k) /\ comments' = IF creates THEN comments + 1 ELSE comments
    BY <1>1 DEF todo
  <2> HIDE DEF creates
  <2> QED
    BY <1>3, <2>1
<1> HIDE DEF k
<1>7. JobOK(k)
  BY <1>3, <1>4, <1>5 DEF JobOK
<1>8. QED
  BY <1>4, <1>5, <1>6, <1>7

-----------------------------------------------------------------------------
(* Every step keeps the invariant. *)

BoundsOK == used \in [Bounds -> Nat] /\ \A b \in Bounds : used[b] <= Limit[b]

\* A step that changes one job, in its group.
LEMMA GoesOnInGroup ==
  ASSUME EngineInv, NEW j \in jobs, NEW k, JobOK(k),
         k.group = j.group, k.role = j.role, k.command = j.command,
         Becomes(j, k), UNCHANGED <<waiting, used>>,
         StoreOK(store'), Started => Started',
         \/ Started'
         \/ store' = store /\ k.stage = "edited" /\ k.clone[InstanceFile] = Missing,
         check' \in Checks, comments' \in Nat
  PROVE  EngineInv'
<1>1. (\A i \in jobs : JobOK(i)) /\ GroupsExclusive /\ UntilStarted
  BY DEF EngineInv
<1>2. /\ \A i \in jobs' : JobOK(i)
      /\ GroupsExclusive'
      /\ jobs' = (jobs \ {j}) \union {k}
  BY <1>1, BecomesOK
<1>3. UntilStarted'
  <2>1. CASE Started'
    BY <2>1 DEF UntilStarted
  <2>2. CASE ~Started'
    <3>1. /\ ~Started /\ store' = store /\ k.stage = "edited"
          /\ k.clone[InstanceFile] = Missing
      BY <2>2
    <3>2. \A i \in jobs : /\ i.stage # "ready" => i.clone[InstanceFile] = Missing
                          /\ i.stage \notin {"pushed", "marked"}
                          /\ i.role = "plan" /\ i.command \in Replies \union {"start"}
      BY <1>1, <3>1 DEF UntilStarted
    <3>3. \A i \in jobs' : /\ i.stage # "ready" => i.clone[InstanceFile] = Missing
                           /\ i.stage \notin {"pushed", "marked"}
                           /\ i.role = "plan" /\ i.command \in Replies \union {"start"}
      BY <1>2, <3>1, <3>2
    <3>4. /\ \A f \in Files : store'[f] = Missing
          /\ \A w \in waiting' : w.command \in Replies \union {"start"}
      BY <1>1, <3>1 DEF UntilStarted
    <3> QED
      BY <3>3, <3>4 DEF UntilStarted
  <2> QED
    BY <2>1, <2>2
<1>4. QED
  BY <1>2, <1>3 DEF EngineInv

\* A step that ends a job, starts legs, or brings events.
LEMMA ArrivesInGroup ==
  ASSUME EngineInv, NEW J, NEW E, Schedule(J, E),
         \A j \in J : JobOK(j) /\ (j \in jobs \/ j.stage = "ready"), Exclusive(J),
         \A e \in E : EventOK(e), \A d, e \in E : d = e,
         StoreOK(store'), Started => Started',
         \/ Started'
         \/ /\ store' = store /\ J \subseteq jobs
            /\ \A e \in E : e.command \in Replies \union {"start"},
         check' \in Checks, comments' \in Nat, BoundsOK'
  PROVE  EngineInv'
<1>1. /\ \A w \in waiting : EventOK(w)
      /\ \A v, w \in waiting : Group(v) = Group(w) => v = w
      /\ UntilStarted
  BY DEF EngineInv, GroupsExclusive
<1>2. /\ \A j \in jobs' : JobOK(j)
      /\ \A w \in waiting' : EventOK(w)
      /\ GroupsExclusive'
      /\ \A k \in jobs' : \/ k \in J
                          \/ \E w \in waiting \union E : k = Queued(w) /\ w \notin waiting'
      /\ waiting' \subseteq waiting \union E
  BY <1>1, ScheduleOK
<1>3. \A w \in waiting \union E :
        /\ Queued(w).stage = "ready" /\ Queued(w).command = w.command
        /\ w.workflow # "join" => Queued(w).role = "plan"
        /\ w.command \in Replies \union {"start"} => w.workflow # "join"
  BY <1>1, QueuedOK DEF EventOK, Replies
<1>4. UntilStarted'
  <2>1. CASE Started'
    BY <2>1 DEF UntilStarted
  <2>2. CASE ~Started'
    <3>1. /\ ~Started /\ store' = store /\ J \subseteq jobs
          /\ \A e \in E : e.command \in Replies \union {"start"}
      BY <2>2
    <3>2. \A i \in J : /\ i.stage # "ready" => i.clone[InstanceFile] = Missing
                       /\ i.stage \notin {"pushed", "marked"}
                       /\ i.role = "plan" /\ i.command \in Replies \union {"start"}
      BY <1>1, <3>1 DEF UntilStarted
    <3>3. \A w \in waiting \union E : w.command \in Replies \union {"start"}
      BY <1>1, <3>1 DEF UntilStarted
    <3>4. \A w \in waiting \union E :
            /\ Queued(w).stage = "ready" /\ Queued(w).role = "plan"
            /\ Queued(w).command \in Replies \union {"start"}
      BY <1>3, <3>3
    <3>5. \A i \in jobs' : /\ i.stage # "ready" => i.clone[InstanceFile] = Missing
                           /\ i.stage \notin {"pushed", "marked"}
                           /\ i.role = "plan" /\ i.command \in Replies \union {"start"}
      BY <1>2, <3>2, <3>4
    <3>6. /\ \A f \in Files : store'[f] = Missing
          /\ \A w \in waiting' : w.command \in Replies \union {"start"}
      BY <1>1, <1>2, <3>1, <3>3 DEF UntilStarted
    <3> QED
      BY <3>5, <3>6 DEF UntilStarted
  <2> QED
    BY <2>1, <2>2
<1>5. QED
  BY <1>2, <1>4 DEF EngineInv, BoundsOK

LEMMA LeavesGroup ==
  ASSUME EngineInv, NEW j \in jobs, NEW E, Leave(j, E), EmitOK(E), E # {} => Started,
         store' = store, check' \in Checks, comments' \in Nat, BoundsOK'
  PROVE  EngineInv'
<1>1. Schedule(jobs \ {j}, E)
  BY DEF Leave
<1>2. \A i \in jobs \ {j} : JobOK(i) /\ i \in jobs
  BY DEF EngineInv
<1>3. Exclusive(jobs \ {j})
  BY DEF EngineInv, GroupsExclusive, Exclusive
<1>4. (\A e \in E : EventOK(e)) /\ (\A d, e \in E : d = e)
  BY DEF EmitOK
<1>5. StoreOK(store') /\ (Started <=> Started')
  BY DEF EngineInv, Started
<1>6. \/ Started'
      \/ /\ store' = store /\ jobs \ {j} \subseteq jobs
         /\ \A e \in E : e.command \in Replies \union {"start"}
  BY <1>5
<1>7. QED
  BY <1>1, <1>2, <1>3, <1>4, <1>5, <1>6, ArrivesInGroup

LEMMA ExecuteKeeps == ASSUME EngineInv, NEW j \in jobs, Execute(j) PROVE EngineInv'
<1>1. PICK k : /\ Becomes(j, k)
               /\ JobOK(k) /\ k.group = j.group /\ k.role = j.role /\ k.command = j.command
               /\ k.stage = "edited" /\ k.clone = store
               /\ comments' \in Nat
  BY ExecuteOK
<1>2. UNCHANGED <<store, waiting, check, used>>
  BY DEF Execute
<1>3. StoreOK(store') /\ check' \in Checks /\ (Started <=> Started')
  BY <1>2 DEF EngineInv, Started
<1>4. Started' \/ (store' = store /\ k.stage = "edited" /\ k.clone[InstanceFile] = Missing)
  BY <1>1, <1>2, <1>3 DEF Started
<1>5. QED
  BY <1>1, <1>2, <1>3, <1>4, GoesOnInGroup

LEMMA ReportOK ==
  ASSUME EngineInv, NEW j \in jobs, Report(j)
  PROVE  \E k : /\ Becomes(j, k)
                /\ JobOK(k) /\ k.group = j.group /\ k.role = j.role /\ k.command = j.command
                /\ k.path = j.path /\ k.said = j.said
                /\ k.stage = "edited" /\ k.clone = j.clone
                /\ k.todo.store = j.todo.store /\ k.todo.push = j.todo.push
                /\ k.todo.emit = j.todo.emit /\ k.todo.runs = j.todo.runs
                /\ k.todo.legs = j.todo.legs
<1> DEFINE todo == [j.todo EXCEPT !.check = None]
           k == [j EXCEPT !.todo.check = None]
<1>1. JobOK(j) /\ j.stage = "edited"
  BY DEF EngineInv, Report
<1>2. DOMAIN j = JobFields /\ DOMAIN j.todo = ResultFields /\ TodoOK(j.todo)
  BY <1>1 DEF JobOK, TodoOK
<1>3. /\ DOMAIN todo = ResultFields /\ todo.store = j.todo.store /\ todo.push = j.todo.push
      /\ todo.runs = j.todo.runs /\ todo.check = None /\ todo.emit = j.todo.emit
      /\ todo.legs = j.todo.legs
  BY <1>2 DEF ResultFields
<1>4. /\ DOMAIN k = JobFields /\ k.group = j.group /\ k.role = j.role /\ k.path = j.path
      /\ k.command = j.command /\ k.said = j.said
      /\ k.stage = j.stage /\ k.clone = j.clone /\ k.todo = todo
  BY <1>2 DEF JobFields
<1>5. Becomes(j, k)
  BY DEF Report
<1> HIDE DEF todo, k
<1>6. TodoOK(todo)
  BY <1>2, <1>3 DEF TodoOK, Inert, Checks
<1>7. JobOK(k)
  BY <1>1, <1>3, <1>4, <1>6 DEF JobOK
<1>8. QED
  BY <1>1, <1>3, <1>4, <1>5, <1>7

LEMMA ReportKeeps == ASSUME EngineInv, NEW j \in jobs, Report(j) PROVE EngineInv'
<1>1. PICK k : /\ Becomes(j, k)
               /\ JobOK(k) /\ k.group = j.group /\ k.role = j.role /\ k.command = j.command
               /\ k.stage = "edited" /\ k.clone = j.clone /\ k.todo.store = j.todo.store
  BY ReportOK
<1>2. UNCHANGED <<store, waiting, comments, used>> /\ check' = j.todo.check /\ j.stage = "edited"
  BY DEF Report
<1>3. check' \in Checks /\ comments' \in Nat /\ StoreOK(store') /\ (Started <=> Started')
  BY <1>2 DEF EngineInv, JobOK, TodoOK, Started
<1>4. k.clone[InstanceFile] # Missing => Started
  BY <1>1, <1>2 DEF EngineInv, UntilStarted
<1>5. Started' \/ (store' = store /\ k.stage = "edited" /\ k.clone[InstanceFile] = Missing)
  BY <1>1, <1>2, <1>3, <1>4
<1>6. QED
  BY <1>1, <1>2, <1>3, <1>5, GoesOnInGroup

\* What a push makes of the branch.
LEMMA RebasedIs ==
  ASSUME EngineInv, NEW j \in jobs, j.stage = "edited", j.todo.push
  PROVE  /\ StoreOK(Rebased(j))
         /\ \A f \in Files : Rebased(j)[f] = IF f \in Edited(j) THEN j.todo.store[f] ELSE store[f]
         /\ Rebased(j)[InstanceFile] # Missing
<1>1. /\ StoreOK(j.todo.store) /\ StoreOK(j.clone) /\ StoreOK(store)
      /\ j.todo.store[InstanceFile] # Missing
  BY DEF EngineInv, JobOK, TodoOK, Inert
<1>2. /\ DOMAIN Rebased(j) = Files
      /\ \A f \in Files : Rebased(j)[f] = IF f \in Edited(j) THEN j.todo.store[f] ELSE store[f]
  BY DEF Rebased
<1>3. StoreOK(Rebased(j))
  BY <1>1, <1>2 DEF StoreOK
<1>4. InstanceFile \in Files
  BY FilesAre
<1>5. CASE InstanceFile \in Edited(j)
  BY <1>1, <1>2, <1>3, <1>4, <1>5
<1>6. CASE InstanceFile \notin Edited(j)
  <2>1. j.clone[InstanceFile] # Missing
    BY <1>1, <1>4, <1>6 DEF Edited
  <2>2. store[InstanceFile] # Missing
    BY <2>1 DEF EngineInv, UntilStarted, Started
  <2> QED
    BY <1>2, <1>3, <1>4, <1>6, <2>2
<1> QED
  BY <1>5, <1>6

LEMMA PushOK ==
  ASSUME EngineInv, NEW j \in jobs, Push(j)
  PROVE  \E k : /\ Becomes(j, k)
                /\ JobOK(k) /\ k.group = j.group /\ k.role = j.role /\ k.command = j.command
                /\ k.path = j.path /\ k.said = j.said
                /\ k.stage = "pushed" /\ k.clone = Rebased(j) /\ k.todo = j.todo
<1> DEFINE k == [j EXCEPT !.stage = "pushed", !.clone = Rebased(j)]
<1>1. JobOK(j) /\ j.stage = "edited" /\ j.todo.push
  BY DEF EngineInv, Push, Pushing
<1>2. StoreOK(Rebased(j))
  BY <1>1, RebasedIs
<1>3. /\ DOMAIN k = JobFields /\ k.group = j.group /\ k.role = j.role /\ k.path = j.path
      /\ k.command = j.command /\ k.said = j.said
      /\ k.stage = "pushed" /\ k.clone = Rebased(j) /\ k.todo = j.todo
  BY <1>1 DEF JobOK, JobFields
<1>4. Becomes(j, k)
  BY DEF Push
<1> HIDE DEF k
<1>5. JobOK(k)
  BY <1>1, <1>2, <1>3 DEF JobOK
<1>6. QED
  BY <1>3, <1>4, <1>5

LEMMA PushKeeps == ASSUME EngineInv, NEW j \in jobs, Push(j) PROVE EngineInv'
<1>1. PICK k : /\ Becomes(j, k)
               /\ JobOK(k) /\ k.group = j.group /\ k.role = j.role /\ k.command = j.command
  BY PushOK
<1>2. /\ UNCHANGED <<waiting, check, comments, used>> /\ store' = Rebased(j)
      /\ j.stage = "edited" /\ j.todo.push
  BY DEF Push, Pushing
<1>3. StoreOK(store') /\ Started'
  BY <1>2, RebasedIs DEF Started
<1>4. check' \in Checks /\ comments' \in Nat
  BY <1>2 DEF EngineInv
<1>5. QED
  BY <1>1, <1>2, <1>3, <1>4, GoesOnInGroup

LEMMA FailPushKeeps == ASSUME EngineInv, NEW j \in jobs, FailPush(j) PROVE EngineInv'
<1>1. Leave(j, {}) /\ UNCHANGED <<store, check, comments, used>>
  BY DEF FailPush
<1>2. check' \in Checks /\ comments' \in Nat /\ BoundsOK'
  BY <1>1 DEF EngineInv, BoundsOK
<1>3. QED
  BY <1>1, <1>2, LeavesGroup, NothingIsEmitted

LEMMA LandedStarted ==
  ASSUME EngineInv, NEW j \in jobs, Landed(j)
  PROVE  TodoOK(j.todo) /\ JobOK(j) /\ (Started \/ Inert(j.todo))
<1>1. /\ JobOK(j) /\ TodoOK(j.todo) /\ j.stage # "ready"
      /\ j.stage = "edited" => j.todo.push \/ j.todo.store = j.clone
  BY DEF EngineInv, Landed, JobOK
<1>2. CASE j.stage = "pushed"
  BY <1>1, <1>2 DEF EngineInv, UntilStarted
<1>3. CASE j.stage = "edited" /\ ~j.todo.push
  BY <1>1, <1>3 DEF EngineInv, UntilStarted, TodoOK
<1>4. QED
  BY <1>1, <1>2, <1>3 DEF Landed

LEMMA FinishKeeps == ASSUME EngineInv, NEW j \in jobs, Finish(j) PROVE EngineInv'
<1>1. Landed(j) /\ Leave(j, j.todo.emit) /\ UNCHANGED <<store, check, comments, used>>
  BY DEF Finish
<1>2. EmitOK(j.todo.emit) /\ (j.todo.emit # {} => Started)
  BY <1>1, LandedStarted DEF TodoOK, Inert
<1>3. check' \in Checks /\ comments' \in Nat /\ BoundsOK'
  BY <1>1 DEF EngineInv, BoundsOK
<1>4. QED
  BY <1>1, <1>2, <1>3, LeavesGroup

LEMMA MarkOK ==
  ASSUME EngineInv, NEW j \in jobs, MarkInProgress(j)
  PROVE  \E k : /\ Becomes(j, k)
                /\ JobOK(k) /\ k.group = j.group /\ k.role = j.role /\ k.command = j.command
                /\ k.path = j.path /\ k.said = j.said
                /\ k.stage = "marked" /\ k.clone = j.clone /\ k.todo = j.todo
<1> DEFINE k == [j EXCEPT !.stage = "marked"]
<1>1. JobOK(j) /\ j.stage \in {"edited", "pushed"} /\ j.todo.runs
  BY DEF EngineInv, MarkInProgress, Landed
<1>2. /\ DOMAIN k = JobFields /\ k.group = j.group /\ k.role = j.role /\ k.path = j.path
      /\ k.command = j.command /\ k.said = j.said
      /\ k.stage = "marked" /\ k.clone = j.clone /\ k.todo = j.todo
  BY <1>1 DEF JobOK, JobFields
<1>3. Becomes(j, k)
  BY DEF MarkInProgress
<1> HIDE DEF k
<1>4. JobOK(k)
  BY <1>1, <1>2 DEF JobOK
<1>5. QED
  BY <1>2, <1>3, <1>4

LEMMA MarkKeeps == ASSUME EngineInv, NEW j \in jobs, MarkInProgress(j) PROVE EngineInv'
<1>1. PICK k : /\ Becomes(j, k)
               /\ JobOK(k) /\ k.group = j.group /\ k.role = j.role /\ k.command = j.command
  BY MarkOK
<1>2. /\ UNCHANGED <<store, waiting, comments, used>> /\ Landed(j) /\ j.todo.runs
      /\ check' = IF j.todo.legs = {} THEN check ELSE "in_progress"
  BY DEF MarkInProgress
<1>3. Started /\ Started'
  BY <1>2, LandedStarted DEF Inert, Started
<1>4. check' \in Checks
  <2>1. check \in Checks /\ "in_progress" \in Checks
    BY DEF EngineInv, Checks
  <2> QED
    BY <1>2, <2>1
<1>5. comments' \in Nat /\ StoreOK(store')
  BY <1>2 DEF EngineInv
<1>6. QED
  BY <1>1, <1>2, <1>3, <1>4, <1>5, GoesOnInGroup

\* The legs take the group over from the job that planned them.
LEMMA DispatchedOK ==
  ASSUME EngineInv, NEW j \in jobs, j.stage = "marked"
  PROVE  /\ \A k \in Dispatched(j) : JobOK(k)
         /\ \A k \in Dispatched(j) :
              k \in jobs \ {j} \/ (k.stage = "ready" /\ k.role = "leg" /\ k.command = None)
         /\ Exclusive(Dispatched(j))
         /\ Started
<1>1. /\ JobOK(j) /\ j.group \in RunTags /\ j.todo.legs \subseteq Units
      /\ Started
  BY DEF EngineInv, JobOK, TodoOK, UntilStarted
<1>2. \A p \in j.todo.legs :
        /\ JobOK(Leg(j.group, p)) /\ Leg(j.group, p).group = j.group
        /\ Leg(j.group, p).stage = "ready" /\ Leg(j.group, p).role = "leg"
        /\ Leg(j.group, p).command = None
  BY <1>1, LegOK
<1>3. \A k \in Dispatched(j) :
        \/ k \in jobs \ {j}
        \/ /\ JobOK(k) /\ k.group = j.group /\ k.stage = "ready" /\ k.role = "leg"
           /\ k.command = None
  BY <1>2 DEF Dispatched
<1>4. \A i, k \in jobs : i.group = k.group /\ i # k => i.role = "leg" /\ k.role = "leg"
  BY DEF EngineInv, GroupsExclusive
<1>5. Exclusive(Dispatched(j))
  <2> SUFFICES ASSUME NEW i \in Dispatched(j), NEW k \in Dispatched(j), i.group = k.group, i # k
               PROVE  i.role = "leg" /\ k.role = "leg"
    BY DEF Exclusive
  <2>1. CASE i \in jobs \ {j} /\ k \in jobs \ {j}
    BY <1>4, <2>1
  <2>2. CASE i \in jobs \ {j} /\ k \notin jobs \ {j}
    BY <1>3, <1>4, <2>2
  <2>3. CASE i \notin jobs \ {j} /\ k \in jobs \ {j}
    BY <1>3, <1>4, <2>3
  <2>4. CASE i \notin jobs \ {j} /\ k \notin jobs \ {j}
    BY <1>3, <2>4
  <2> QED
    BY <2>1, <2>2, <2>3, <2>4
<1>6. \A k \in jobs : JobOK(k)
  BY DEF EngineInv
<1>7. QED
  BY <1>1, <1>3, <1>5, <1>6

LEMMA StartLegsKeeps == ASSUME EngineInv, NEW j \in jobs, StartLegs(j) PROVE EngineInv'
<1>1. /\ j.stage = "marked" /\ Schedule(Dispatched(j), {})
      /\ UNCHANGED <<store, check, comments, used>>
  BY DEF StartLegs
<1>2. /\ \A k \in Dispatched(j) : JobOK(k) /\ (k \in jobs \/ k.stage = "ready")
      /\ Exclusive(Dispatched(j)) /\ Started /\ Started'
  BY <1>1, DispatchedOK DEF Started
<1>3. StoreOK(store') /\ check' \in Checks /\ comments' \in Nat /\ BoundsOK'
  BY <1>1 DEF EngineInv, BoundsOK
<1>4. QED
  BY <1>1, <1>2, <1>3, ArrivesInGroup

\* The status comment's number is recorded in an instance that is there.
LEMMA CommentRecorded ==
  ASSUME EngineInv, NEW j \in jobs, StartLegsWithComment(j)
  PROVE  StoreOK(store') /\ Keeps(store, store') /\ Started /\ Started'
<1> DEFINE i == [store[InstanceFile] EXCEPT !.comment = comments + 1]
<1>1. /\ StoreOK(store) /\ comments \in Nat /\ comments + 1 \in Nat
      /\ store[InstanceFile] # Missing
      /\ store' = [store EXCEPT ![InstanceFile].comment = comments + 1]
  BY DEF EngineInv, StartLegsWithComment, NeedsComment
<1>2. store' = Write(store, InstanceFile, i)
  BY <1>1 DEF Write
<1>3. i \in Instances
  <2>1. store[InstanceFile] \in Instances
    BY <1>1, InstanceValue
  <2> QED
    BY <1>1, <2>1, InstancesChange
<1> HIDE DEF i
<1>4. Keeps(store, store')
  BY <1>1, <1>2, <1>3, WriteInstance
<1>5. QED
  BY <1>1, <1>4, FilesAre DEF Keeps, FilesKept, Started

LEMMA StartLegsWithCommentKeeps ==
  ASSUME EngineInv, NEW j \in jobs, StartLegsWithComment(j)
  PROVE  EngineInv'
<1>1. /\ j.stage = "marked" /\ Schedule(Dispatched(j), {})
      /\ comments' = comments + 1 /\ UNCHANGED <<check, used>>
  BY DEF StartLegsWithComment
<1>2. /\ \A k \in Dispatched(j) : JobOK(k) /\ (k \in jobs \/ k.stage = "ready")
      /\ Exclusive(Dispatched(j))
  BY <1>1, DispatchedOK
<1>3. check' \in Checks /\ comments' \in Nat /\ BoundsOK'
  BY <1>1 DEF EngineInv, BoundsOK
<1>4. StoreOK(store') /\ Started'
  BY CommentRecorded
<1>5. QED
  BY <1>1, <1>2, <1>3, <1>4, ArrivesInGroup

LEMMA FailCommentKeeps == ASSUME EngineInv, NEW j \in jobs, FailComment(j) PROVE EngineInv'
<1>1. Leave(j, {}) /\ UNCHANGED <<store, check, used>> /\ comments' = comments + 1
  BY DEF FailComment
<1>2. check' \in Checks /\ comments' \in Nat /\ BoundsOK'
  BY <1>1 DEF EngineInv, BoundsOK
<1>3. QED
  BY <1>1, <1>2, LeavesGroup, NothingIsEmitted

LEMMA UseOK ==
  ASSUME EngineInv, NEW b \in Bounds, Use(b)
  PROVE  BoundsOK' /\ used'[b] = used[b] + 1 /\ \A c \in Bounds : c # b => used'[c] = used[c]
<1>1. /\ used \in [Bounds -> Nat] /\ \A c \in Bounds : used[c] <= Limit[c] /\ Limit[c] \in Nat
      /\ used[b] < Limit[b] /\ used' = [used EXCEPT ![b] = used[b] + 1]
  BY LimitAssumption DEF EngineInv, Use
<1>2. used' \in [Bounds -> Nat]
  BY <1>1
<1>3. \A c \in Bounds : used'[c] <= Limit[c]
  BY <1>1
<1>4. QED
  BY <1>1, <1>2, <1>3 DEF BoundsOK

LEMMA DieKeeps == ASSUME EngineInv, NEW j \in jobs, Die(j) PROVE EngineInv'
<1>1. Use("death") /\ Leave(j, {}) /\ UNCHANGED <<store, check, comments>>
  BY DEF Die
<1>2. BoundsOK'
  BY <1>1, UseOK DEF Bounds
<1>3. check' \in Checks /\ comments' \in Nat
  BY <1>1 DEF EngineInv
<1>4. QED
  BY <1>1, <1>2, <1>3, LeavesGroup, NothingIsEmitted

\* An event that no job sends: a comment, or a `continue` once more.
LEMMA OutsideKeeps ==
  ASSUME EngineInv, NEW e, EventOK(e), Schedule(jobs, {e}), UNCHANGED <<store, check, comments>>,
         BoundsOK', Started \/ e.command \in Replies \union {"start"}
  PROVE  EngineInv'
<1>1. \A k \in jobs : JobOK(k) /\ (k \in jobs \/ k.stage = "ready")
  BY DEF EngineInv
<1>2. Exclusive(jobs)
  BY DEF EngineInv, GroupsExclusive, Exclusive
<1>3. StoreOK(store') /\ check' \in Checks /\ comments' \in Nat /\ (Started <=> Started')
  BY DEF EngineInv, Started
<1>4. QED
  BY <1>1, <1>2, <1>3, ArrivesInGroup

LEMMA CommentEvent ==
  ASSUME EngineInv, NEW command, NEW said, Comment(command, said)
  PROVE  \E e : /\ EventOK(e) /\ e.command = command /\ Schedule(jobs, {e})
                /\ command \in Replies \union {"start"}
<1>1. command \in Replies \union {"start"}
  BY CommandsAssumption DEF Comment
<1>2. CASE command = "answer" /\ ~PullRequest
  <2> DEFINE e == Event("resume", command, Alone, said)
  <2>1. Schedule(jobs, {e})
    BY <1>2 DEF Comment
  <2>2. Alone \in Paths
    <3>1. used["reply"] + 1 \in Nat
      BY DEF EngineInv, Bounds
    <3>2. Alone \in Seq({"comment"})
      BY <3>1 DEF Alone
    <3> QED
      BY <3>2 DEF Paths
  <2>3. EventOK(e) /\ e.command = command
    BY <1>1, <2>2 DEF EventOK, Event, Workflows
  <2> QED
    BY <1>1, <2>1, <2>3
<1>3. CASE ~(command = "answer" /\ ~PullRequest)
  <2> DEFINE e == Event("engine", command, <<>>, said)
  <2>1. Schedule(jobs, {e})
    BY <1>3 DEF Comment
  <2>2. <<>> \in Paths
    BY EmptySeq DEF Paths
  <2>3. EventOK(e) /\ e.command = command
    BY <1>1, <2>2 DEF EventOK, Event, Workflows
  <2> QED
    BY <1>1, <2>1, <2>3
<1>4. QED
  BY <1>2, <1>3

LEMMA CommentKeeps ==
  ASSUME EngineInv, NEW command, NEW said, Comment(command, said)
  PROVE  EngineInv'
<1>1. PICK e : /\ EventOK(e) /\ e.command = command /\ Schedule(jobs, {e})
               /\ command \in Replies \union {"start"}
  BY CommentEvent
<1>2. /\ Use(IF command = "start" THEN "start" ELSE "reply")
      /\ UNCHANGED <<store, check, comments>>
  BY DEF Comment
<1>3. BoundsOK'
  BY <1>2, UseOK DEF Bounds
<1>4. QED
  BY <1>1, <1>2, <1>3, OutsideKeeps

LEMMA RedeliverKeeps ==
  ASSUME EngineInv, NEW p \in DOMAIN Tree, Redeliver(p)
  PROVE  EngineInv'
<1>1. /\ Started /\ Use("redelivery") /\ Schedule(jobs, {Continue(p)})
      /\ UNCHANGED <<store, check, comments>>
  BY DEF Redeliver, Started
<1>2. BoundsOK'
  BY <1>1, UseOK DEF Bounds
<1>3. EventOK(Continue(p))
  BY TreeAssumption, ContinueOK
<1>4. QED
  BY <1>1, <1>2, <1>3, OutsideKeeps

LEMMA StepKeeps == ASSUME EngineInv, NEW j \in jobs, Step(j) PROVE EngineInv'
BY ExecuteKeeps, ReportKeeps, PushKeeps, FailPushKeeps, FinishKeeps, MarkKeeps, StartLegsKeeps,
   StartLegsWithCommentKeeps, FailCommentKeeps DEF Step

LEMMA StutterKeeps == EngineInv /\ UNCHANGED vars => EngineInv'
<1> SUFFICES ASSUME EngineInv, UNCHANGED vars PROVE EngineInv'
  OBVIOUS
<1>1. UNCHANGED <<store, jobs, waiting, check, comments, used>>
  BY DEF vars
<1>2. UntilStarted'
  BY <1>1 DEF EngineInv, UntilStarted, Started
<1>3. GroupsExclusive'
  BY <1>1 DEF EngineInv, GroupsExclusive, Busy, Group
<1>4. QED
  BY <1>1, <1>2, <1>3 DEF EngineInv

\* Every file, job and event the engine ever has is well-formed, in every protocol
\* that meets the assumptions: the invariant the theorems below rest on.
THEOREM EngineInvariant == Spec => []EngineInv
<1>1. Init => EngineInv
  BY InitOK
<1>2. EngineInv /\ [Next]_vars => EngineInv'
  <2> SUFFICES ASSUME EngineInv, [Next]_vars PROVE EngineInv'
    OBVIOUS
  <2>1. CASE Work
    BY <2>1, StepKeeps DEF Work
  <2>2. CASE \E command \in Commands : \E said \in SaidWith(command) : Comment(command, said)
    BY <2>2, CommentKeeps
  <2>3. CASE \E p \in DOMAIN Tree \ {<<>>} : Redeliver(p)
    BY <2>3, RedeliverKeeps
  <2>4. CASE \E j \in jobs : Die(j)
    BY <2>4, DieKeeps
  <2>5. CASE UNCHANGED vars
    BY <2>5, StutterKeeps
  <2> QED
    BY <2>1, <2>2, <2>3, <2>4, <2>5 DEF Next
<1>3. QED
  BY <1>1, <1>2, PTL DEF Spec

\* Type correctness of the engine: in particular the iteration of a unit never
\* exceeds its max_iterations, whatever is delivered twice.
THEOREM TypeCorrect == Spec => []TypeOK
<1>1. EngineInv => TypeOK
  <2> SUFFICES ASSUME EngineInv PROVE TypeOK
    OBVIOUS
  <2>1. \A f \in Files : FileOK(f, store[f])
    BY DEF EngineInv, StoreOK
  <2>2. \A j \in jobs : /\ j.role \in {"plan", "leg", "join"}
                        /\ j.stage \in {"ready", "edited", "pushed", "marked"}
    BY DEF EngineInv, JobOK
  <2>3. \A e \in waiting : Busy(jobs, Group(e))
    BY DEF EngineInv, GroupsExclusive
  <2>4. \A b \in Bounds : used[b] \in 0 .. Limit[b]
    BY LimitAssumption DEF EngineInv
  <2>5. QED
    BY <2>1, <2>2, <2>3, <2>4 DEF TypeOK, EngineInv
<1>2. QED
  BY <1>1, EngineInvariant, PTL

\* The concurrency groups of the workflows hold, whatever dies or is delivered twice:
\* a group has one plan or one join at a time, or the legs that plan started, and one
\* event waits for it.
THEOREM OneRunPerGroup == Spec => []GroupsExclusive
<1>1. EngineInv => GroupsExclusive
  BY DEF EngineInv
<1>2. QED
  BY <1>1, EngineInvariant, PTL

-----------------------------------------------------------------------------
(* Answers. *)

\* Of the steps only a push and the record of the comment change the branch.
LEMMA StoreChanges ==
  ASSUME EngineInv, [Next]_vars
  PROVE  \/ UNCHANGED store
         \/ \E j \in jobs : Push(j)
         \/ \E j \in jobs : StartLegsWithComment(j)
BY DEF Next, Work, Step, Execute, Report, FailPush, Finish, MarkInProgress, StartLegs,
   FailComment, Comment, Redeliver, Die, vars

\* Answers are appended to the file that is on the branch: a push that would land
\* on other answers conflicts, and a script adds to those it read.
LEMMA PushKeepsAnswers ==
  ASSUME EngineInv, NEW j \in jobs, Push(j)
  PROVE  AnswersKept(store, store')
<1>1. /\ j.stage = "edited" /\ j.todo.push /\ Conflicts(j) = {} /\ store' = Rebased(j)
      /\ AnswersKept(j.clone, j.todo.store)
  BY DEF EngineInv, Push, Pushing, JobOK
<1> SUFFICES ASSUME NEW p \in LegGates, store'[AnswersFile(p)] # Missing
             PROVE  AnsweredAt(store, p) \subseteq AnsweredAt(store', p)
  BY DEF AnswersKept
<1>2. AnswersFile(p) \in Files
  BY FilesAre
<1>3. CASE AnswersFile(p) \notin Edited(j)
  <2>1. store'[AnswersFile(p)] = store[AnswersFile(p)]
    BY <1>1, <1>2, <1>3, RebasedIs
  <2> QED
    BY <2>1 DEF AnsweredAt
<1>4. CASE AnswersFile(p) \in Edited(j)
  <2>1. store'[AnswersFile(p)] = j.todo.store[AnswersFile(p)]
    BY <1>1, <1>2, <1>4, RebasedIs
  <2>2. AnsweredAt(store', p) = AnsweredAt(j.todo.store, p)
    BY <2>1 DEF AnsweredAt
  <2>3. \/ store[AnswersFile(p)] = j.clone[AnswersFile(p)]
        \/ store[AnswersFile(p)] = j.todo.store[AnswersFile(p)]
    BY <1>1, <1>4 DEF Conflicts
  <2>4. CASE store[AnswersFile(p)] = j.clone[AnswersFile(p)]
    <3>1. AnsweredAt(store, p) = AnsweredAt(j.clone, p)
      BY <2>4 DEF AnsweredAt
    <3>2. AnsweredAt(j.clone, p) \subseteq AnsweredAt(j.todo.store, p)
      BY <1>1, <2>1 DEF AnswersKept
    <3> QED
      BY <2>2, <3>1, <3>2
  <2>5. CASE store[AnswersFile(p)] = j.todo.store[AnswersFile(p)]
    BY <2>2, <2>5 DEF AnsweredAt
  <2> QED
    BY <2>3, <2>4, <2>5
<1>5. QED
  BY <1>3, <1>4

\* No answer that was recorded is lost, whoever answers at the same time and in
\* whatever order the pushes land, unless the instance starts over (do_answer).
THEOREM AnswersAreKept == Spec => AnswersStay
<1>1. EngineInv /\ [Next]_vars =>
        [\A p \in LegGates : store'[AnswersFile(p)] # Missing =>
           AnsweredAt(store, p) \subseteq AnsweredAt(store', p)]_vars
  <2> SUFFICES ASSUME EngineInv, [Next]_vars PROVE AnswersKept(store, store')
    BY DEF AnswersKept
  <2>1. CASE UNCHANGED store
    BY <2>1 DEF AnswersKept
  <2>2. CASE \E j \in jobs : Push(j)
    BY <2>2, PushKeepsAnswers
  <2>3. CASE \E j \in jobs : StartLegsWithComment(j)
    BY <2>3, CommentRecorded, KeepsAnswersAndManifests
  <2> QED
    BY <2>1, <2>2, <2>3, StoreChanges
<1>2. QED
  BY <1>1, EngineInvariant, PTL DEF Spec, AnswersStay

-----------------------------------------------------------------------------
(* Manifests, with one start. *)

LEMMA InitOneStart == Init => OneStart
<1> SUFFICES ASSUME Init PROVE OneStart
  OBVIOUS
<1>1. ~Started
  BY FilesAre DEF Init, Started
<1>2. QED
  BY <1>1 DEF Init, OneStart, StartsOnce, ClonesKept

\* Events come, jobs leave or give way to legs.
LEMMA OneStartArrives ==
  ASSUME EngineInv, OneStart, NEW J, NEW E, Schedule(J, E),
         \A j \in J : JobOK(j), Exclusive(J), \A e \in E : EventOK(e), \A d, e \in E : d = e,
         \A k \in J : k \in jobs \/ (k.stage = "ready" /\ k.command # "start"),
         FilesKept(store, store'), Started <=> Started',
         IF \E e \in E : e.command = "start" THEN used'["start"] = used["start"] + 1
         ELSE used'["start"] = used["start"]
  PROVE  OneStart'
<1> SUFFICES ASSUME used'["start"] <= 1
             PROVE  /\ used'["start"] = 0 => /\ ~Started'
                                             /\ \A j \in jobs' : j.command # "start"
                                             /\ \A w \in waiting' : w.command # "start"
                    /\ StartsOnce' /\ ClonesKept'
  BY DEF OneStart
<1> DEFINE X == waiting \union E
<1>1. /\ \A w \in waiting : EventOK(w)
      /\ \A v, w \in waiting : Group(v) = Group(w) => v = w
      /\ used["start"] \in Nat
  BY DEF EngineInv, GroupsExclusive, Bounds
<1>2. /\ \A k \in jobs' : k \in J \/ \E w \in X : k = Queued(w) /\ w \notin waiting'
      /\ waiting' \subseteq X
  BY <1>1, ScheduleOK
<1>3. \A w \in X : Queued(w).stage = "ready" /\ Queued(w).command = w.command
  BY <1>1, QueuedOK
<1>4. /\ used["start"] <= 1
      /\ used'["start"] = 0 => used["start"] = 0 /\ \A e \in E : e.command # "start"
      /\ \A e \in E : e.command = "start" => used["start"] = 0
  <2>1. CASE \E e \in E : e.command = "start"
    BY <1>1, <2>1
  <2>2. CASE ~\E e \in E : e.command = "start"
    BY <1>1, <2>2
  <2> QED
    BY <2>1, <2>2
<1>5. /\ used["start"] = 0 => /\ ~Started
                              /\ \A j \in jobs : j.command # "start"
                              /\ \A w \in waiting : w.command # "start"
      /\ StartsOnce /\ ClonesKept
  BY <1>4 DEF OneStart
<1>6. \A v, w \in X : v.command = "start" /\ w.command = "start" => v = w
  <2>1. \A w \in waiting, e \in E : ~(w.command = "start" /\ e.command = "start")
    BY <1>4, <1>5
  <2>2. \A v, w \in waiting : v.command = "start" /\ w.command = "start" => v = w
    BY <1>5 DEF StartsOnce
  <2> QED
    BY <2>1, <2>2
<1>7. \A k \in J, w \in X : ~(k.command = "start" /\ w.command = "start")
  BY <1>4, <1>5 DEF StartsOnce
<1>8. \A i, k \in J : i.command = "start" /\ k.command = "start" => i = k
  BY <1>5 DEF StartsOnce
<1>9. Started => /\ \A w \in X : w.command # "start"
                 /\ \A k \in J : k.command = "start" => k.stage \in {"pushed", "marked"}
  BY <1>4, <1>5 DEF StartsOnce
<1>10. used'["start"] = 0 => /\ ~Started /\ \A k \in J : k.command # "start"
                             /\ \A w \in X : w.command # "start"
  <2>1. \A k \in J : k.command = "start" => k \in jobs
    OBVIOUS
  <2> QED
    BY <1>4, <1>5, <2>1
<1> HIDE DEF X
<1>11. \A k \in jobs' : \/ k \in J
                        \/ /\ k.stage = "ready"
                           /\ \E w \in X : k = Queued(w) /\ k.command = w.command /\ w \notin waiting'
  BY <1>2, <1>3
<1>12. StartsOnce'
  <2>1. \A i, k \in jobs' : i.command = "start" /\ k.command = "start" => i = k
    BY <1>6, <1>7, <1>8, <1>11
  <2>2. \A k \in jobs', w \in waiting' : ~(k.command = "start" /\ w.command = "start")
    BY <1>2, <1>6, <1>7, <1>11
  <2>3. \A v, w \in waiting' : v.command = "start" /\ w.command = "start" => v = w
    BY <1>2, <1>6
  <2>4. Started' => /\ \A w \in waiting' : w.command # "start"
                    /\ \A k \in jobs' : k.command = "start" => k.stage \in {"pushed", "marked"}
    BY <1>2, <1>9, <1>11
  <2> QED
    BY <2>1, <2>2, <2>3, <2>4 DEF StartsOnce
<1>13. ClonesKept'
  <2> SUFFICES ASSUME NEW k \in jobs', k.stage = "edited"
               PROVE  /\ FilesKept(k.clone, store')
                      /\ IF k.command = "start" THEN \A f \in Files : k.clone[f] = Missing
                         ELSE /\ FilesKept(k.clone, k.todo.store)
                              /\ k.todo.push => k.clone[InstanceFile] # Missing
    BY DEF ClonesKept
  <2>1. k \in jobs
    BY <1>11
  <2> QED
    BY <1>5, <2>1 DEF ClonesKept, FilesKept
<1>14. used'["start"] = 0 => /\ ~Started'
                             /\ \A j \in jobs' : j.command # "start"
                             /\ \A w \in waiting' : w.command # "start"
  BY <1>2, <1>10, <1>11
<1>15. QED
  BY <1>12, <1>13, <1>14

LEMMA OneStartLeaves ==
  ASSUME EngineInv, OneStart, NEW j \in jobs, NEW E, Leave(j, E), EmitOK(E),
         UNCHANGED store, used'["start"] = used["start"]
  PROVE  OneStart'
<1>1. Schedule(jobs \ {j}, E)
  BY DEF Leave
<1>2. \A i \in jobs \ {j} : JobOK(i) /\ i \in jobs
  BY DEF EngineInv
<1>3. Exclusive(jobs \ {j})
  BY DEF EngineInv, GroupsExclusive, Exclusive
<1>4. (\A e \in E : EventOK(e) /\ e.command # "start") /\ (\A d, e \in E : d = e)
  BY DEF EmitOK
<1>5. FilesKept(store, store') /\ (Started <=> Started')
  BY DEF Started, FilesKept
<1>6. QED
  BY <1>1, <1>2, <1>3, <1>4, <1>5, OneStartArrives

\* A job goes on in its group.
LEMMA OneStartGoesOn ==
  ASSUME EngineInv, OneStart, NEW j \in jobs, NEW k, k.command = j.command,
         Becomes(j, k), UNCHANGED <<waiting, used>>, FilesKept(store, store'),
         \/ Started <=> Started'
         \/ j.command = "start" /\ k.stage \in {"pushed", "marked"},
         j.command = "start" /\ Started => k.stage \in {"pushed", "marked"},
         k.stage = "edited" /\ used["start"] <= 1 =>
           /\ FilesKept(k.clone, store')
           /\ IF k.command = "start" THEN \A f \in Files : k.clone[f] = Missing
              ELSE /\ FilesKept(k.clone, k.todo.store)
                   /\ k.todo.push => k.clone[InstanceFile] # Missing
  PROVE  OneStart'
<1> SUFFICES ASSUME used'["start"] <= 1
             PROVE  /\ used'["start"] = 0 => /\ ~Started'
                                             /\ \A i \in jobs' : i.command # "start"
                                             /\ \A w \in waiting' : w.command # "start"
                    /\ StartsOnce' /\ ClonesKept'
  BY DEF OneStart
<1>1. /\ used["start"] <= 1 /\ jobs' = (jobs \ {j}) \union {k}
      /\ waiting' = waiting /\ used' = used
  BY DEF Becomes
<1>2. /\ used["start"] = 0 => /\ ~Started
                              /\ \A i \in jobs : i.command # "start"
                              /\ \A w \in waiting : w.command # "start"
      /\ StartsOnce /\ ClonesKept
  BY <1>1 DEF OneStart
<1>3. used'["start"] = 0 => /\ ~Started'
                            /\ \A i \in jobs' : i.command # "start"
                            /\ \A w \in waiting' : w.command # "start"
  BY <1>1, <1>2
<1>4. StartsOnce'
  <2>1. /\ \A i, m \in jobs' : i.command = "start" /\ m.command = "start" => i = m
        /\ \A i \in jobs', w \in waiting' : ~(i.command = "start" /\ w.command = "start")
        /\ \A v, w \in waiting' : v.command = "start" /\ w.command = "start" => v = w
    BY <1>1, <1>2 DEF StartsOnce
  <2>2. CASE Started <=> Started'
    <3>1. Started' => /\ \A w \in waiting' : w.command # "start"
                      /\ \A i \in jobs' : i.command = "start" => i.stage \in {"pushed", "marked"}
      BY <1>1, <1>2, <2>2 DEF StartsOnce
    <3> QED
      BY <2>1, <3>1 DEF StartsOnce
  <2>3. CASE j.command = "start" /\ k.stage \in {"pushed", "marked"}
    <3>1. /\ \A w \in waiting' : w.command # "start"
          /\ \A i \in jobs' : i.command = "start" => i.stage \in {"pushed", "marked"}
      BY <1>1, <1>2, <2>3 DEF StartsOnce
    <3> QED
      BY <2>1, <3>1 DEF StartsOnce
  <2> QED
    BY <2>2, <2>3
<1>5. ClonesKept'
  <2> SUFFICES ASSUME NEW i \in jobs', i.stage = "edited"
               PROVE  /\ FilesKept(i.clone, store')
                      /\ IF i.command = "start" THEN \A f \in Files : i.clone[f] = Missing
                         ELSE /\ FilesKept(i.clone, i.todo.store)
                              /\ i.todo.push => i.clone[InstanceFile] # Missing
    BY DEF ClonesKept
  <2>1. CASE i \in jobs
    BY <1>2, <2>1 DEF ClonesKept, FilesKept
  <2>2. CASE i = k
    BY <1>1, <2>2
  <2> QED
    BY <1>1, <2>1, <2>2
<1>6. QED
  BY <1>3, <1>4, <1>5

LEMMA OneStartExecute ==
  ASSUME EngineInv, OneStart, NEW j \in jobs, Execute(j)
  PROVE  OneStart'
<1>1. PICK k : /\ Becomes(j, k) /\ k.command = j.command
               /\ k.stage = "edited" /\ k.clone = store
               /\ j.command # "start" => /\ FilesKept(store, k.todo.store)
                                         /\ Started \/ ~k.todo.push
  BY ExecuteOK
<1>2. UNCHANGED <<store, waiting, used>> /\ j.stage = "ready"
  BY DEF Execute
<1>3. FilesKept(store, store') /\ (Started <=> Started')
  BY <1>2 DEF FilesKept, Started
<1> SUFFICES ASSUME used["start"] <= 1
             PROVE  /\ ~(j.command = "start" /\ Started)
                    /\ FilesKept(k.clone, store')
                    /\ IF k.command = "start" THEN \A f \in Files : k.clone[f] = Missing
                       ELSE /\ FilesKept(k.clone, k.todo.store)
                            /\ k.todo.push => k.clone[InstanceFile] # Missing
  <2>1. CASE used["start"] <= 1
    BY <1>1, <1>2, <1>3, <2>1, OneStartGoesOn
  <2>2. CASE ~(used["start"] <= 1)
    BY <1>2, <2>2 DEF OneStart
  <2> QED
    BY <2>1, <2>2
<1>4. StartsOnce
  BY DEF OneStart
<1>5. ~(j.command = "start" /\ Started)
  BY <1>2, <1>4 DEF StartsOnce
<1>6. CASE j.command = "start"
  <2>1. \A f \in Files : store[f] = Missing
    BY <1>5, <1>6 DEF EngineInv, UntilStarted
  <2> QED
    BY <1>1, <1>3, <1>5, <1>6, <2>1
<1>7. CASE j.command # "start"
  BY <1>1, <1>3, <1>7 DEF Started
<1>8. QED
  BY <1>6, <1>7

LEMMA OneStartReport ==
  ASSUME EngineInv, OneStart, NEW j \in jobs, Report(j)
  PROVE  OneStart'
<1>1. PICK k : /\ Becomes(j, k) /\ k.command = j.command
               /\ k.stage = "edited" /\ k.clone = j.clone /\ k.todo.store = j.todo.store
               /\ k.todo.push = j.todo.push
  BY ReportOK
<1>2. UNCHANGED <<store, waiting, used>> /\ j.stage = "edited"
  BY DEF Report
<1>3. FilesKept(store, store') /\ (Started <=> Started')
  BY <1>2 DEF FilesKept, Started
<1>4. ASSUME used["start"] <= 1
      PROVE  /\ ~(j.command = "start" /\ Started)
             /\ FilesKept(k.clone, store')
             /\ IF k.command = "start" THEN \A f \in Files : k.clone[f] = Missing
                ELSE /\ FilesKept(k.clone, k.todo.store)
                     /\ k.todo.push => k.clone[InstanceFile] # Missing
  <2>1. StartsOnce /\ ClonesKept
    BY <1>4 DEF OneStart
  <2>2. ~(j.command = "start" /\ Started)
    BY <1>2, <2>1 DEF StartsOnce
  <2>3. QED
    BY <1>1, <1>2, <2>1, <2>2 DEF ClonesKept
<1>5. CASE used["start"] <= 1
  BY <1>1, <1>2, <1>3, <1>4, <1>5, OneStartGoesOn
<1>6. CASE ~(used["start"] <= 1)
  BY <1>2, <1>6 DEF OneStart
<1>7. QED
  BY <1>5, <1>6

\* With one start a push removes nothing, and it is the start or a run of a
\* recorded instance that pushes.
LEMMA PushKeepsFiles ==
  ASSUME EngineInv, OneStart, used["start"] <= 1, NEW j \in jobs, Push(j)
  PROVE  /\ FilesKept(store, store')
         /\ j.command = "start" \/ Started
<1>1. /\ j.stage = "edited" /\ j.todo.push /\ Conflicts(j) = {} /\ store' = Rebased(j)
      /\ ClonesKept /\ UntilStarted
  BY DEF EngineInv, OneStart, Push, Pushing
<1>2. \A f \in Files : store'[f] = IF f \in Edited(j) THEN j.todo.store[f] ELSE store[f]
  BY <1>1, RebasedIs
<1>3. j.command = "start" \/ Started
  BY <1>1 DEF ClonesKept, UntilStarted
<1>4. FilesKept(store, store')
  <2> SUFFICES ASSUME NEW f \in Files, store[f] # Missing PROVE store'[f] # Missing
    BY DEF FilesKept
  <2>1. CASE f \notin Edited(j)
    BY <1>2, <2>1
  <2>2. CASE f \in Edited(j)
    <3>1. store[f] = j.clone[f] \/ store[f] = j.todo.store[f]
      BY <1>1, <2>2 DEF Conflicts
    <3>2. j.todo.store[f] # j.clone[f] /\ store'[f] = j.todo.store[f]
      BY <1>2, <2>2 DEF Edited
    <3>3. CASE j.command = "start"
      BY <1>1, <2>2, <3>2, <3>3 DEF ClonesKept
    <3>4. CASE j.command # "start"
      BY <1>1, <3>1, <3>2, <3>4 DEF ClonesKept, FilesKept
    <3> QED
      BY <3>3, <3>4
  <2> QED
    BY <2>1, <2>2
<1>5. QED
  BY <1>3, <1>4

LEMMA OneStartPush ==
  ASSUME EngineInv, OneStart, NEW j \in jobs, Push(j)
  PROVE  OneStart'
<1>1. PICK k : Becomes(j, k) /\ k.command = j.command /\ k.stage = "pushed"
  BY PushOK
<1>2. UNCHANGED <<waiting, used>> /\ store' = Rebased(j) /\ j.stage = "edited" /\ j.todo.push
  BY DEF Push, Pushing
<1>3. Started'
  BY <1>2, RebasedIs DEF Started
<1>4. CASE used["start"] <= 1
  <2>1. FilesKept(store, store') /\ (j.command = "start" \/ Started)
    BY <1>4, PushKeepsFiles
  <2> QED
    BY <1>1, <1>2, <1>3, <2>1, OneStartGoesOn
<1>5. CASE ~(used["start"] <= 1)
  BY <1>2, <1>5 DEF OneStart
<1>6. QED
  BY <1>4, <1>5

LEMMA OneStartMark ==
  ASSUME EngineInv, OneStart, NEW j \in jobs, MarkInProgress(j)
  PROVE  OneStart'
<1>1. PICK k : Becomes(j, k) /\ k.command = j.command /\ k.stage = "marked"
  BY MarkOK
<1>2. UNCHANGED <<store, waiting, used>>
  BY DEF MarkInProgress
<1>3. FilesKept(store, store') /\ (Started <=> Started')
  BY <1>2 DEF FilesKept, Started
<1>4. QED
  BY <1>1, <1>2, <1>3, OneStartGoesOn

LEMMA OneStartLegs ==
  ASSUME EngineInv, OneStart, NEW j \in jobs, StartLegs(j) \/ StartLegsWithComment(j)
  PROVE  OneStart'
<1>1. j.stage = "marked" /\ Schedule(Dispatched(j), {}) /\ UNCHANGED used
  BY DEF StartLegs, StartLegsWithComment
<1>2. /\ \A k \in Dispatched(j) : JobOK(k)
      /\ \A k \in Dispatched(j) : k \in jobs \/ (k.stage = "ready" /\ k.command # "start")
  BY <1>1, DispatchedOK DEF None
<1>3. FilesKept(store, store') /\ (Started <=> Started')
  <2>1. CASE StartLegs(j)
    BY <2>1 DEF StartLegs, FilesKept, Started
  <2>2. CASE StartLegsWithComment(j)
    BY <2>2, CommentRecorded DEF Keeps
  <2> QED
    BY <2>1, <2>2
<1>4. Exclusive(Dispatched(j))
  BY <1>1, DispatchedOK
<1>5. QED
  BY <1>1, <1>2, <1>3, <1>4, OneStartArrives

LEMMA OneStartEnds ==
  ASSUME EngineInv, OneStart, NEW j \in jobs,
         FailPush(j) \/ Finish(j) \/ FailComment(j) \/ Die(j)
  PROVE  OneStart'
<1>1. CASE FailPush(j)
  <2>1. Leave(j, {}) /\ UNCHANGED <<store, used>>
    BY <1>1 DEF FailPush
  <2> QED
    BY <2>1, OneStartLeaves, NothingIsEmitted
<1>2. CASE Finish(j)
  <2>1. Landed(j) /\ Leave(j, j.todo.emit) /\ UNCHANGED <<store, used>>
    BY <1>2 DEF Finish
  <2>2. EmitOK(j.todo.emit)
    BY <2>1, LandedStarted DEF TodoOK
  <2> QED
    BY <2>1, <2>2, OneStartLeaves
<1>3. CASE FailComment(j)
  <2>1. Leave(j, {}) /\ UNCHANGED <<store, used>>
    BY <1>3 DEF FailComment
  <2> QED
    BY <2>1, OneStartLeaves, NothingIsEmitted
<1>4. CASE Die(j)
  <2>1. Leave(j, {}) /\ UNCHANGED store /\ Use("death")
    BY <1>4 DEF Die
  <2>2. used'["start"] = used["start"]
    BY <2>1, UseOK DEF Bounds
  <2> QED
    BY <2>1, <2>2, OneStartLeaves, NothingIsEmitted
<1>5. QED
  BY <1>1, <1>2, <1>3, <1>4

LEMMA OneStartOutside ==
  ASSUME EngineInv, OneStart, NEW e, EventOK(e), Schedule(jobs, {e}), UNCHANGED store,
         IF e.command = "start" THEN used'["start"] = used["start"] + 1
         ELSE used'["start"] = used["start"]
  PROVE  OneStart'
<1>1. \A k \in jobs : JobOK(k)
  BY DEF EngineInv
<1>2. Exclusive(jobs)
  BY DEF EngineInv, GroupsExclusive, Exclusive
<1>3. FilesKept(store, store') /\ (Started <=> Started')
  BY DEF FilesKept, Started
<1> DEFINE E == {e}
<1>4. /\ \A d \in E : EventOK(d)
      /\ \A c, d \in E : c = d
      /\ IF \E d \in E : d.command = "start" THEN used'["start"] = used["start"] + 1
         ELSE used'["start"] = used["start"]
      /\ Schedule(jobs, E)
  OBVIOUS
<1> HIDE DEF E
<1>5. QED
  BY <1>1, <1>2, <1>3, <1>4, OneStartArrives

LEMMA OneStartComment ==
  ASSUME EngineInv, OneStart, NEW command, NEW said, Comment(command, said)
  PROVE  OneStart'
<1>1. PICK e : /\ EventOK(e) /\ e.command = command /\ Schedule(jobs, {e})
               /\ command \in Replies \union {"start"}
  BY CommentEvent
<1>2. UNCHANGED store /\ Use(IF command = "start" THEN "start" ELSE "reply")
  BY DEF Comment
<1>3. IF command = "start" THEN used'["start"] = used["start"] + 1
      ELSE used'["start"] = used["start"]
  BY <1>2, UseOK DEF Bounds
<1>4. QED
  BY <1>1, <1>2, <1>3, OneStartOutside

LEMMA OneStartRedeliver ==
  ASSUME EngineInv, OneStart, NEW p \in DOMAIN Tree, Redeliver(p)
  PROVE  OneStart'
<1>1. Use("redelivery") /\ Schedule(jobs, {Continue(p)}) /\ UNCHANGED store
  BY DEF Redeliver
<1>2. EventOK(Continue(p)) /\ Continue(p).command # "start"
  BY TreeAssumption, ContinueOK DEF Continue, Event
<1>3. used'["start"] = used["start"]
  BY <1>1, UseOK DEF Bounds
<1>4. QED
  BY <1>1, <1>2, <1>3, OneStartOutside

LEMMA OneStartNext == EngineInv /\ OneStart /\ [Next]_vars => OneStart'
<1> SUFFICES ASSUME EngineInv, OneStart, [Next]_vars PROVE OneStart'
  OBVIOUS
<1>1. CASE Work
  BY <1>1, OneStartExecute, OneStartReport, OneStartPush, OneStartMark, OneStartLegs, OneStartEnds
  DEF Work, Step
<1>2. CASE \E command \in Commands : \E said \in SaidWith(command) : Comment(command, said)
  BY <1>2, OneStartComment
<1>3. CASE \E p \in DOMAIN Tree \ {<<>>} : Redeliver(p)
  BY <1>3, OneStartRedeliver
<1>4. CASE \E j \in jobs : Die(j)
  BY <1>4, OneStartEnds
<1>5. CASE UNCHANGED vars
  <2>1. UNCHANGED <<store, jobs, waiting, check, comments, used>>
    BY <1>5 DEF vars
  <2> QED
    BY <2>1 DEF OneStart, StartsOnce, ClonesKept, Started
<1>6. QED
  BY <1>1, <1>2, <1>3, <1>4, <1>5 DEF Next

\* Of two writers of a manifest one conflicts, and the other brings its legs' files.
LEMMA PushSeeds ==
  ASSUME EngineInv, OneStart, used["start"] <= 1, ManifestSeeded, NEW j \in jobs, Push(j)
  PROVE  ManifestSeeded'
<1>1. /\ j.stage = "edited" /\ j.todo.push /\ store' = Rebased(j)
      /\ ClonesKept /\ StoreOK(store) /\ StoreOK(store') /\ JobOK(j)
  BY RebasedIs DEF EngineInv, OneStart, Push, Pushing
<1>2. \A f \in Files : store'[f] = IF f \in Edited(j) THEN j.todo.store[f] ELSE store[f]
  BY <1>1, RebasedIs
<1>3. FilesKept(store, store') /\ FilesKept(j.clone, store)
  BY <1>1, PushKeepsFiles DEF ClonesKept
<1> SUFFICES ASSUME NEW p \in DOMAIN Tree, IsDynamic(p), NEW l \in LegIds(store', p)
             PROVE  store'[NodeFile(Child(p, l))] # Missing
  BY DEF ManifestSeeded
<1>4. ManifestFile(p) \in Files
  BY FilesAre
<1>5. l \in ChildIds(p) /\ NodeKind(p) = "fanout"
  BY <1>1, LegIdsAreChildren DEF IsDynamic
<1>6. NodeFile(Child(p, l)) \in Files
  BY <1>5, LegsAre
<1>7. CASE ManifestFile(p) \notin Edited(j)
  <2>1. store'[ManifestFile(p)] = store[ManifestFile(p)]
    BY <1>2, <1>4, <1>7
  <2>2. l \in LegIds(store, p)
    BY <1>1, <2>1 DEF LegIds, Read, StoreOK
  <2> QED
    BY <1>3, <1>6, <2>2 DEF ManifestSeeded, FilesKept
<1>8. CASE ManifestFile(p) \in Edited(j)
  <2>1. /\ store'[ManifestFile(p)] = j.todo.store[ManifestFile(p)]
        /\ j.todo.store[ManifestFile(p)] # j.clone[ManifestFile(p)]
        /\ StoreOK(j.todo.store) /\ ManifestsFilled(j.clone, j.todo.store)
    BY <1>1, <1>2, <1>4, <1>8 DEF Edited, JobOK, TodoOK
  <2>2. l \in LegIds(j.todo.store, p)
    BY <1>1, <2>1 DEF LegIds, Read, StoreOK
  <2>3. j.todo.store[NodeFile(Child(p, l))] # Missing
    BY <2>1, <2>2 DEF ManifestsFilled
  <2>4. CASE NodeFile(Child(p, l)) \in Edited(j)
    BY <1>2, <1>6, <2>3, <2>4
  <2>5. CASE NodeFile(Child(p, l)) \notin Edited(j)
    <3>1. j.clone[NodeFile(Child(p, l))] # Missing
      BY <1>6, <2>3, <2>5 DEF Edited
    <3> QED
      BY <1>3, <1>6, <3>1 DEF FilesKept
  <2> QED
    BY <2>4, <2>5
<1>9. QED
  BY <1>7, <1>8

LEMMA UsedGrows ==
  ASSUME EngineInv, [Next]_vars, NEW b \in Bounds
  PROVE  used[b] \in Nat /\ used'[b] \in Nat /\ used[b] <= used'[b]
<1>1. \A c \in Bounds : used[c] \in Nat
  BY DEF EngineInv
<1>2. CASE UNCHANGED used
  BY <1>1, <1>2
<1>3. CASE \E c \in Bounds : Use(c)
  <2>1. PICK c \in Bounds : Use(c)
    BY <1>3
  <2>2. /\ used'[c] = used[c] + 1
        /\ \A d \in Bounds : d # c => used'[d] = used[d]
    BY <2>1, UseOK
  <2> QED
    BY <1>1, <2>2
<1>4. UNCHANGED used \/ \E c \in Bounds : Use(c)
  BY DEF Next, Work, Step, Execute, Report, Push, FailPush, Finish, MarkInProgress, StartLegs,
     StartLegsWithComment, FailComment, Comment, Redeliver, Die, vars, Bounds
<1>5. QED
  BY <1>2, <1>3, <1>4

LEMMA StartsGrow ==
  ASSUME EngineInv, [Next]_vars, used'["start"] <= 1
  PROVE  used["start"] <= 1
<1>1. "start" \in Bounds
  BY DEF Bounds
<1>2. used["start"] \in Nat /\ used'["start"] \in Nat /\ used["start"] <= used'["start"]
  BY <1>1, UsedGrows
<1>3. QED
  BY <1>2

LEMMA SeededNext == EngineInv /\ SeededInv /\ [Next]_vars => SeededInv'
<1> SUFFICES ASSUME EngineInv, SeededInv, [Next]_vars PROVE SeededInv'
  OBVIOUS
<1>1. OneStart'
  BY OneStartNext DEF SeededInv
<1>2. ASSUME used'["start"] <= 1 PROVE ManifestSeeded'
  <2>1. OneStart /\ used["start"] <= 1 /\ ManifestSeeded /\ StoreOK(store)
    BY <1>2, StartsGrow DEF SeededInv, EngineInv
  <2>2. CASE UNCHANGED store
    BY <2>1, <2>2 DEF ManifestSeeded
  <2>3. CASE \E j \in jobs : Push(j)
    BY <2>1, <2>3, PushSeeds
  <2>4. CASE \E j \in jobs : StartLegsWithComment(j)
    <3>1. Keeps(store, store')
      BY <2>4, CommentRecorded
    <3> SUFFICES ASSUME NEW p \in DOMAIN Tree, IsDynamic(p), NEW l \in LegIds(store', p)
                 PROVE  store'[NodeFile(Child(p, l))] # Missing
      BY DEF ManifestSeeded
    <3>2. ManifestFile(p) \in Files /\ ManifestFile(p)[1] = "manifest"
      BY FilesAre DEF ManifestFile
    <3>3. l \in LegIds(store, p)
      BY <2>1, <3>1, <3>2 DEF LegIds, Read, Keeps, StoreOK
    <3>4. l \in ChildIds(p) /\ NodeKind(p) = "fanout"
      BY <2>1, <3>3, LegIdsAreChildren DEF IsDynamic
    <3>5. NodeFile(Child(p, l)) \in Files
      BY <3>4, LegsAre
    <3> QED
      BY <2>1, <3>1, <3>3, <3>5 DEF ManifestSeeded, Keeps, FilesKept
  <2>5. QED
    BY <2>2, <2>3, <2>4, StoreChanges
<1>3. QED
  BY <1>1, <1>2 DEF SeededInv

\* As long as an instance is not started a second time, every leg a manifest lists
\* has its file, whatever is delivered twice and whichever of two expansions lands:
\* its barrier waits for legs that exist (enter_node, cas_push).
THEOREM ManifestsAreSeeded == Spec => [](used["start"] <= 1 => ManifestSeeded)
<1>1. Init => SeededInv
  <2> SUFFICES ASSUME Init PROVE SeededInv
    OBVIOUS
  <2>1. \A p \in DOMAIN Tree : IsDynamic(p) => LegIds(store, p) = {}
    BY FilesAre DEF Init, LegIds, Read
  <2>2. ManifestSeeded
    BY <2>1 DEF ManifestSeeded
  <2>3. QED
    BY <2>2, InitOneStart DEF SeededInv
<1>2. SeededInv => (used["start"] <= 1 => ManifestSeeded)
  BY DEF SeededInv
<1>3. QED
  BY <1>1, <1>2, SeededNext, EngineInvariant, PTL DEF Spec
=============================================================================

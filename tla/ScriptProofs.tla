---------------------------- MODULE ScriptProofs -----------------------------
(***************************************************************************)
(* Lemmas about paths and trees (ProtocolTree), and what next.py,          *)
(* advance.py and join.py make of a clone (Planner, Advance, JoinScript),  *)
(* for every protocol.                                                     *)
(*                                                                         *)
(* ResultOK(S, r) says of the result r of a script on clone S that its     *)
(* files are well-typed, that it names only units and events there are,    *)
(* and how its files relate to those of the clone.                         *)
(***************************************************************************)
EXTENDS Engine, SequenceTheorems, TLAPS

-----------------------------------------------------------------------------
\* Paths and trees: what the operators of ProtocolTree give, for every protocol.

\* A prefix of a sequence.
LEMMA PrefixProperties ==
  ASSUME NEW S, NEW s \in Seq(S), NEW k \in 0 .. Len(s)
  PROVE  /\ Prefix(s, k) \in Seq(S)
         /\ Len(Prefix(s, k)) = k
         /\ \A i \in 1 .. k : Prefix(s, k)[i] = s[i]
<1>1. \A i \in 1 .. k : s[i] \in S
  BY LenProperties
<1>2. QED
  BY <1>1, SubSeqProperties, LenProperties DEF Prefix

\* What a prefix has before it is a prefix of the whole.
LEMMA PrefixOfPrefix ==
  ASSUME NEW S, NEW s \in Seq(S), NEW k \in 0 .. Len(s), NEW i \in 0 .. k
  PROVE  Prefix(Prefix(s, k), i) = Prefix(s, i)
<1>1. /\ Prefix(s, k) \in Seq(S) /\ Len(Prefix(s, k)) = k
      /\ \A n \in 1 .. k : Prefix(s, k)[n] = s[n]
  BY PrefixProperties
<1>2. i \in 0 .. Len(s) /\ i \in 0 .. Len(Prefix(s, k))
  BY <1>1, LenProperties
<1>3. /\ Prefix(s, i) \in Seq(S) /\ Len(Prefix(s, i)) = i
      /\ \A n \in 1 .. i : Prefix(s, i)[n] = s[n]
  BY <1>2, PrefixProperties
<1>4. /\ Prefix(Prefix(s, k), i) \in Seq(S) /\ Len(Prefix(Prefix(s, k), i)) = i
      /\ \A n \in 1 .. i : Prefix(Prefix(s, k), i)[n] = Prefix(s, k)[n]
  BY <1>1, <1>2, PrefixProperties
<1>5. \A n \in 1 .. i : Prefix(Prefix(s, k), i)[n] = Prefix(s, i)[n]
  BY <1>1, <1>3, <1>4
<1>6. QED
  BY <1>3, <1>4, <1>5, SeqEqual

LEMMA NodesAreChildren ==
  ASSUME NEW p \in DOMAIN Tree, p # <<>>
  PROVE  /\ p \in Seq(STRING) /\ Len(p) \in Nat \ {0}
         /\ ParentPath(p) \in DOMAIN Tree
         /\ ParentPath(p) = Prefix(p, Len(p) - 1)
         /\ ParentPath(p) \in Seq(STRING)
         /\ Len(ParentPath(p)) = Len(p) - 1
         /\ p = Child(ParentPath(p), LastId(p))
         /\ LastId(p) \in ChildIds(ParentPath(p))
         /\ LastId(p) \in STRING \ {None}
         /\ Tree[ParentPath(p)].kind \in Containers
<1>1. p \in Seq(STRING) /\ Len(p) \in Nat \ {0}
  BY TreeAssumption, EmptySeq
<1>2. /\ ParentPath(p) \in DOMAIN Tree
      /\ Tree[ParentPath(p)].kind \in Containers
      /\ \E i \in DOMAIN Tree[ParentPath(p)].children :
           Tree[ParentPath(p)].children[i] = LastId(p)
  <2>1. Len(p) - 1 \in 0 .. Len(p) - 1 /\ (Len(p) - 1) + 1 = Len(p)
    BY <1>1
  <2> QED
    BY <2>1, TreeAssumption DEF ParentPath, LastId
<1>3. ParentPath(p) = Prefix(p, Len(p) - 1)
  BY DEF ParentPath, Prefix
<1>4. ParentPath(p) \in Seq(STRING) /\ Len(ParentPath(p)) = Len(p) - 1
  BY <1>1, <1>3, PrefixProperties
<1>5. p = Child(ParentPath(p), LastId(p))
  BY <1>1 DEF ParentPath, Child, LastId
<1>6. LastId(p) \in ChildIds(ParentPath(p))
  BY <1>2 DEF ChildIds, Children
<1>7. LastId(p) \in STRING \ {None}
  BY <1>2, TreeAssumption
<1>8. QED
  BY <1>1, <1>2, <1>3, <1>4, <1>5, <1>6, <1>7

LEMMA ChildrenAreNodes ==
  ASSUME NEW p \in DOMAIN Tree, NEW id \in ChildIds(p)
  PROVE  /\ Child(p, id) \in DOMAIN Tree /\ Child(p, id) # <<>>
         /\ p \in Seq(STRING) /\ Child(p, id) \in Seq(STRING)
         /\ ParentPath(Child(p, id)) = p
         /\ LastId(Child(p, id)) = id
         /\ Len(Child(p, id)) = Len(p) + 1
         /\ id \in STRING \ {None}
         /\ Tree[p].kind \in Containers
<1>1. PICK i \in DOMAIN Children(p) : Children(p)[i] = id
  BY DEF ChildIds
<1>2. Tree[p].kind \in Containers /\ Children(p) = Tree[p].children
  BY <1>1 DEF Children
<1>3. Children(p) \in Seq(STRING \ {None}) /\ Child(p, id) \in DOMAIN Tree
  BY <1>1, <1>2, TreeAssumption DEF Child
<1>4. id \in STRING \ {None}
  BY <1>1, <1>3
<1>5. p \in Seq(STRING)
  BY TreeAssumption
<1>6. /\ Child(p, id) \in Seq(STRING) /\ Len(Child(p, id)) = Len(p) + 1
      /\ Child(p, id) # <<>> /\ LastId(Child(p, id)) = id
  <2>1. p \in Seq(STRING) /\ id \in STRING
    BY <1>4, <1>5
  <2>2. Append(p, id)[Len(p) + 1] = id /\ Append(p, id) \in Seq(STRING)
        /\ Append(p, id) # <<>> /\ Len(Append(p, id)) = Len(p) + 1
    BY <2>1, AppendProperties, Zenon
  <2> QED
    BY <2>2 DEF Child, LastId
<1>7. ParentPath(Child(p, id)) = p
  BY <1>4, <1>5 DEF Child, ParentPath
<1>8. QED
  BY <1>2, <1>3, <1>4, <1>5, <1>6, <1>7

\* The next sibling is a sibling, and a branch of a fan-out has none.
LEMMA NextIsSibling ==
  ASSUME NEW p \in DOMAIN Tree, p # <<>>, NextSibling(p) # None
  PROVE  /\ NextSibling(p) \in ChildIds(ParentPath(p))
         /\ NodeKind(ParentPath(p)) # "fanout"
<1> DEFINE siblings == Children(ParentPath(p))
<1>1. LastId(p) \in ChildIds(ParentPath(p)) /\ ParentPath(p) \in DOMAIN Tree
  BY NodesAreChildren
<1>2. Index(p) \in DOMAIN siblings
  BY <1>1 DEF Index, ChildIds
<1>3. siblings \in Seq(STRING)
  BY <1>1, TreeAssumption DEF Children, ChildIds
<1>4. NodeKind(ParentPath(p)) # "fanout" /\ Index(p) < Len(siblings)
      /\ NextSibling(p) = siblings[1 + Index(p)]
  BY DEF NextSibling
<1>5. 1 + Index(p) \in DOMAIN siblings
  BY <1>2, <1>3, <1>4, LenProperties
<1>6. QED
  BY <1>4, <1>5 DEF ChildIds

\* A node under a node of another kind than fan-out stands in the fan-outs its
\* parent stands in; the leg of a fan-out stands in that one.
LEMMA EnclosingIs ==
  ASSUME NEW p \in DOMAIN Tree, NEW d \in FanoutDepths(p),
         \A i \in FanoutDepths(p) : i <= d
  PROVE  /\ EnclosingFanoutPath(p) = Prefix(p, d)
         /\ d \in 1 .. Len(p)
<1>1. p \in Seq(STRING)
  BY TreeAssumption
<1>2. \A k \in FanoutDepths(p) : k \in 1 .. Len(p)
  BY DEF FanoutDepths
<1>3. Len(p) \in Nat
  BY <1>1, LenProperties
<1> DEFINE deepest == CHOOSE k \in FanoutDepths(p) : \A i \in FanoutDepths(p) : i <= k
<1>4. deepest \in FanoutDepths(p) /\ \A i \in FanoutDepths(p) : i <= deepest
  OBVIOUS
<1>5. deepest = d
  <2> HIDE DEF deepest
  <2>1. deepest <= d /\ d <= deepest
    BY <1>4
  <2>2. deepest \in 1 .. Len(p) /\ d \in 1 .. Len(p)
    BY <1>2, <1>4
  <2> QED
    BY <2>1, <2>2, <1>3
<1>6. QED
  BY <1>2, <1>5 DEF EnclosingFanoutPath, EnclosingFanouts

LEMMA LegsFanout ==
  ASSUME NEW p \in DOMAIN Tree, p # <<>>, NodeKind(p) # "fanout",
         NodeKind(ParentPath(p)) = "fanout"
  PROVE  /\ EnclosingFanoutPath(p) = ParentPath(p)
         /\ EnclosingFanoutPath(p) # <<>>
         /\ EnclosingFanoutId(p) = LastId(ParentPath(p))
         /\ EnclosingFanoutId(p) # None
<1> DEFINE d == Len(p) - 1
<1>1. /\ p \in Seq(STRING) /\ Len(p) \in Nat \ {0} /\ ParentPath(p) = Prefix(p, d)
      /\ Len(ParentPath(p)) = d /\ ParentPath(p) \in DOMAIN Tree
  BY NodesAreChildren
<1>2. ParentPath(p) # <<>>
  BY DEF NodeKind, None
<1>3. d \in Nat /\ d # 0
  BY <1>1, <1>2, EmptySeq, NodesAreChildren
<1>4. Prefix(p, Len(p)) = p
  BY <1>1 DEF Prefix
<1>5. d \in FanoutDepths(p)
  BY <1>1, <1>3 DEF FanoutDepths
<1>6. \A i \in FanoutDepths(p) : i <= d
  BY <1>1, <1>4 DEF FanoutDepths
<1>7. EnclosingFanoutPath(p) = ParentPath(p)
  BY <1>1, <1>5, <1>6, EnclosingIs
<1>8. LastId(ParentPath(p)) # None
  BY <1>1, <1>2, NodesAreChildren
<1>9. QED
  BY <1>2, <1>7, <1>8 DEF EnclosingFanoutId

LEMMA SubPipelinesFanout ==
  ASSUME NEW p \in DOMAIN Tree, p # <<>>, NodeKind(p) # "fanout",
         NodeKind(ParentPath(p)) = "sequence",
         NodeKind(ParentPath(ParentPath(p))) = "fanout"
  PROVE  /\ EnclosingFanoutPath(p) = ParentPath(ParentPath(p))
         /\ EnclosingFanoutId(p) = EnclosingFanoutId(ParentPath(p))
         /\ LifeState(p) = EnclosingFanoutId(ParentPath(p))
<1> DEFINE leg == ParentPath(p)
           d == Len(p) - 2
<1>1. /\ p \in Seq(STRING) /\ Len(p) \in Nat \ {0} /\ leg = Prefix(p, Len(p) - 1)
      /\ Len(leg) = Len(p) - 1 /\ leg \in DOMAIN Tree
  BY NodesAreChildren
<1>2. leg # <<>>
  BY DEF NodeKind, None
<1>3. /\ Len(leg) \in Nat \ {0} /\ ParentPath(leg) = Prefix(leg, Len(leg) - 1)
      /\ Len(ParentPath(leg)) = Len(leg) - 1 /\ ParentPath(leg) \in DOMAIN Tree
  BY <1>1, <1>2, NodesAreChildren, Zenon
<1>4. ParentPath(leg) # <<>>
  BY DEF NodeKind, None
<1>5. Len(ParentPath(leg)) \in Nat \ {0}
  BY <1>3, <1>4, NodesAreChildren, Zenon
<1>6. d \in Nat \ {0} /\ Len(leg) - 1 = d
  <2> DEFINE n == Len(p)
             m == Len(ParentPath(leg))
  <2>1. n \in Nat /\ Len(leg) = n - 1 /\ m \in Nat \ {0} /\ m = Len(leg) - 1
    BY <1>1, <1>3, <1>5
  <2> HIDE DEF n, m, leg
  <2>2. n - 2 \in Nat \ {0} /\ Len(leg) - 1 = n - 2
    BY <2>1
  <2> QED
    BY <2>2 DEF n
<1>7. ParentPath(leg) = Prefix(p, d)
  <2>1. Prefix(Prefix(p, Len(p) - 1), d) = Prefix(p, d)
    <3>1. Len(p) - 1 \in 0 .. Len(p) /\ d \in 0 .. Len(p) - 1
      BY <1>1, <1>6
    <3> QED
      BY <1>1, <3>1, PrefixOfPrefix
  <2> QED
    BY <1>1, <1>3, <1>6, <2>1
<1>8. Prefix(p, Len(p)) = p
  BY <1>1 DEF Prefix
<1>9. d \in FanoutDepths(p)
  BY <1>1, <1>6, <1>7 DEF FanoutDepths
<1>10. \A i \in FanoutDepths(p) : i <= d
  <2> SUFFICES ASSUME NEW i \in FanoutDepths(p) PROVE i <= d
    OBVIOUS
  <2>1. i \in 1 .. Len(p) /\ NodeKind(Prefix(p, i)) = "fanout"
    BY DEF FanoutDepths
  <2>2. i # Len(p) /\ i # Len(p) - 1
    BY <2>1, <1>1, <1>8
  <2> QED
    BY <1>1, <2>1, <2>2
<1>11. EnclosingFanoutPath(p) = ParentPath(leg)
  BY <1>7, <1>9, <1>10, EnclosingIs
<1>12. EnclosingFanoutPath(leg) = ParentPath(leg) /\ EnclosingFanoutId(leg) # None
  BY <1>1, <1>2, LegsFanout
<1>13. EnclosingFanoutId(p) = EnclosingFanoutId(leg)
  BY <1>11, <1>12 DEF EnclosingFanoutId
<1>14. QED
  BY <1>11, <1>12, <1>13 DEF LifeState

LEMMA ChildrenOfTheRoot ==
  ASSUME NEW p \in DOMAIN Tree, p # <<>>, NodeKind(ParentPath(p)) \notin {"fanout", "sequence"}
  PROVE  /\ ParentPath(p) = <<>>
         /\ p = <<LastId(p)>>
         /\ LastId(p) \in ChildIds(<<>>)
<1>1. /\ ParentPath(p) \in DOMAIN Tree /\ Tree[ParentPath(p)].kind \in Containers
      /\ p = Child(ParentPath(p), LastId(p)) /\ LastId(p) \in ChildIds(ParentPath(p))
  BY NodesAreChildren
<1>2. ParentPath(p) = <<>>
  BY <1>1, TreeAssumption DEF NodeKind, Containers
<1>3. Append(<<>>, LastId(p)) = <<LastId(p)>>
  OBVIOUS
<1>4. QED
  BY <1>1, <1>2, <1>3 DEF Child

LEMMA RootIdsAreNodes ==
  ASSUME NEW id \in ChildIds(<<>>)
  PROVE  /\ <<id>> \in DOMAIN Tree /\ <<id>> # <<>> /\ <<id>> \in Seq(STRING)
         /\ ParentPath(<<id>>) = <<>> /\ LastId(<<id>>) = id
         /\ id \in STRING \ {None}
         /\ IsRootChild(<<id>>)
<1>1. <<>> \in DOMAIN Tree /\ Child(<<>>, id) = <<id>> /\ Len(<<id>>) = 1
  BY TreeAssumption DEF Child
<1>2. QED
  BY <1>1, ChildrenAreNodes DEF IsRootChild

\* The nodes above p, and p.
LEMMA PrefixesAreNodes ==
  ASSUME NEW p \in DOMAIN Tree, NEW k \in 0 .. Len(p)
  PROVE  /\ Prefix(p, k) \in DOMAIN Tree
         /\ Len(Prefix(p, k)) = k
         /\ \A i \in 1 .. k : Prefix(p, k)[i] = p[i]
         /\ k < Len(p) => Tree[Prefix(p, k)].kind \in Containers
         /\ k > 0 => /\ Prefix(p, k) # <<>>
                     /\ ParentPath(Prefix(p, k)) = Prefix(p, k - 1)
                     /\ LastId(Prefix(p, k)) = p[k]
<1>1. p \in Seq(STRING) /\ Len(p) \in Nat /\ k \in Nat
  BY TreeAssumption
<1>2. /\ Len(Prefix(p, k)) = k
      /\ \A i \in 1 .. k : Prefix(p, k)[i] = p[i]
  BY <1>1, PrefixProperties
<1>3. k < Len(p) => Prefix(p, k) \in DOMAIN Tree /\ Tree[Prefix(p, k)].kind \in Containers
  <2>1. k < Len(p) => k \in 0 .. Len(p) - 1
    BY <1>1
  <2> QED
    BY <2>1, TreeAssumption DEF Prefix
<1>4. k = Len(p) => Prefix(p, k) = p
  BY <1>1 DEF Prefix
<1>5. Prefix(p, k) \in DOMAIN Tree
  BY <1>1, <1>3, <1>4
<1>6. ASSUME k > 0
      PROVE  /\ Prefix(p, k) # <<>>
             /\ ParentPath(Prefix(p, k)) = Prefix(p, k - 1)
             /\ LastId(Prefix(p, k)) = p[k]
  <2>1. Prefix(p, k) # <<>>
    BY <1>1, <1>2, <1>6, EmptySeq
  <2>2. ParentPath(Prefix(p, k)) = Prefix(Prefix(p, k), k - 1)
    BY <1>2, <1>5, <2>1, NodesAreChildren
  <2>3. Prefix(Prefix(p, k), k - 1) = Prefix(p, k - 1)
    BY <1>1, <1>6, PrefixOfPrefix
  <2> QED
    BY <1>1, <1>2, <1>6, <2>1, <2>2, <2>3 DEF LastId
<1>7. QED
  BY <1>2, <1>3, <1>5, <1>6

-----------------------------------------------------------------------------
\* The scripts.

StoreOK(S) ==
  /\ DOMAIN S = Files
  /\ \A f \in Files : FileOK(f, S[f])

\* No file is removed.
FilesKept(S, T) == \A f \in Files : S[f] # Missing => T[f] # Missing

\* The edits of all but the expander, the answers and the reset.
Keeps(S, T) ==
  /\ StoreOK(T)
  /\ FilesKept(S, T)
  /\ \A f \in Files : f[1] \in {"answers", "manifest"} => T[f] = S[f]

\* No recorded answer is lost, unless its file is wiped.
AnswersKept(S, T) ==
  \A p \in LegGates : T[AnswersFile(p)] # Missing => AnsweredAt(S, p) \subseteq AnsweredAt(T, p)

\* A manifest comes with a file for each of its legs.
ManifestsFilled(S, T) ==
  \A p \in DOMAIN Tree : IsDynamic(p) /\ T[ManifestFile(p)] # S[ManifestFile(p)] =>
    \A l \in LegIds(T, p) : T[NodeFile(Child(p, l))] # Missing

-----------------------------------------------------------------------------
(* Files. *)

LEMMA RecordsPresent ==
  ASSUME NEW f \in Files, NEW v, ValueOK(f, v)
  PROVE  v # Missing
<1>1. DOMAIN Missing = {"missing"}
  BY DEF Missing
<1>2. DOMAIN v # {"missing"}
  <2>1. CASE f[1] = "node"
    <3>1. NodeOK(f[2], v)
      BY <2>1 DEF ValueOK
    <3>2. CASE NodeKind(f[2]) = "agent"
      BY <3>1, <3>2 DEF NodeOK
    <3>3. CASE NodeKind(f[2]) = "sequence"
      BY <3>1, <3>3 DEF NodeOK
    <3>4. CASE NodeKind(f[2]) \notin {"agent", "sequence"}
      BY <3>1, <3>4 DEF NodeOK, GateFields
    <3> QED
      BY <3>2, <3>3, <3>4
  <2>2. f[1] \in {"node", "answers", "join", "manifest", "instance"}
    BY DEF Files, InstanceFile, NodeFile, JoinFile, ManifestFile, RootGateFile, AnswersFile
  <2>3. CASE f[1] = "answers"
    BY <2>3 DEF ValueOK
  <2>4. CASE f[1] = "join"
    BY <2>4 DEF ValueOK
  <2>5. CASE f[1] = "manifest"
    BY <2>5 DEF ValueOK
  <2>6. CASE f[1] = "instance"
    BY <2>6 DEF ValueOK, Instances
  <2> QED
    BY <2>1, <2>2, <2>3, <2>4, <2>5, <2>6
<1> QED
  BY <1>1, <1>2

LEMMA FilesAre ==
  /\ InstanceFile \in Files
  /\ \A p \in DOMAIN Tree : NodeKind(p) \in {"agent", "sequence", "gate"} => NodeFile(p) \in Files
  /\ \A p \in NestedFanouts : JoinFile(p) \in Files
  /\ \A p \in DOMAIN Tree : IsDynamic(p) => ManifestFile(p) \in Files
  /\ \A p \in LegGates : RootGateFile(p) \in Files /\ AnswersFile(p) \in Files
BY DEF Files

LEMMA NodeValue ==
  ASSUME NEW S, StoreOK(S), NEW p \in DOMAIN Tree,
         NodeKind(p) \in {"agent", "sequence", "gate"}
  PROVE  S[NodeFile(p)] = Missing \/ NodeOK(p, S[NodeFile(p)])
BY FilesAre DEF StoreOK, FileOK, ValueOK, NodeFile

LEMMA InstanceValue ==
  ASSUME NEW S, StoreOK(S)
  PROVE  S[InstanceFile] = Missing \/ S[InstanceFile] \in Instances
BY FilesAre DEF StoreOK, FileOK, ValueOK, InstanceFile

LEMMA LegIdsAreChildren ==
  ASSUME NEW S, StoreOK(S), NEW p \in DOMAIN Tree
  PROVE  LegIds(S, p) \subseteq ChildIds(p)
<1>1. CASE ~IsDynamic(p)
  BY <1>1 DEF LegIds
<1>2. CASE IsDynamic(p)
  <2>1. ManifestFile(p) \in Files
    BY <1>2, FilesAre
  <2>2. S[ManifestFile(p)] = Missing \/ S[ManifestFile(p)] \in [legs : SUBSET ChildIds(p)]
    BY <2>1 DEF StoreOK, FileOK, ValueOK, ManifestFile
  <2> QED
    BY <1>2, <2>1, <2>2 DEF LegIds, Read, StoreOK
<1> QED
  BY <1>1, <1>2

LEMMA WriteKeeps ==
  ASSUME NEW S, StoreOK(S), NEW f \in Files, NEW v, ValueOK(f, v),
         f[1] \notin {"answers", "manifest"}
  PROVE  Keeps(S, Write(S, f, v)) /\ Write(S, f, v)[f] = v
<1>1. v # Missing
  BY RecordsPresent
<1>2. /\ DOMAIN Write(S, f, v) = Files
      /\ Write(S, f, v)[f] = v
      /\ \A g \in Files : g # f => Write(S, f, v)[g] = S[g]
  BY DEF Write, StoreOK
<1>3. QED
  BY <1>1, <1>2 DEF Keeps, StoreOK, FilesKept, FileOK

LEMMA WriteNode ==
  ASSUME NEW S, StoreOK(S), NEW p \in DOMAIN Tree,
         NodeKind(p) \in {"agent", "sequence", "gate"}, NEW v, NodeOK(p, v)
  PROVE  /\ Keeps(S, Write(S, NodeFile(p), v))
         /\ Write(S, NodeFile(p), v)[NodeFile(p)] = v
         /\ Write(S, NodeFile(p), v)[InstanceFile] = S[InstanceFile]
<1>1. /\ NodeFile(p) \in Files /\ InstanceFile \in Files
      /\ NodeFile(p)[1] = "node" /\ NodeFile(p)[2] = p
  BY FilesAre DEF NodeFile
<1>2. ValueOK(NodeFile(p), v)
  BY <1>1 DEF ValueOK
<1>3. InstanceFile # NodeFile(p)
  BY DEF InstanceFile, NodeFile
<1>4. QED
  BY <1>1, <1>2, <1>3, WriteKeeps DEF Write, StoreOK

LEMMA WriteInstance ==
  ASSUME NEW S, StoreOK(S), NEW v \in Instances
  PROVE  /\ Keeps(S, Write(S, InstanceFile, v))
         /\ Write(S, InstanceFile, v)[InstanceFile] = v
<1>1. InstanceFile \in Files /\ InstanceFile[1] = "instance"
  BY FilesAre DEF InstanceFile
<1>2. ValueOK(InstanceFile, v)
  BY <1>1 DEF ValueOK
<1>3. QED
  BY <1>1, <1>2, WriteKeeps

LEMMA WriteJoin ==
  ASSUME NEW S, StoreOK(S), NEW p \in NestedFanouts, NEW v \in [joined : BOOLEAN, failed : BOOLEAN]
  PROVE  Keeps(S, Write(S, JoinFile(p), v))
<1>1. JoinFile(p) \in Files /\ JoinFile(p)[1] = "join"
  BY FilesAre DEF JoinFile
<1>2. ValueOK(JoinFile(p), v)
  BY <1>1 DEF ValueOK
<1>3. QED
  BY <1>1, <1>2, WriteKeeps

LEMMA KeepsTransitive ==
  ASSUME NEW S, NEW T, NEW U, Keeps(S, T), Keeps(T, U)
  PROVE  Keeps(S, U)
BY DEF Keeps, FilesKept

LEMMA KeepsItself ==
  ASSUME NEW S, StoreOK(S)
  PROVE  Keeps(S, S)
BY DEF Keeps, FilesKept

LEMMA KeepsAnswersAndManifests ==
  ASSUME NEW S, NEW T, Keeps(S, T)
  PROVE  AnswersKept(S, T) /\ ManifestsFilled(S, T)
<1>1. AnswersKept(S, T)
  BY FilesAre DEF Keeps, AnswersKept, AnsweredAt, AnswersFile
<1>2. ManifestsFilled(S, T)
  BY FilesAre DEF Keeps, ManifestsFilled, ManifestFile
<1>3. QED
  BY <1>1, <1>2

-----------------------------------------------------------------------------
(* Results. *)

EventOK(e) ==
  /\ e.workflow \in Workflows
  /\ e.path \in Paths
  /\ IF e.workflow = "join" THEN e.command = "join" /\ e.path \in NestedFanouts \union {<<>>}
     ELSE e.command \in Replies \union {"start", "continue"}

\* What a script dispatches: one event at the most, to go on or to join.
EmitOK(E) ==
  /\ \A e \in E : /\ EventOK(e) /\ e.command \in {"continue", "join"}
                  /\ e.command = "continue" => e.workflow = "engine"
  /\ \A d, e \in E : d = e

ResultFields == {"store", "push", "check", "emit", "runs", "legs", "tells"}

ResultOK(S, r) ==
  /\ DOMAIN r = ResultFields
  /\ StoreOK(r.store)
  /\ r.push \in BOOLEAN /\ r.runs \in BOOLEAN /\ r.tells \in BOOLEAN
  /\ r.check \in Checks
  /\ EmitOK(r.emit)
  /\ r.legs \subseteq Units
  /\ r.push \/ (r.store = S /\ ~r.tells)
  /\ AnswersKept(S, r.store)
  /\ ManifestsFilled(S, r.store)

\* The result of a script that is not a reset.
GoesOn(S, r) == ResultOK(S, r) /\ FilesKept(S, r.store)
Lands(S, r) == GoesOn(S, r) /\ r.push

LEMMA ResultsOK ==
  ASSUME NEW S, NEW T, StoreOK(T), FilesKept(S, T), AnswersKept(S, T), ManifestsFilled(S, T),
         NEW push \in BOOLEAN, push \/ T = S, NEW c \in Checks, NEW E, EmitOK(E),
         NEW runs \in BOOLEAN, NEW L \in SUBSET Units
  PROVE  /\ GoesOn(S, Result(T, push, c, E, runs, L))
         /\ push => GoesOn(S, Tells(Result(T, push, c, E, runs, L)))
<1> DEFINE r == Result(T, push, c, E, runs, L)
           t == Tells(r)
<1>1. /\ DOMAIN r = ResultFields /\ r.store = T /\ r.push = push /\ r.check = c /\ r.emit = E
      /\ r.runs = runs /\ r.legs = L /\ r.tells = FALSE
  BY DEF Result, ResultFields
<1>2. /\ DOMAIN t = ResultFields /\ t.store = T /\ t.push = push /\ t.check = c /\ t.emit = E
      /\ t.runs = runs /\ t.legs = L /\ t.tells = TRUE
  BY DEF Tells, Result, ResultFields
<1> HIDE DEF r, t
<1>3. GoesOn(S, r) /\ (push => GoesOn(S, t))
  BY <1>1, <1>2 DEF GoesOn, ResultOK
<1> QED
  BY <1>3 DEF r, t

LEMMA PushesOK ==
  ASSUME NEW S, NEW T, Keeps(S, T), NEW E, EmitOK(E), NEW c \in Checks
  PROVE  /\ Lands(S, Pushes(T, E))
         /\ Lands(S, Tells(Pushes(T, E)))
         /\ Lands(S, Concludes(T, c, E))
<1>1. StoreOK(T) /\ FilesKept(S, T) /\ AnswersKept(S, T) /\ ManifestsFilled(S, T)
  BY KeepsAnswersAndManifests DEF Keeps
<1>2. None \in Checks /\ {} \in SUBSET Units
  BY DEF Checks
<1>3. GoesOn(S, Pushes(T, E)) /\ GoesOn(S, Tells(Pushes(T, E)))
  BY <1>1, <1>2, ResultsOK DEF Pushes
<1>4. GoesOn(S, Concludes(T, c, E))
  BY <1>1, <1>2, ResultsOK DEF Concludes
<1>5. Pushes(T, E).push /\ Tells(Pushes(T, E)).push /\ Concludes(T, c, E).push
  BY DEF Pushes, Tells, Concludes, Result
<1>6. QED
  BY <1>3, <1>4, <1>5 DEF Lands

LEMMA NothingIsEmitted == EmitOK({})
BY DEF EmitOK

LEMMA QuietOK ==
  ASSUME NEW S, StoreOK(S)
  PROVE  GoesOn(S, Quiet(S))
<1>1. FilesKept(S, S) /\ AnswersKept(S, S) /\ ManifestsFilled(S, S)
  BY KeepsItself, KeepsAnswersAndManifests DEF Keeps
<1>2. None \in Checks /\ {} \in SUBSET Units /\ EmitOK({})
  BY NothingIsEmitted DEF Checks
<1>3. QED
  BY <1>1, <1>2, ResultsOK DEF Quiet

LEMMA ContinueOK ==
  ASSUME NEW p \in Seq(STRING)
  PROVE  EmitOK({Continue(p)}) /\ EventOK(Continue(p))
BY DEF EmitOK, EventOK, Continue, Event, Workflows, Paths

\* The join that is dispatched is the one over a nested fan-out, or path-less.
LEMMA FireJoinOK ==
  ASSUME NEW p \in DOMAIN Tree, p # <<>>, NodeKind(p) # "fanout",
         \/ NodeKind(ParentPath(p)) = "fanout"
         \/ NodeKind(ParentPath(p)) = "sequence"
  PROVE  EmitOK({FireJoin(p)})
<1> DEFINE fanout == EnclosingFanoutPath(p)
           path == IF Len(fanout) > 1 THEN fanout ELSE <<>>
<1>1. fanout \in DOMAIN Tree /\ NodeKind(fanout) = "fanout"
  <2>1. CASE NodeKind(ParentPath(p)) = "fanout"
    BY <2>1, LegsFanout, NodesAreChildren
  <2>2. CASE NodeKind(ParentPath(p)) = "sequence"
    <3>1. ParentPath(p) \in DOMAIN Tree \ {<<>>}
      BY <2>2, NodesAreChildren DEF NodeKind, None
    <3>2. NodeKind(ParentPath(ParentPath(p))) = "fanout"
      BY <2>2, <3>1, LegAssumption
    <3>3. fanout = ParentPath(ParentPath(p))
      BY <2>2, <3>2, SubPipelinesFanout
    <3>4. ParentPath(ParentPath(p)) \in DOMAIN Tree
      BY <3>1, NodesAreChildren
    <3> QED
      BY <3>2, <3>3, <3>4
  <2> QED
    BY <2>1, <2>2
<1>2. fanout \in Seq(STRING)
  BY <1>1, TreeAssumption
<1>3. path \in NestedFanouts \union {<<>>}
  <2>1. CASE Len(fanout) > 1
    <3> DEFINE n == Len(fanout)
    <3>1. n \in Nat
      BY <1>2, LenProperties
    <3> HIDE DEF n
    <3>2. n > 1 => n # 1
      BY <3>1
    <3>3. Len(fanout) # 1
      BY <2>1, <3>2 DEF n
    <3> QED
      BY <1>1, <2>1, <3>3 DEF NestedFanouts, IsRootChild
  <2>2. CASE ~(Len(fanout) > 1)
    BY <2>2
  <2> QED
    BY <2>1, <2>2
<1>4. path \in Seq(STRING)
  BY <1>2, EmptySeq
<1>5. FireJoin(p) = Event("join", "join", path, NothingSaid)
  BY DEF FireJoin
<1> HIDE DEF path
<1>6. QED
  BY <1>3, <1>4, <1>5 DEF EmitOK, EventOK, Event, Workflows, Paths

-----------------------------------------------------------------------------
(* advance.py. *)

RunTags == Workflows \X Paths

LEMMA UnitsAreAgents ==
  ASSUME NEW p \in Units
  PROVE  /\ p \in DOMAIN Tree /\ p # <<>> /\ NodeKind(p) = "agent"
         /\ p \in Seq(STRING)
         /\ Tree[p].max \in Nat \ {0}
         /\ NodeFile(p) \in Files
<1>1. p \in DOMAIN Tree /\ p # <<>> /\ NodeKind(p) = "agent" /\ Tree[p].kind = "agent"
  BY DEF Units, NodeKind, None
<1>2. QED
  BY <1>1, FilesAre, TreeAssumption, ProtocolAssumption

UnitValues(p) ==
  [state : Terminal \union {LifeState(p)}, iteration : 1 .. Tree[p].max, history : Nat,
   last : Tags]

LEMMA UnitAtOK ==
  ASSUME NEW S, StoreOK(S), NEW p \in Units
  PROVE  /\ UnitAt(S, p) \in UnitValues(p)
         /\ FreshUnit(p) \in UnitValues(p)
         /\ \A v \in UnitValues(p) : NodeOK(p, v)
<1>1. p \in DOMAIN Tree /\ NodeKind(p) = "agent" /\ Tree[p].max \in Nat \ {0}
  BY UnitsAreAgents
<1>2. FreshUnit(p) \in UnitValues(p)
  BY <1>1 DEF FreshUnit, Tags, UnitValues
<1>3. S[NodeFile(p)] = Missing \/ NodeOK(p, S[NodeFile(p)])
  BY <1>1, NodeValue
<1>4. \A v \in UnitValues(p) : NodeOK(p, v)
  BY <1>1 DEF NodeOK, UnitValues
<1>5. NodeOK(p, S[NodeFile(p)]) => S[NodeFile(p)] \in UnitValues(p)
  BY <1>1 DEF NodeOK, UnitValues
<1>6. QED
  BY <1>2, <1>3, <1>4, <1>5 DEF UnitAt

LEMMA AttemptedOK ==
  ASSUME NEW S, StoreOK(S), NEW p \in Units, NEW tag \in RunTags
  PROVE  /\ Attempted(S, p, tag) \in UnitValues(p)
         /\ Attempted(S, p, tag).iteration = UnitAt(S, p).iteration
<1> DEFINE u == UnitAt(S, p)
           a == [u EXCEPT !.history = @ + 1, !.last = tag]
           States == Terminal \union {LifeState(p)}
           Iterations == 1 .. Tree[p].max
<1>1. u \in [state : States, iteration : Iterations, history : Nat, last : Tags]
  BY UnitAtOK DEF UnitValues
<1>2. tag \in Tags
  BY DEF Tags, RunTags
<1>3. Attempted(S, p, tag) = a
  BY DEF Attempted
<1> HIDE DEF u, States, Iterations
<1>4. u.history + 1 \in Nat
  BY <1>1
<1>5. a \in [state : States, iteration : Iterations, history : Nat, last : Tags]
  BY <1>1, <1>2, <1>4
<1>6. a.iteration = u.iteration
  BY <1>1
<1>7. QED
  BY <1>3, <1>5, <1>6 DEF UnitValues, States, Iterations, u

LEMMA AttemptOK ==
  ASSUME NEW S, StoreOK(S), NEW p \in Units, NEW tag \in RunTags, NEW state \in Terminal
  PROVE  LET T == WithState(S, p, tag, state) IN
         /\ Keeps(S, T)
         /\ T[NodeFile(p)] \in UnitValues(p)
         /\ T[InstanceFile] = S[InstanceFile]
<1> DEFINE a == Attempted(S, p, tag)
           v == [a EXCEPT !.state = state]
<1>1. p \in DOMAIN Tree /\ NodeKind(p) = "agent"
  BY UnitsAreAgents
<1>2. a \in UnitValues(p)
  BY AttemptedOK
<1>3. v \in UnitValues(p)
  <2> HIDE DEF a
  <2> QED
    BY <1>2 DEF UnitValues
<1>4. WithState(S, p, tag, state) = Write(S, NodeFile(p), v)
  BY DEF WithState
<1> HIDE DEF v
<1>5. NodeOK(p, v)
  BY <1>3, UnitAtOK
<1>6. QED
  BY <1>1, <1>3, <1>4, <1>5, WriteNode

LEMMA IterateOK ==
  ASSUME NEW S, StoreOK(S), NEW p \in Units, NEW tag \in RunTags,
         UnitAt(S, p).iteration < Tree[p].max
  PROVE  Lands(S, Iterate(S, p, tag))
<1> DEFINE a == Attempted(S, p, tag)
           v == [a EXCEPT !.iteration = @ + 1]
           max == Tree[p].max
<1>1. p \in DOMAIN Tree /\ NodeKind(p) = "agent" /\ p \in Seq(STRING) /\ max \in Nat
  BY UnitsAreAgents
<1>2. a \in UnitValues(p) /\ a.iteration < max
  BY AttemptedOK
<1>3. Iterate(S, p, tag) = Tells(Pushes(Write(S, NodeFile(p), v), {Continue(p)}))
  BY DEF Iterate
<1>4. v \in UnitValues(p)
  <2> HIDE DEF a
  <2>1. a.iteration \in 1 .. max
    BY <1>2 DEF UnitValues
  <2> DEFINE n == a.iteration
  <2>2. n \in 1 .. max /\ n < max
    BY <1>2, <2>1
  <2> HIDE DEF max, n
  <2>3. n + 1 \in 1 .. max
    BY <1>1, <2>2
  <2> USE DEF max, n
  <2> QED
    BY <1>2, <2>3 DEF UnitValues
<1> HIDE DEF v
<1>5. Keeps(S, Write(S, NodeFile(p), v))
  BY <1>1, <1>4, UnitAtOK, WriteNode
<1>6. QED
  BY <1>1, <1>3, <1>5, PushesOK, ContinueOK DEF Checks

\* The sub-pipeline of a leg: its nodes are in the fan-out its cursor is in.
LEMMA CursorsOfLegs ==
  ASSUME NEW p \in DOMAIN Tree, p # <<>>, NodeKind(p) # "fanout",
         NodeKind(ParentPath(p)) = "sequence"
  PROVE  /\ ParentPath(p) \in DOMAIN Tree /\ ParentPath(p) # <<>>
         /\ LifeState(p) = EnclosingFanoutId(ParentPath(p))
         /\ NodeKind(ParentPath(ParentPath(p))) = "fanout"
         /\ \A v : NodeOK(ParentPath(p), v) <=>
              v \in [state : Terminal \union {EnclosingFanoutId(ParentPath(p))},
                     sub_state : ChildIds(ParentPath(p)) \union {None}]
<1>1. ParentPath(p) \in DOMAIN Tree /\ ParentPath(p) # <<>>
  BY NodesAreChildren DEF NodeKind, None
<1>2. NodeKind(ParentPath(ParentPath(p))) = "fanout"
  BY <1>1, LegAssumption
<1>3. LifeState(p) = EnclosingFanoutId(ParentPath(p))
  BY <1>2, SubPipelinesFanout
<1>4. QED
  BY <1>1, <1>2, <1>3 DEF NodeOK

LEMMA CursorMoves ==
  ASSUME NEW S, StoreOK(S), NEW leg \in DOMAIN Tree, NodeKind(leg) = "sequence",
         NEW sub \in ChildIds(leg) \union {None},
         NEW state \in Terminal \union {EnclosingFanoutId(leg)}
  PROVE  /\ NodeOK(leg, Cursor(state, sub))
         /\ NodeOK(leg, [CursorAt(S, leg) EXCEPT !.state = state])
         /\ Keeps(S, Write(S, NodeFile(leg), Cursor(state, sub)))
         /\ Keeps(S, Write(S, NodeFile(leg), [CursorAt(S, leg) EXCEPT !.state = state]))
<1> DEFINE States == Terminal \union {EnclosingFanoutId(leg)}
           Subs == ChildIds(leg) \union {None}
           c == CursorAt(S, leg)
<1>1. \A v \in [state : States, sub_state : Subs] : NodeOK(leg, v)
  BY DEF NodeOK
<1>2. Cursor(state, sub) \in [state : States, sub_state : Subs]
  BY DEF Cursor
<1>3. \/ c = Cursor(None, None)
      \/ c \in [state : States, sub_state : Subs]
  BY NodeValue DEF CursorAt, NodeOK
<1>4. [c EXCEPT !.state = state] \in [state : States, sub_state : Subs]
  <2>1. CASE c = Cursor(None, None)
    <3>1. [c EXCEPT !.state = state] = [state |-> state, sub_state |-> None]
      BY <2>1 DEF Cursor
    <3> QED
      BY <3>1
  <2>2. CASE c \in [state : States, sub_state : Subs]
    <3>1. state \in States
      OBVIOUS
    <3> HIDE DEF States, Subs, c
    <3> QED
      BY <2>2, <3>1
  <2> QED
    BY <1>3, <2>1, <2>2
<1>5. NodeOK(leg, Cursor(state, sub)) /\ NodeOK(leg, [c EXCEPT !.state = state])
  BY <1>1, <1>2, <1>4
<1>6. QED
  BY <1>5, WriteNode

LEMMA AdvanceCursorOK ==
  ASSUME NEW S, StoreOK(S), NEW p \in Units, NodeKind(ParentPath(p)) = "sequence",
         NEW asked \in Asks(p)
  PROVE  Lands(S, AdvanceCursor(S, p, asked))
<1> DEFINE leg == ParentPath(p)
           next == NextSibling(p)
           moved == Write(S, NodeFile(leg), Cursor(LifeState(p), next))
<1>1. p \in DOMAIN Tree /\ p # <<>> /\ NodeKind(p) = "agent"
  BY UnitsAreAgents
<1>2. leg \in DOMAIN Tree /\ LifeState(p) = EnclosingFanoutId(leg)
  BY <1>1, CursorsOfLegs
<1>3. next # None => /\ next \in ChildIds(leg) /\ Keeps(S, moved) /\ StoreOK(moved)
                     /\ Child(leg, next) \in DOMAIN Tree /\ Child(leg, next) \in Seq(STRING)
                     /\ LastId(Child(leg, next)) = next
  <2> SUFFICES ASSUME next # None
               PROVE  /\ next \in ChildIds(leg) /\ Keeps(S, moved) /\ StoreOK(moved)
                      /\ Child(leg, next) \in DOMAIN Tree /\ Child(leg, next) \in Seq(STRING)
                      /\ LastId(Child(leg, next)) = next
    OBVIOUS
  <2>1. next \in ChildIds(leg)
    BY <1>1, NextIsSibling
  <2>2. Keeps(S, moved)
    <3>1. next \in ChildIds(leg) \union {None}
          /\ LifeState(p) \in Terminal \union {EnclosingFanoutId(leg)}
      BY <1>2, <2>1
    <3> HIDE DEF next, leg
    <3> QED
      BY <1>2, <3>1, CursorMoves DEF leg
  <2>3. StoreOK(moved)
    BY <2>2 DEF Keeps
  <2> HIDE DEF next, leg
  <2> QED
    BY <1>2, <2>1, <2>2, <2>3, ChildrenAreNodes
<1>4. CASE next # None /\ Child(leg, next) \in LegGates
  <2> DEFINE gate == Child(leg, next)
  <2>1. gate \in DOMAIN Tree /\ NodeKind(gate) = "gate" /\ ~IsRootChild(gate)
    BY <1>4 DEF LegGates
  <2>2. asked \in Tree[gate].asks
    BY <1>4 DEF Asks
  <2>3. NodeOK(gate, OpenGate(gate, asked))
    BY <2>1, <2>2 DEF NodeOK, OpenGate, GateFields
  <2>4. Keeps(moved, Write(moved, NodeFile(gate), OpenGate(gate, asked)))
    BY <1>3, <1>4, <2>1, <2>3, WriteNode
  <2>5. Keeps(S, Write(moved, NodeFile(gate), OpenGate(gate, asked)))
    BY <1>3, <1>4, <2>4, KeepsTransitive
  <2> QED
    BY <1>4, <2>5, PushesOK, NothingIsEmitted DEF AdvanceCursor, Checks
<1>5. CASE next # None /\ Child(leg, next) \notin LegGates
  BY <1>3, <1>5, PushesOK, ContinueOK DEF AdvanceCursor, Checks
<1>6. CASE next = None
  <2>1. Keeps(S, Write(S, NodeFile(leg), [CursorAt(S, leg) EXCEPT !.state = "done"]))
    BY <1>2, CursorMoves DEF Terminal
  <2>2. EmitOK({FireJoin(p)})
    BY <1>1, FireJoinOK
  <2> QED
    BY <1>6, <2>1, <2>2, PushesOK DEF AdvanceCursor, Checks
<1>7. QED
  BY <1>4, <1>5, <1>6

Labels == ChildIds(<<>>) \union {"done", "failed", "blocked"}

LEMMA InstancesChange ==
  ASSUME NEW inst \in Instances
  PROVE  /\ inst.phase \in ChildIds(<<>>)
         /\ inst.halted \in RootAgents \union {None}
         /\ \A b \in Labels : [inst EXCEPT !.label = b] \in Instances
         /\ \A a \in ChildIds(<<>>), b \in Labels :
              /\ [inst EXCEPT !.phase = a, !.label = b] \in Instances
              /\ [inst EXCEPT !.joined = TRUE, !.phase = a, !.label = b] \in Instances
              /\ [inst EXCEPT !.phase = a, !.joined = TRUE, !.label = b] \in Instances
         /\ \A h \in RootAgents \union {None}, b \in Labels :
              [inst EXCEPT !.halted = h, !.label = b] \in Instances
         /\ \A a \in ChildIds(<<>>), b \in Labels, h \in RootAgents \union {None}, id \in RootAgents :
              [inst EXCEPT !.phase = a, !.label = b, !.halted = h,
                           !.overrides = @ \union {id}] \in Instances
         /\ \A n \in Nat : [inst EXCEPT !.comment = n] \in Instances
BY DEF Instances, Labels

LEMMA AdvanceRootOK ==
  ASSUME NEW S, StoreOK(S), NEW p \in Units,
         NodeKind(ParentPath(p)) \notin {"fanout", "sequence"},
         S[NodeFile(p)] \in UnitValues(p), S[InstanceFile] # Missing, NEW blocked
  PROVE  Lands(S, AdvanceRoot(S, p, blocked))
<1> DEFINE next == NextSibling(p)
           inst == S[InstanceFile]
<1>1. p \in DOMAIN Tree /\ p # <<>> /\ NodeKind(p) = "agent"
  BY UnitsAreAgents
<1>2. ParentPath(p) = <<>> /\ p = <<LastId(p)>> /\ LastId(p) \in ChildIds(<<>>)
  BY <1>1, ChildrenOfTheRoot
<1>3. LastId(p) \in RootAgents
  BY <1>1, <1>2 DEF RootAgents
<1>4. inst \in Instances /\ InstanceAt(S) = inst
  BY InstanceValue DEF InstanceAt
<1>5. CASE blocked /\ Tree[p].halts
  <2> DEFINE v == [S[NodeFile(p)] EXCEPT !.state = "failed"]
             T == Write(S, NodeFile(p), v)
             i == [inst EXCEPT !.halted = LastId(p), !.label = "blocked"]
  <2>1. NodeOK(p, v)
    <3>1. v \in UnitValues(p)
      BY DEF UnitValues, Terminal
    <3> HIDE DEF v
    <3> QED
      BY <3>1, UnitAtOK
  <2>2. Keeps(S, T) /\ StoreOK(T)
    <3> HIDE DEF v
    <3> QED
      BY <1>1, <2>1, WriteNode DEF Keeps
  <2>3. i \in Instances
    BY <1>3, <1>4, InstancesChange DEF Labels
  <2> HIDE DEF T, i
  <2>4. Keeps(S, Write(T, InstanceFile, i))
    BY <2>2, <2>3, WriteInstance, KeepsTransitive
  <2>5. AdvanceRoot(S, p, blocked) = Concludes(Write(T, InstanceFile, i), "failure", {})
    BY <1>4, <1>5 DEF AdvanceRoot, T, i
  <2> QED
    BY <2>4, <2>5, PushesOK, NothingIsEmitted DEF Checks
<1>6. CASE ~(blocked /\ Tree[p].halts) /\ next # None
  <2> DEFINE i == [inst EXCEPT !.phase = next, !.label = next]
  <2>1. next \in ChildIds(<<>>)
    BY <1>1, <1>2, <1>6, NextIsSibling
  <2>2. i \in Instances
    BY <1>4, <2>1, InstancesChange DEF Labels
  <2> HIDE DEF i
  <2>3. Keeps(S, Write(S, InstanceFile, i))
    BY <2>2, WriteInstance
  <2>4. <<next>> \in Seq(STRING)
    BY <2>1, ChildrenAreNodes, TreeAssumption
  <2>5. AdvanceRoot(S, p, blocked)
          = Tells(Pushes(Write(S, InstanceFile, i), {Continue(<<next>>)}))
    BY <1>4, <1>6 DEF AdvanceRoot, i
  <2> QED
    BY <2>3, <2>4, <2>5, PushesOK, ContinueOK DEF Checks
<1>7. CASE ~(blocked /\ Tree[p].halts) /\ next = None
  <2> DEFINE i == [inst EXCEPT !.label = "done"]
  <2>1. i \in Instances
    BY <1>4, InstancesChange DEF Labels
  <2> HIDE DEF i
  <2>2. Keeps(S, Write(S, InstanceFile, i))
    BY <2>1, WriteInstance
  <2>3. AdvanceRoot(S, p, blocked) = Concludes(Write(S, InstanceFile, i), "success", {})
    BY <1>4, <1>7 DEF AdvanceRoot, i
  <2> QED
    BY <2>2, <2>3, PushesOK, NothingIsEmitted DEF Checks
<1>8. QED
  BY <1>5, <1>6, <1>7

LEMMA LandsFrom ==
  ASSUME NEW S, NEW T, Keeps(S, T), NEW r, Lands(T, r)
  PROVE  Lands(S, r)
<1>1. ResultOK(T, r) /\ FilesKept(T, r.store) /\ r.push
  BY DEF GoesOn, Lands
<1>2. FilesKept(S, r.store)
  BY <1>1 DEF Keeps, FilesKept
<1>3. AnswersKept(S, r.store)
  BY <1>1, FilesAre DEF ResultOK, Keeps, AnswersKept, AnsweredAt, AnswersFile
<1>4. ManifestsFilled(S, r.store)
  BY <1>1, FilesAre DEF ResultOK, Keeps, ManifestsFilled, ManifestFile
<1>5. QED
  BY <1>1, <1>2, <1>3, <1>4 DEF GoesOn, ResultOK, Lands

\* The end of an attempt, for a leg of a fan-out, of a sub-pipeline, or a root agent.
LEMMA DoneOK ==
  ASSUME NEW S, StoreOK(S), S[InstanceFile] # Missing, NEW p \in Units, NEW tag \in RunTags,
         NEW blocked, NEW asked \in Asks(p)
  PROVE  Lands(S, Done(S, p, tag, blocked, asked))
<1> DEFINE T == WithState(S, p, tag, "done")
           parent == NodeKind(ParentPath(p))
<1>1. p \in DOMAIN Tree /\ p # <<>> /\ NodeKind(p) = "agent"
  BY UnitsAreAgents
<1>2. /\ Keeps(S, T) /\ StoreOK(T) /\ T[NodeFile(p)] \in UnitValues(p)
      /\ T[InstanceFile] # Missing
  BY AttemptOK DEF Terminal, Keeps
<1> HIDE DEF T
<1>3. CASE parent = "fanout"
  <2>1. EmitOK({FireJoin(p)})
    BY <1>1, <1>3, FireJoinOK
  <2>2. Done(S, p, tag, blocked, asked) = Tells(Pushes(T, {FireJoin(p)}))
    BY <1>3 DEF Done, T
  <2> QED
    BY <1>2, <2>1, <2>2, PushesOK DEF Checks
<1>4. CASE parent = "sequence"
  <2>1. Done(S, p, tag, blocked, asked) = AdvanceCursor(T, p, asked)
    BY <1>4 DEF Done, T
  <2> QED
    BY <1>2, <1>4, <2>1, AdvanceCursorOK, LandsFrom
<1>5. CASE parent \notin {"fanout", "sequence"}
  <2>1. Done(S, p, tag, blocked, asked) = AdvanceRoot(T, p, blocked)
    BY <1>5 DEF Done, T
  <2> QED
    BY <1>2, <1>5, <2>1, AdvanceRootOK, LandsFrom
<1>6. QED
  BY <1>3, <1>4, <1>5

LEMMA FailedOK ==
  ASSUME NEW S, StoreOK(S), S[InstanceFile] # Missing, NEW p \in Units, NEW tag \in RunTags
  PROVE  Lands(S, Failed(S, p, tag))
<1> DEFINE T == WithState(S, p, tag, "failed")
           leg == ParentPath(p)
<1>1. p \in DOMAIN Tree /\ p # <<>> /\ NodeKind(p) = "agent"
  BY UnitsAreAgents
<1>2. Keeps(S, T) /\ StoreOK(T) /\ T[InstanceFile] # Missing
  BY AttemptOK DEF Terminal, Keeps
<1> HIDE DEF T
<1>3. CASE NodeKind(leg) = "fanout"
  <2>1. EmitOK({FireJoin(p)})
    BY <1>1, <1>3, FireJoinOK
  <2>2. Failed(S, p, tag) = Tells(Pushes(T, {FireJoin(p)}))
    BY <1>3 DEF Failed, T
  <2> QED
    BY <1>2, <2>1, <2>2, PushesOK DEF Checks
<1>4. CASE NodeKind(leg) = "sequence"
  <2>1. EmitOK({FireJoin(p)})
    BY <1>1, <1>4, FireJoinOK
  <2> DEFINE U == Write(T, NodeFile(leg), [CursorAt(T, leg) EXCEPT !.state = "failed"])
  <2>2. Keeps(T, U)
    BY <1>1, <1>2, <1>4, CursorsOfLegs, CursorMoves DEF Terminal
  <2>3. Failed(S, p, tag) = Tells(Pushes(U, {FireJoin(p)}))
    BY <1>4 DEF Failed, T
  <2> HIDE DEF U
  <2>4. Keeps(S, U)
    BY <1>2, <2>2, KeepsTransitive
  <2> QED
    BY <2>1, <2>3, <2>4, PushesOK DEF Checks
<1>5. CASE NodeKind(leg) \notin {"fanout", "sequence"}
  <2> DEFINE i == [InstanceAt(T) EXCEPT !.label = "failed"]
             U == Write(T, InstanceFile, i)
  <2>1. InstanceAt(T) \in Instances
    BY <1>2, InstanceValue DEF InstanceAt
  <2>2. i \in Instances
    BY <2>1, InstancesChange DEF Labels
  <2>3. Failed(S, p, tag) = Tells(Pushes(U, {}))
    BY <1>2, <1>5 DEF Failed, T
  <2> HIDE DEF i
  <2>4. Keeps(S, U)
    BY <1>2, <2>2, WriteInstance, KeepsTransitive
  <2> HIDE DEF U
  <2> QED
    BY <2>3, <2>4, PushesOK, NothingIsEmitted DEF Checks
<1>6. QED
  BY <1>3, <1>4, <1>5

\* The ways an attempt ends.
LEMMA AttemptEnds ==
  ASSUME NEW S, NEW p, NEW tag, NEW r \in AdvanceOutcomes(S, p, tag)
  PROVE  LET remaining == UnitAt(S, p).iteration < Tree[p].max IN
         \/ \E blocked \in BOOLEAN, asked \in Asks(p) : r = Done(S, p, tag, blocked, asked)
         \/ remaining /\ r = Iterate(S, p, tag)
         \/ ~remaining /\ r = Failed(S, p, tag)
<1>1. PICK passed \in BOOLEAN, blocked \in BOOLEAN, asked \in Asks(p) :
        r = AdvanceResult(S, p, tag, passed, blocked, asked)
  <2> DEFINE B == IF IsRootChild(p) THEN BOOLEAN ELSE {FALSE}
  <2>1. B \subseteq BOOLEAN
    OBVIOUS
  <2>2. AdvanceOutcomes(S, p, tag) =
          {AdvanceResult(S, p, tag, passed, blocked, asked) :
             passed \in BOOLEAN, blocked \in B, asked \in Asks(p)}
    BY DEF AdvanceOutcomes
  <2> HIDE DEF B
  <2>3. PICK passed \in BOOLEAN, blocked \in B, asked \in Asks(p) :
          r = AdvanceResult(S, p, tag, passed, blocked, asked)
    BY <2>2, SMT
  <2> QED
    BY <2>1, <2>3
<1> DEFINE remaining == UnitAt(S, p).iteration < Tree[p].max
<1>2. CASE passed
  BY <1>1, <1>2 DEF AdvanceResult, Decide
<1>3. CASE ~passed /\ remaining
  BY <1>1, <1>3 DEF AdvanceResult, Decide
<1>4. CASE ~passed /\ ~remaining
  BY <1>1, <1>4 DEF AdvanceResult, Decide
<1>5. QED
  BY <1>2, <1>3, <1>4

LEMMA AdvanceOK ==
  ASSUME NEW S, StoreOK(S), S[InstanceFile] # Missing, NEW p \in Units, NEW tag \in RunTags,
         NEW r \in AdvanceOutcomes(S, p, tag)
  PROVE  Lands(S, r)
BY AttemptEnds, DoneOK, IterateOK, FailedOK

-----------------------------------------------------------------------------
(* join.py. *)

\* What stands below the root and in no fan-out directly stands in a sub-pipeline.
LEMMA InSubPipeline ==
  ASSUME NEW p \in DOMAIN Tree, p # <<>>, Len(p) # 1, NodeKind(p) \notin {"agent", "sequence"}
  PROVE  NodeKind(ParentPath(p)) = "sequence"
<1>1. NodeKind(ParentPath(p)) # "fanout"
  BY LegAssumption
<1>2. CASE NodeKind(ParentPath(p)) \notin {"fanout", "sequence"}
  <2>1. p = <<LastId(p)>>
    BY <1>2, ChildrenOfTheRoot
  <2>2. Len(<<LastId(p)>>) = 1
    OBVIOUS
  <2> QED
    BY <2>1, <2>2
<1>3. QED
  BY <1>1, <1>2

LEMMA NestedJoinOK ==
  ASSUME NEW S, StoreOK(S), NEW p \in NestedFanouts
  PROVE  GoesOn(S, NestedJoin(S, p))
<1> DEFINE leg == ParentPath(p)
           joins == JoinsOver(leg, LastId(p))
           policy == IF joins = <<>> THEN AllPolicy ELSE Tree[joins[1]].policy
           next == IF joins = <<>> THEN None ELSE Tree[joins[1]].next
           met == PolicyMet(S, p, p, policy)
           T(failed) == Write(S, JoinFile(p), Marker(TRUE, failed))
<1>1. p \in DOMAIN Tree /\ p # <<>> /\ NodeKind(p) = "fanout" /\ Len(p) # 1
  BY DEF NestedFanouts, IsRootChild, NodeKind, None
<1>2. leg \in DOMAIN Tree /\ leg # <<>> /\ NodeKind(leg) = "sequence"
      /\ NodeKind(ParentPath(leg)) = "fanout"
  <2>1. NodeKind(leg) = "sequence"
    BY <1>1, InSubPipeline
  <2>2. leg \in DOMAIN Tree /\ leg # <<>>
    BY <1>1, <2>1, NodesAreChildren DEF NodeKind, None
  <2> QED
    BY <2>1, <2>2, LegAssumption
<1>3. next \in ChildIds(leg) \union {None}
  BY NamesAssumption
<1>4. ASSUME NEW failed \in BOOLEAN, NEW v, NodeOK(leg, v)
      PROVE  Keeps(S, Write(T(failed), NodeFile(leg), v))
  <2>1. Marker(TRUE, failed) \in [joined : BOOLEAN, failed : BOOLEAN]
    BY DEF Marker
  <2>2. Keeps(S, T(failed)) /\ StoreOK(T(failed))
    BY <2>1, WriteJoin DEF Keeps
  <2> HIDE DEF T
  <2>3. Keeps(T(failed), Write(T(failed), NodeFile(leg), v))
    BY <1>2, <1>4, <2>2, WriteNode
  <2> QED
    BY <2>2, <2>3, KeepsTransitive
<1>5. EmitOK({FireJoin(leg)})
  BY <1>2, FireJoinOK
<1>6. NodeOK(leg, [CursorAt(S, leg) EXCEPT !.state = "failed"])
      /\ NodeOK(leg, [CursorAt(S, leg) EXCEPT !.state = "done"])
      /\ NodeOK(leg, Cursor(EnclosingFanoutId(leg), next))
  <2> HIDE DEF leg, next
  <2> QED
    BY <1>2, <1>3, CursorMoves DEF Terminal
<1> DEFINE done == \/ S[JoinFile(p)] # Missing /\ S[JoinFile(p)].joined
                   \/ ~AllTerminal(S, p, p)
<1>7. CASE done
  BY <1>7, QuietOK DEF NestedJoin
<1>8. CASE ~done /\ ~met
  <2>1. NestedJoin(S, p) = Pushes(Write(T(TRUE), NodeFile(leg),
                                        [CursorAt(S, leg) EXCEPT !.state = "failed"]),
                                  {FireJoin(leg)})
    BY <1>8 DEF NestedJoin, CursorAt
  <2> QED
    BY <1>4, <1>5, <1>6, <2>1, PushesOK DEF Lands, Checks
<1>9. CASE ~done /\ met /\ next # None
  <2>1. NestedJoin(S, p) = Pushes(Write(T(FALSE), NodeFile(leg),
                                        Cursor(EnclosingFanoutId(leg), next)),
                                  {Continue(Child(leg, next))})
    BY <1>9 DEF NestedJoin, CursorAt
  <2>2. Child(leg, next) \in Seq(STRING)
    BY <1>2, <1>3, <1>9, ChildrenAreNodes
  <2> QED
    BY <1>4, <1>6, <2>1, <2>2, ContinueOK, PushesOK DEF Lands, Checks
<1>10. CASE ~done /\ met /\ next = None
  <2>1. NestedJoin(S, p) = Pushes(Write(T(FALSE), NodeFile(leg),
                                        [CursorAt(S, leg) EXCEPT !.state = "done"]),
                                  {FireJoin(leg)})
    BY <1>10 DEF NestedJoin, CursorAt
  <2> QED
    BY <1>4, <1>5, <1>6, <2>1, PushesOK DEF Lands, Checks
<1>11. QED
  BY <1>7, <1>8, <1>9, <1>10

LEMMA TopJoinOK ==
  ASSUME NEW S, StoreOK(S)
  PROVE  GoesOn(S, TopJoin(S))
<1> DEFINE inst == S[InstanceFile]
           p == CurrentFanout(inst.phase)
           prefix == IF IsMultiphase THEN <<inst.phase>> ELSE p
           over == JoinsOver(<<>>, LastId(p))
           joins == IF over # <<>> THEN over
                    ELSE SelectSeq([i \in DOMAIN RootIds |-> <<RootIds[i]>>],
                                   LAMBDA q : NodeKind(q) = "join")
           policy == IF joins = <<>> THEN AllPolicy ELSE Tree[joins[1]].policy
           next == IF joins = <<>> THEN None ELSE Tree[joins[1]].next
           met == PolicyMet(S, p, prefix, policy)
           Moved(phase, label) ==
             [inst EXCEPT !.joined = TRUE, !.phase = phase, !.label = label]
           closed == inst = Missing \/ inst.joined \/ ~AllTerminal(S, p, prefix)
<1>1. CASE closed
  BY <1>1, QuietOK DEF TopJoin
<1>2. ASSUME ~closed
      PROVE  /\ inst \in Instances
             /\ \A a \in ChildIds(<<>>), b \in Labels : Moved(a, b) \in Instances
  <2>1. inst \in Instances
    BY <1>2, InstanceValue
  <2> HIDE DEF inst
  <2> QED
    BY <2>1, InstancesChange
<1>3. ASSUME ~closed, NEW a \in ChildIds(<<>>), NEW b \in Labels
      PROVE  Keeps(S, Write(S, InstanceFile, Moved(a, b)))
  BY <1>2, <1>3, WriteInstance
<1>4. CASE ~closed /\ met /\ next \in ChildIds(<<>>)
  <2>1. TopJoin(S) = Pushes(Write(S, InstanceFile, Moved(next, next)), {Continue(<<next>>)})
    BY <1>4 DEF TopJoin
  <2> HIDE DEF next, met, closed, Moved
  <2>2. <<next>> \in Seq(STRING)
    BY <1>4, RootIdsAreNodes
  <2>3. Keeps(S, Write(S, InstanceFile, Moved(next, next)))
    BY <1>3, <1>4 DEF Labels
  <2> QED
    BY <2>1, <2>2, <2>3, ContinueOK, PushesOK DEF Lands, Checks
<1>5. CASE ~closed /\ met /\ next \notin ChildIds(<<>>)
  <2>1. TopJoin(S) = Concludes(Write(S, InstanceFile, Moved(inst.phase, "done")), "success", {})
    BY <1>5 DEF TopJoin
  <2>2. inst.phase \in ChildIds(<<>>)
    BY <1>2, <1>5, InstancesChange
  <2>3. Keeps(S, Write(S, InstanceFile, Moved(inst.phase, "done")))
    <3> HIDE DEF Moved, closed
    <3> QED
      BY <1>3, <1>5, <2>2 DEF Labels
  <2> HIDE DEF Moved
  <2> QED
    BY <2>1, <2>3, NothingIsEmitted, PushesOK DEF Lands, Checks
<1>6. CASE ~closed /\ ~met
  <2>1. TopJoin(S) = Concludes(Write(S, InstanceFile, Moved(inst.phase, "failed")), "failure", {})
    BY <1>6 DEF TopJoin
  <2>2. inst.phase \in ChildIds(<<>>)
    BY <1>2, <1>6, InstancesChange
  <2>3. Keeps(S, Write(S, InstanceFile, Moved(inst.phase, "failed")))
    <3> HIDE DEF Moved, closed
    <3> QED
      BY <1>3, <1>6, <2>2 DEF Labels
  <2> HIDE DEF Moved
  <2> QED
    BY <2>1, <2>3, NothingIsEmitted, PushesOK DEF Lands, Checks
<1> HIDE DEF met, next, closed
<1>7. QED
  BY <1>1, <1>4, <1>5, <1>6

LEMMA JoinOK ==
  ASSUME NEW S, StoreOK(S), NEW p \in NestedFanouts \union {<<>>}
  PROVE  GoesOn(S, Join(S, p))
<1>1. CASE Len(p) > 1
  <2>1. Len(<<>>) = 0
    OBVIOUS
  <2>2. p \in NestedFanouts
    BY <1>1, <2>1
  <2> QED
    BY <1>1, <2>2, NestedJoinOK DEF Join
<1>2. CASE ~(Len(p) > 1)
  BY <1>2, TopJoinOK DEF Join
<1>3. QED
  BY <1>1, <1>2

-----------------------------------------------------------------------------
(* next.py. *)

LEMMA OverrideOK ==
  ASSUME NEW S, StoreOK(S), NEW r \in Override(S)
  PROVE  GoesOn(S, r)
<1> DEFINE inst == S[InstanceFile]
           next == NextSibling(<<inst.halted>>)
           i == [inst EXCEPT !.phase = next, !.label = next, !.halted = None,
                             !.overrides = @ \union {inst.halted}]
           refused == inst = Missing \/ inst.halted = None \/ next = None
<1>1. Read(S, InstanceFile) = inst
  BY FilesAre DEF Read, StoreOK
<1>2. CASE refused
  BY <1>1, <1>2, QuietOK DEF Override
<1>3. CASE ~refused
  <2>1. inst \in Instances
    BY <1>3, InstanceValue
  <2>2. inst.halted \in RootAgents /\ inst.halted \in ChildIds(<<>>)
    BY <1>3, <2>1, InstancesChange DEF RootAgents
  <2>3. next \in ChildIds(<<>>)
    <3>1. <<inst.halted>> \in DOMAIN Tree /\ <<inst.halted>> # <<>>
          /\ ParentPath(<<inst.halted>>) = <<>>
      BY <2>2, RootIdsAreNodes
    <3> QED
      BY <1>3, <3>1, NextIsSibling
  <2>4. r = Pushes(Write(S, InstanceFile, i), {Continue(<<next>>)})
    BY <1>1, <1>3 DEF Override
  <2>5. i \in Instances
    <3>1. next \in Labels /\ None \in RootAgents \union {None}
      BY <2>3 DEF Labels
    <3> HIDE DEF next, inst
    <3> QED
      BY <2>1, <2>2, <2>3, <3>1, InstancesChange
  <2>6. <<next>> \in Seq(STRING)
    BY <2>3, RootIdsAreNodes
  <2> HIDE DEF i, next
  <2>7. Keeps(S, Write(S, InstanceFile, i))
    BY <2>5, WriteInstance
  <2> QED
    BY <2>4, <2>6, <2>7, ContinueOK, PushesOK DEF Lands, Checks
<1>4. QED
  BY <1>2, <1>3

\* A decision on the gate at the cursor leaves a gate's file.
LEMMA GateDecidedOK ==
  ASSUME NEW S, StoreOK(S), NEW p \in DOMAIN Tree, NodeKind(p) = "gate",
         S[NodeFile(p)] # Missing,
         NEW gate \in {"approved", "changes_requested", "rejected", "open", "answered"},
         NEW state \in {S[NodeFile(p)].state, "failed"}, NEW decision
  PROVE  Keeps(S, GateDecided(S, p, gate, state, decision))
<1> DEFINE v == S[NodeFile(p)]
           w == [v EXCEPT !.gate = gate, !.state = state, !.history = Append(@, decision)]
           history == Append(v.history, decision)
<1>1. NodeOK(p, v)
  BY NodeValue
<1>2. w = [v EXCEPT !.gate = gate, !.state = state, !.history = history]
  OBVIOUS
<1> HIDE DEF history
<1>3. NodeOK(p, w)
  <2>1. /\ DOMAIN v = GateFields /\ v.state \in {LastId(p), "failed"}
        /\ v.questions \in IF IsRootChild(p) THEN {{}} ELSE Tree[p].asks
    BY <1>1 DEF NodeOK
  <2>2. /\ DOMAIN w = GateFields /\ w.gate = gate /\ w.state = state
        /\ w.questions = v.questions
    BY <1>2, <2>1 DEF GateFields
  <2> HIDE DEF w
  <2>3. state \in {LastId(p), "failed"}
    BY <2>1
  <2> HIDE DEF v
  <2> QED
    BY <2>1, <2>2, <2>3 DEF NodeOK
<1> HIDE DEF w
<1>4. GateDecided(S, p, gate, state, decision) = Write(S, NodeFile(p), w)
  BY DEF GateDecided, w
<1>5. QED
  BY <1>3, <1>4, WriteNode

LEMMA ResolveGateOK ==
  ASSUME NEW S, StoreOK(S), NEW decision \in {"approve", "request-changes", "reject"}, NEW said,
         NEW r \in ResolveGate(S, decision, said)
  PROVE  GoesOn(S, r)
<1> DEFINE inst == S[InstanceFile]
           cursor == <<inst.phase>>
           file == S[NodeFile(cursor)]
           next == NextSibling(cursor)
           refused == \/ Read(S, InstanceFile) = Missing
                      \/ NodeKind(cursor) # "gate"
                      \/ Read(S, NodeFile(cursor)) = Missing
                      \/ file.gate \notin {"open", "changes_requested"}
                      \/ decision = "approve" /\ Tree[cursor].excludesAuthor /\ said.byAuthor
           D(gate, state) == GateDecided(S, cursor, gate, state, decision)
           Moved(T, phase, label) ==
             Write(T, InstanceFile, [inst EXCEPT !.phase = phase, !.label = label])
<1>1. Read(S, InstanceFile) = inst
  BY FilesAre DEF Read, StoreOK
<1>2. CASE refused
  <2>1. r = Quiet(S)
    BY <1>1, <1>2, FilesAre DEF ResolveGate, Read, StoreOK
  <2> QED
    BY <2>1, QuietOK
<1>3. ASSUME ~refused
      PROVE  /\ inst \in Instances /\ inst.phase \in ChildIds(<<>>)
             /\ cursor \in DOMAIN Tree /\ cursor # <<>> /\ NodeKind(cursor) = "gate"
             /\ ParentPath(cursor) = <<>>
             /\ file # Missing /\ Read(S, NodeFile(cursor)) = file
  <2>1. inst \in Instances /\ inst.phase \in ChildIds(<<>>)
    BY <1>1, <1>3, InstanceValue, InstancesChange
  <2>2. cursor \in DOMAIN Tree /\ cursor # <<>> /\ ParentPath(cursor) = <<>>
    BY <2>1, RootIdsAreNodes
  <2>3. NodeFile(cursor) \in Files
    BY <1>3, <2>2, FilesAre
  <2> QED
    BY <1>3, <2>1, <2>2, <2>3 DEF Read, StoreOK
<1>4. ASSUME ~refused, NEW gate \in {"approved", "changes_requested", "rejected"},
             NEW state \in {file.state, "failed"}, NEW a \in ChildIds(<<>>), NEW b \in Labels
      PROVE  Keeps(S, D(gate, state)) /\ Keeps(S, Moved(D(gate, state), a, b))
  <2>1. Keeps(S, D(gate, state)) /\ StoreOK(D(gate, state))
    <3>1. /\ cursor \in DOMAIN Tree /\ NodeKind(cursor) = "gate" /\ S[NodeFile(cursor)] # Missing
          /\ gate \in {"approved", "changes_requested", "rejected", "open", "answered"}
          /\ state \in {S[NodeFile(cursor)].state, "failed"}
      BY <1>3, <1>4
    <3> HIDE DEF refused, cursor
    <3>2. Keeps(S, GateDecided(S, cursor, gate, state, decision))
      BY <3>1, GateDecidedOK
    <3> QED
      BY <3>2 DEF Keeps
  <2>2. [inst EXCEPT !.phase = a, !.label = b] \in Instances
    <3> HIDE DEF refused, inst
    <3> QED
      BY <1>3, <1>4, InstancesChange
  <2> HIDE DEF D, refused
  <2>3. Keeps(D(gate, state), Moved(D(gate, state), a, b))
    BY <2>1, <2>2, WriteInstance
  <2> HIDE DEF Moved
  <2> QED
    BY <2>1, <2>3, KeepsTransitive
<1>5. CASE ~refused /\ decision = "approve" /\ next # None
  <2>1. r = Pushes(Moved(D("approved", file.state), next, next), {Continue(<<next>>)})
    BY <1>1, <1>3, <1>5 DEF ResolveGate
  <2>2. next \in ChildIds(<<>>)
    BY <1>3, <1>5, NextIsSibling
  <2>3. <<next>> \in Seq(STRING)
    BY <2>2, RootIdsAreNodes
  <2> HIDE DEF refused, Moved, D, next
  <2>4. Keeps(S, Moved(D("approved", file.state), next, next))
    BY <1>4, <1>5, <2>2 DEF Labels
  <2> QED
    BY <2>1, <2>3, <2>4, ContinueOK, PushesOK DEF Lands, Checks
<1>6. CASE ~refused /\ decision = "approve" /\ next = None
  <2>1. r = Concludes(Moved(D("approved", file.state), inst.phase, "done"), "success", {})
    BY <1>1, <1>3, <1>6 DEF ResolveGate
  <2> HIDE DEF refused, Moved, D, next
  <2>2. Keeps(S, Moved(D("approved", file.state), inst.phase, "done"))
    BY <1>3, <1>4, <1>6 DEF Labels
  <2> QED
    BY <2>1, <2>2, NothingIsEmitted, PushesOK DEF Lands, Checks
<1>7. CASE ~refused /\ decision = "request-changes"
  <2>1. r = Tells(Pushes(D("changes_requested", file.state), {}))
    BY <1>1, <1>3, <1>7 DEF ResolveGate
  <2> HIDE DEF refused, D
  <2>2. Keeps(S, D("changes_requested", file.state))
    BY <1>3, <1>4, <1>7 DEF Labels
  <2> QED
    BY <2>1, <2>2, NothingIsEmitted, PushesOK DEF Lands, Checks
<1>8. CASE ~refused /\ decision = "reject"
  <2>1. r = Concludes(Moved(D("rejected", "failed"), inst.phase, "failed"), "failure", {})
    BY <1>1, <1>3, <1>8 DEF ResolveGate
  <2> HIDE DEF refused, Moved, D, next
  <2>2. Keeps(S, Moved(D("rejected", "failed"), inst.phase, "failed"))
    BY <1>3, <1>4, <1>8 DEF Labels
  <2> QED
    BY <2>1, <2>2, NothingIsEmitted, PushesOK DEF Lands, Checks
<1> HIDE DEF refused, next
<1>9. QED
  BY <1>2, <1>5, <1>6, <1>7, <1>8

\* The gate an answer is for: open, in a sub-pipeline whose cursor stands at it.
LEMMA OpenGatesAre ==
  ASSUME NEW S, StoreOK(S), NEW branch, NEW p \in OpenGates(S, branch)
  PROVE  /\ p \in LegGates /\ p \in DOMAIN Tree /\ p # <<>> /\ NodeKind(p) = "gate"
         /\ ~IsRootChild(p)
         /\ NodeKind(ParentPath(p)) = "sequence"
         /\ ParentPath(p) \in DOMAIN Tree
         /\ S[NodeFile(p)] # Missing
         /\ S[NodeFile(ParentPath(p))] # Missing
<1>1. p \in LegGates /\ OnCursors(S, p) /\ Read(S, NodeFile(p)) # Missing
  BY DEF OpenGates
<1>2. p \in DOMAIN Tree /\ p # <<>> /\ NodeKind(p) = "gate" /\ ~IsRootChild(p) /\ Len(p) # 1
  BY <1>1 DEF LegGates, NodeKind, None, IsRootChild
<1>3. NodeKind(ParentPath(p)) = "sequence"
  BY <1>2, InSubPipeline
<1>4. S[NodeFile(p)] # Missing
  BY <1>1, <1>2, FilesAre DEF Read, StoreOK
<1> DEFINE leg == ParentPath(p)
           k == Len(p) - 1
<1>5. leg \in DOMAIN Tree /\ leg # <<>> /\ leg = Prefix(p, k) /\ Len(p) \in Nat /\ Len(leg) = k
  BY <1>2, <1>3, NodesAreChildren DEF NodeKind, None
<1>6. k \in 1 .. Len(p) - 1
  <2>1. Len(leg) \in Nat \ {0}
    BY <1>5, NodesAreChildren
  <2> QED
    BY <1>5, <2>1
<1>7. Read(S, NodeFile(leg)) # Missing
  <2>1. NodeKind(Prefix(p, k)) = "sequence" => Read(S, NodeFile(Prefix(p, k))) # Missing
    BY <1>1, <1>6 DEF OnCursors
  <2> HIDE DEF leg, k
  <2> QED
    BY <1>3, <1>5, <2>1 DEF leg
<1>8. S[NodeFile(leg)] # Missing
  BY <1>3, <1>5, <1>7, FilesAre DEF Read, StoreOK
<1>9. QED
  BY <1>1, <1>2, <1>3, <1>4, <1>5, <1>8

LEMMA LandsAfter ==
  ASSUME NEW S, NEW T, FilesKept(S, T), AnswersKept(S, T),
         \A p \in DOMAIN Tree : IsDynamic(p) => T[ManifestFile(p)] = S[ManifestFile(p)],
         NEW r, Lands(T, r)
  PROVE  Lands(S, r)
<1>1. ResultOK(T, r) /\ FilesKept(T, r.store) /\ r.push
  BY DEF GoesOn, Lands
<1>2. FilesKept(S, r.store)
  BY <1>1 DEF FilesKept
<1>3. AnswersKept(S, r.store)
  <2> SUFFICES ASSUME NEW p \in LegGates, r.store[AnswersFile(p)] # Missing
               PROVE  AnsweredAt(S, p) \subseteq AnsweredAt(r.store, p)
    BY DEF AnswersKept
  <2>1. AnsweredAt(T, p) \subseteq AnsweredAt(r.store, p)
    BY <1>1 DEF ResultOK, AnswersKept
  <2>2. CASE T[AnswersFile(p)] # Missing
    BY <2>1, <2>2 DEF AnswersKept
  <2>3. CASE T[AnswersFile(p)] = Missing
    <3>1. S[AnswersFile(p)] = Missing
      BY <2>3, FilesAre DEF FilesKept
    <3> QED
      BY <3>1 DEF AnsweredAt
  <2> QED
    BY <2>2, <2>3
<1>4. ManifestsFilled(S, r.store)
  BY <1>1 DEF ResultOK, ManifestsFilled
<1>5. QED
  BY <1>1, <1>2, <1>3, <1>4 DEF GoesOn, ResultOK, Lands

LEMMA AnswerOK ==
  ASSUME NEW S, StoreOK(S), NEW said, NEW r \in Answer(S, said)
  PROVE  GoesOn(S, r)
<1> DEFINE p == FindOpenGate(S, said.branch)
           leg == ParentPath(p)
           next == NextSibling(p)
           v == S[NodeFile(p)]
           questions == v.questions
           answered == AllAnswers(S, p, said)
           T == Write(S, AnswersFile(p), Answers(questions, answered))
           w(gate) == [v EXCEPT !.gate = gate, !.history = Append(@, said.answered)]
           U(gate) == Write(T, NodeFile(p), w(gate))
<1>1. CASE p = <<>>
  <2>1. r = Quiet(S)
    BY <1>1 DEF Answer
  <2> QED
    BY <2>1, QuietOK
<1>2. ASSUME p # <<>>
      PROVE  p \in OpenGates(S, said.branch)
  BY <1>2 DEF FindOpenGate
<1>3. ASSUME p # <<>>
      PROVE  /\ p \in LegGates /\ p \in DOMAIN Tree /\ NodeKind(p) = "gate" /\ ~IsRootChild(p)
             /\ NodeKind(leg) = "sequence" /\ leg \in DOMAIN Tree
             /\ v # Missing /\ S[NodeFile(leg)] # Missing
  <2> HIDE DEF p
  <2> QED
    BY <1>2, <1>3, OpenGatesAre
<1>4. ASSUME p # <<>>
      PROVE  /\ DOMAIN v = GateFields /\ v.state \in {LastId(p), "failed"}
             /\ v.questions \in Tree[p].asks
  <2> HIDE DEF p
  <2> QED
    BY <1>3, <1>4, NodeValue DEF NodeOK
<1>5. ASSUME p # <<>>
      PROVE  /\ StoreOK(T) /\ FilesKept(S, T) /\ AnswersKept(S, T)
             /\ \A q \in DOMAIN Tree : IsDynamic(q) => T[ManifestFile(q)] = S[ManifestFile(q)]
             /\ T[NodeFile(p)] = v /\ T[NodeFile(leg)] = S[NodeFile(leg)]
  <2> DEFINE a == Answers(questions, answered)
             f == AnswersFile(p)
  <2>1. f \in Files /\ f[1] = "answers" /\ f[2] = p
    BY <1>3, <1>5, FilesAre DEF AnswersFile
  <2>2. ValueOK(f, a)
    BY <1>4, <1>5, <2>1 DEF ValueOK, Answers
  <2>3. a # Missing /\ a.answered = answered
    BY <2>1, <2>2, RecordsPresent DEF Answers
  <2> HIDE DEF a
  <2>4. DOMAIN T = Files /\ T[f] = a /\ \A g \in Files : g # f => T[g] = S[g]
    BY <2>1 DEF Write, StoreOK, a
  <2> HIDE DEF T
  <2>5. StoreOK(T) /\ FilesKept(S, T)
    BY <2>2, <2>3, <2>4 DEF StoreOK, FileOK, FilesKept
  <2>6. \A q \in DOMAIN Tree : IsDynamic(q) => T[ManifestFile(q)] = S[ManifestFile(q)]
    BY <2>4, FilesAre DEF ManifestFile, AnswersFile
  <2>7. T[NodeFile(p)] = v /\ T[NodeFile(leg)] = S[NodeFile(leg)]
    <3>1. NodeFile(p) \in Files /\ NodeFile(leg) \in Files
      BY <1>3, <1>5, FilesAre
    <3> QED
      BY <2>4, <3>1 DEF NodeFile, AnswersFile
  <2>8. AnswersKept(S, T)
    <3> SUFFICES ASSUME NEW q \in LegGates PROVE AnsweredAt(S, q) \subseteq AnsweredAt(T, q)
      BY DEF AnswersKept
    <3>1. CASE AnswersFile(q) = f
      <4>1. AnsweredAt(T, q) = answered
        BY <2>3, <2>4, <3>1 DEF AnsweredAt
      <4>2. AnsweredAt(S, q) = AnsweredAt(S, p)
        BY <3>1 DEF AnsweredAt
      <4> QED
        BY <4>1, <4>2 DEF AllAnswers
    <3>2. CASE AnswersFile(q) # f
      BY <2>4, <3>2, FilesAre DEF AnsweredAt
    <3> QED
      BY <3>1, <3>2
  <2> QED
    BY <2>5, <2>6, <2>7, <2>8
<1>6. ASSUME p # <<>>, NEW gate \in {"open", "answered"}
      PROVE  Keeps(T, U(gate)) /\ StoreOK(U(gate))
  <2> DEFINE history == Append(v.history, said.answered)
  <2>1. w(gate) = [v EXCEPT !.gate = gate, !.history = history]
    OBVIOUS
  <2> HIDE DEF history
  <2>2. /\ DOMAIN w(gate) = GateFields /\ w(gate).gate = gate /\ w(gate).state = v.state
        /\ w(gate).questions = v.questions
    <3> HIDE DEF v
    <3> QED
      BY <1>4, <1>6, <2>1 DEF GateFields
  <2>3. NodeOK(p, w(gate))
    <3> HIDE DEF w, p, v
    <3> QED
      BY <1>3, <1>4, <1>6, <2>2 DEF NodeOK
  <2> HIDE DEF w, T, p
  <2> QED
    BY <1>3, <1>5, <1>6, <2>3, WriteNode DEF Keeps
<1>7. ASSUME p # <<>>, NEW V, Keeps(T, V), NEW E, EmitOK(E)
      PROVE  Lands(S, Pushes(V, E))
  <2> HIDE DEF T, p
  <2>1. Lands(T, Pushes(V, E))
    BY <1>7, PushesOK DEF Checks
  <2> QED
    BY <1>5, <1>7, <2>1, LandsAfter
<1>8. CASE p # <<>> /\ ~Covers(questions, answered)
  <2>1. r = Pushes(U("open"), {})
    BY <1>8 DEF Answer
  <2> HIDE DEF p, T, U
  <2> QED
    BY <1>6, <1>7, <1>8, <2>1, NothingIsEmitted DEF Lands
<1>9. CASE p # <<>> /\ Covers(questions, answered) /\ next # None
  <2> DEFINE V == Write(U("answered"), NodeFile(leg), Cursor(LifeState(p), next))
  <2>1. r = Pushes(V, {Continue(Child(leg, next))})
    BY <1>9 DEF Answer
  <2> HIDE DEF p, T, U
  <2>2. next \in ChildIds(leg) /\ Child(leg, next) \in Seq(STRING)
    BY <1>3, <1>9, NextIsSibling, ChildrenAreNodes
  <2>3. LifeState(p) = EnclosingFanoutId(leg)
    BY <1>3, <1>9, CursorsOfLegs
  <2>4. NodeOK(leg, Cursor(LifeState(p), next))
    <3> HIDE DEF leg, next
    <3> QED
      BY <1>3, <1>5, <1>9, <2>2, <2>3, CursorMoves
  <2>5. Keeps(U("answered"), V)
    <3> HIDE DEF leg, next
    <3> QED
      BY <1>3, <1>6, <1>9, <2>4, WriteNode
  <2> HIDE DEF V
  <2>6. Keeps(T, V)
    BY <1>6, <1>9, <2>5, KeepsTransitive
  <2> QED
    BY <1>7, <1>9, <2>1, <2>2, <2>6, ContinueOK DEF Lands
<1>10. CASE p # <<>> /\ Covers(questions, answered) /\ next = None
  <2> DEFINE V == Write(U("answered"), NodeFile(leg), [S[NodeFile(leg)] EXCEPT !.state = "done"])
  <2>1. r = Pushes(V, {FireJoin(p)})
    BY <1>10 DEF Answer
  <2> HIDE DEF p, T, U
  <2>2. EmitOK({FireJoin(p)})
    BY <1>3, <1>10, FireJoinOK
  <2>3. NodeOK(leg, [S[NodeFile(leg)] EXCEPT !.state = "done"])
    <3>1. CursorAt(S, leg) = S[NodeFile(leg)]
      BY <1>3, <1>10 DEF CursorAt
    <3> HIDE DEF leg
    <3>2. NodeOK(leg, [CursorAt(S, leg) EXCEPT !.state = "done"])
      BY <1>3, <1>10, CursorMoves DEF Terminal
    <3> QED
      BY <3>1, <3>2
  <2>4. Keeps(U("answered"), V)
    <3> HIDE DEF leg
    <3> QED
      BY <1>3, <1>6, <1>10, <2>3, WriteNode
  <2> HIDE DEF V
  <2>5. Keeps(T, V)
    BY <1>6, <1>10, <2>4, KeepsTransitive
  <2> QED
    BY <1>7, <1>10, <2>1, <2>2, <2>5 DEF Lands
<1> HIDE DEF p, next
<1>11. QED
  BY <1>1, <1>8, <1>9, <1>10

LEMMA MergeOK ==
  ASSUME NEW S, StoreOK(S), S[InstanceFile] # Missing, NEW p \in DOMAIN Tree,
         NodeKind(p) = "merge", NEW r \in Merge(S, p)
  PROVE  GoesOn(S, r)
<1> DEFINE leg == ParentPath(p)
           sub == IF S[NodeFile(leg)] = Missing THEN None ELSE S[NodeFile(leg)].sub_state
           inst == S[InstanceFile]
           i == [inst EXCEPT !.phase = LastId(p), !.joined = TRUE, !.label = "done"]
<1>1. p # <<>> /\ Len(p) \in Nat \ {0}
  BY NodesAreChildren DEF NodeKind, None
<1>2. CASE MergeConclusions(S, p) = {}
  <2>1. r = Quiet(S)
    BY <1>2 DEF Merge
  <2> QED
    BY <2>1, QuietOK
<1>3. CASE MergeConclusions(S, p) # {} /\ Len(p) > 1
  <2>1. r = Pushes(Write(S, NodeFile(leg), Cursor("done", sub)), {FireJoin(p)})
    BY <1>3 DEF Merge
  <2>2. NodeKind(leg) = "sequence" /\ leg \in DOMAIN Tree
    <3> DEFINE n == Len(p)
    <3>1. n \in Nat /\ n > 1
      BY <1>1, <1>3
    <3> HIDE DEF n
    <3>2. n # 1
      BY <3>1
    <3>3. Len(p) # 1
      BY <3>2 DEF n
    <3> QED
      BY <1>1, <3>3, InSubPipeline, NodesAreChildren
  <2>3. EmitOK({FireJoin(p)})
    BY <1>1, <2>2, FireJoinOK
  <2>4. sub \in ChildIds(leg) \union {None}
    <3>1. S[NodeFile(leg)] = Missing \/ NodeOK(leg, S[NodeFile(leg)])
      BY <2>2, NodeValue
    <3> HIDE DEF leg
    <3> QED
      BY <2>2, <3>1 DEF NodeOK
  <2> HIDE DEF sub, leg
  <2>5. Keeps(S, Write(S, NodeFile(leg), Cursor("done", sub)))
    BY <2>2, <2>4, CursorMoves DEF Terminal
  <2> QED
    BY <2>1, <2>3, <2>5, PushesOK DEF Lands, Checks
<1>4. CASE MergeConclusions(S, p) # {} /\ ~(Len(p) > 1)
  <2>1. PICK conclusion \in MergeConclusions(S, p) :
          r = Concludes(Write(S, InstanceFile, i), conclusion, {})
    BY <1>4 DEF Merge
  <2>2. conclusion \in Checks
    BY DEF MergeConclusions, Checks
  <2>3. LastId(p) \in ChildIds(<<>>)
    <3>1. NodeKind(leg) \notin {"fanout", "sequence"}
      <4>1. Len(leg) = 0
        BY <1>1, <1>4, NodesAreChildren
      <4>2. leg = <<>>
        BY <1>1, <4>1, NodesAreChildren, EmptySeq
      <4> QED
        BY <4>2 DEF NodeKind, None
    <3> QED
      BY <1>1, <3>1, ChildrenOfTheRoot
  <2>4. i \in Instances
    <3>1. inst \in Instances
      BY InstanceValue
    <3> HIDE DEF inst
    <3> QED
      BY <2>3, <3>1, InstancesChange DEF Labels
  <2> HIDE DEF i
  <2>5. Keeps(S, Write(S, InstanceFile, i))
    BY <2>4, WriteInstance
  <2> QED
    BY <2>1, <2>2, <2>5, NothingIsEmitted, PushesOK DEF Lands
<1>5. QED
  BY <1>2, <1>3, <1>4

\* A leg's unit: the leg itself, or the first node of its sub-pipeline.
LEMMA LegsAre ==
  ASSUME NEW p \in DOMAIN Tree, NodeKind(p) = "fanout", NEW l \in ChildIds(p)
  PROVE  /\ Child(p, l) \in DOMAIN Tree
         /\ NodeKind(Child(p, l)) \in {"agent", "sequence"}
         /\ NodeKind(Child(p, l)) = "sequence" =>
              FirstChildId(Child(p, l)) \in ChildIds(Child(p, l))
         /\ LeafPath(p, l) \in Units
         /\ NodeFile(Child(p, l)) \in Files
<1> DEFINE q == Child(p, l)
<1>1. q \in DOMAIN Tree /\ q # <<>> /\ ParentPath(q) = p
  BY ChildrenAreNodes
<1> HIDE DEF q
<1>2. NodeKind(q) \in {"agent", "sequence"}
  BY <1>1, LegAssumption
<1>3. CASE NodeKind(q) = "sequence"
  <2>1. Children(q) # <<>> /\ NodeKind(Child(q, FirstChildId(q))) = "agent"
    BY <1>1, <1>3, LegAssumption
  <2>2. Children(q) \in Seq(STRING \ {None})
    BY <1>1, <2>1, TreeAssumption DEF Children
  <2>3. 1 \in DOMAIN Children(q)
    BY <2>1, <2>2, EmptySeq, LenProperties
  <2>4. FirstChildId(q) \in ChildIds(q)
    BY <2>3 DEF FirstChildId, ChildIds
  <2>5. Child(q, FirstChildId(q)) \in Units
    BY <2>1 DEF Units, NodeKind, None
  <2> QED
    BY <1>1, <1>3, <2>4, <2>5, FilesAre DEF LeafPath, q
<1>4. CASE NodeKind(q) = "agent"
  BY <1>1, <1>4, FilesAre DEF LeafPath, Units, q
<1>5. QED
  BY <1>2, <1>3, <1>4

\* Entering a fan-out seeds each of its legs, and records them.
LEMMA EnterFanoutOK ==
  ASSUME NEW S, StoreOK(S), NEW p \in DOMAIN Tree, NodeKind(p) = "fanout",
         NEW L \in SUBSET ChildIds(p)
  PROVE  LET T == EnterFanout(S, p, L) IN
         /\ StoreOK(T) /\ FilesKept(S, T) /\ ManifestsFilled(S, T)
         /\ \A q \in LegGates : T[AnswersFile(q)] = S[AnswersFile(q)]
<1> DEFINE T == EnterFanout(S, p, L)
<1>1. ASSUME NEW f \in SeededFiles(p, L)
      PROVE  /\ f[1] = "node" /\ f[2] \in DOMAIN Tree
             /\ NodeKind(f[2]) \in {"agent", "sequence", "gate"} /\ NodeOK(f[2], Seeded(f[2]))
  <2>1. \/ \E l \in L : f = NodeFile(Child(p, l))
        \/ \E l \in L : /\ NodeKind(Child(p, l)) = "sequence"
                        /\ f = NodeFile(Child(Child(p, l), FirstChildId(Child(p, l))))
    BY <1>1 DEF SeededFiles
  <2>2. ASSUME NEW l \in L, NodeKind(Child(p, l)) = "sequence"
        PROVE  Child(Child(p, l), FirstChildId(Child(p, l))) \in Units
    BY <2>2, LegsAre DEF LeafPath
  <2>3. ASSUME NEW q \in Units
        PROVE  NodeOK(q, Seeded(q)) /\ NodeKind(q) = "agent" /\ q \in DOMAIN Tree
    <3>1. NodeKind(q) = "agent" /\ q \in DOMAIN Tree
      BY <2>3, UnitsAreAgents
    <3>2. Seeded(q) = FreshUnit(q) /\ FreshUnit(q) \in UnitValues(q)
      <4>1. FreshUnit(q) \in UnitValues(q)
        BY <3>1, UnitsAreAgents DEF FreshUnit, UnitValues, Tags
      <4> QED
        BY <3>1, <4>1 DEF Seeded
    <3>3. NodeOK(q, FreshUnit(q))
      BY <3>1, <3>2 DEF NodeOK, UnitValues
    <3> QED
      BY <3>1, <3>2, <3>3
  <2>4. ASSUME NEW l \in L
        PROVE  /\ NodeOK(Child(p, l), Seeded(Child(p, l)))
               /\ NodeKind(Child(p, l)) \in {"agent", "sequence"}
               /\ Child(p, l) \in DOMAIN Tree
    <3> DEFINE q == Child(p, l)
    <3>1. q \in DOMAIN Tree /\ NodeKind(q) \in {"agent", "sequence"}
          /\ (NodeKind(q) = "sequence" => FirstChildId(q) \in ChildIds(q))
      BY LegsAre
    <3> HIDE DEF q
    <3>2. CASE NodeKind(q) = "agent"
      <4>1. q \in Units
        BY <3>1, <3>2 DEF Units
      <4>2. NodeOK(q, Seeded(q))
        BY <2>3, <4>1
      <4> QED
        BY <3>1, <4>2 DEF q
    <3>3. CASE NodeKind(q) = "sequence"
      <4>1. NodeOK(q, Seeded(q))
        BY <3>1, <3>3 DEF NodeOK, Seeded, Cursor
      <4> QED
        BY <3>1, <4>1 DEF q
    <3> QED
      BY <3>1, <3>2, <3>3
  <2>5. CASE \E l \in L : f = NodeFile(Child(p, l))
    BY <2>4, <2>5 DEF NodeFile
  <2>6. CASE \E l \in L : /\ NodeKind(Child(p, l)) = "sequence"
                          /\ f = NodeFile(Child(Child(p, l), FirstChildId(Child(p, l))))
    BY <2>2, <2>3, <2>6 DEF NodeFile
  <2> QED
    BY <2>1, <2>5, <2>6
<1>2. DOMAIN T = Files
  BY DEF EnterFanout, StoreOK
<1>3. ASSUME NEW f \in Files
      PROVE  /\ T[f] = S[f] \/ ValueOK(f, T[f])
             /\ f \in SeededFiles(p, L) => ValueOK(f, T[f])
             /\ f[1] = "answers" => T[f] = S[f]
             /\ f[1] = "manifest" /\ f # ManifestFile(p) => T[f] = S[f]
             /\ f = ManifestFile(p) => T[f] = Manifest(L)
  <2>1. CASE f \in SeededFiles(p, L)
    <3>1. f[1] = "node" /\ NodeOK(f[2], Seeded(f[2]))
      BY <1>1, <2>1
    <3>2. f # JoinFile(p) /\ f # ManifestFile(p)
      BY <3>1 DEF JoinFile, ManifestFile
    <3>3. T[f] = Seeded(f[2])
      BY <2>1, <3>2 DEF EnterFanout, StoreOK
    <3>4. ValueOK(f, T[f])
      BY <3>1, <3>3 DEF ValueOK
    <3> QED
      BY <3>1, <3>2, <3>4
  <2>2. CASE f \notin SeededFiles(p, L) /\ f = JoinFile(p)
    <3>1. f[1] = "join" /\ f # ManifestFile(p)
      BY <2>2 DEF JoinFile, ManifestFile
    <3>2. T[f] = Marker(FALSE, FALSE)
      BY <2>2, <3>1 DEF EnterFanout, StoreOK
    <3>3. ValueOK(f, T[f])
      BY <3>1, <3>2 DEF ValueOK, Marker
    <3> QED
      BY <2>2, <3>1, <3>3
  <2>3. CASE f \notin SeededFiles(p, L) /\ f = ManifestFile(p)
    <3>1. f[1] = "manifest" /\ f[2] = p /\ f # JoinFile(p)
      BY <2>3 DEF ManifestFile, JoinFile
    <3>2. T[f] = Manifest(L)
      BY <2>3, <3>1 DEF EnterFanout, StoreOK
    <3>3. ValueOK(f, T[f])
      BY <3>1, <3>2 DEF ValueOK, Manifest
    <3> QED
      BY <2>3, <3>1, <3>2, <3>3
  <2>4. CASE f \notin SeededFiles(p, L) /\ f # JoinFile(p) /\ f # ManifestFile(p)
    BY <2>4 DEF EnterFanout, StoreOK
  <2> QED
    BY <2>1, <2>2, <2>3, <2>4
<1> HIDE DEF T
<1>4. StoreOK(T)
  BY <1>2, <1>3 DEF StoreOK, FileOK
<1>5. FilesKept(S, T)
  BY <1>3, RecordsPresent DEF FilesKept
<1>6. \A q \in LegGates : T[AnswersFile(q)] = S[AnswersFile(q)]
  BY <1>3, FilesAre DEF AnswersFile
<1>7. ManifestsFilled(S, T)
  <2> SUFFICES ASSUME NEW q \in DOMAIN Tree, IsDynamic(q),
                      T[ManifestFile(q)] # S[ManifestFile(q)], NEW l \in LegIds(T, q)
               PROVE  T[NodeFile(Child(q, l))] # Missing
    BY DEF ManifestsFilled
  <2>1. ManifestFile(q) \in Files /\ ManifestFile(q)[1] = "manifest"
    BY FilesAre DEF ManifestFile
  <2>2. ManifestFile(q) = ManifestFile(p) /\ q = p
    BY <1>3, <2>1 DEF ManifestFile
  <2>3. T[ManifestFile(q)] = Manifest(L)
    BY <1>3, <2>1, <2>2
  <2>4. l \in L
    BY <1>2, <2>1, <2>3 DEF LegIds, Read, Manifest
  <2>5. NodeFile(Child(p, l)) \in Files /\ NodeFile(Child(p, l)) \in SeededFiles(p, L)
    BY <2>4, LegsAre DEF SeededFiles
  <2> QED
    BY <1>3, <2>2, <2>5, RecordsPresent
<1>8. QED
  BY <1>4, <1>5, <1>6, <1>7 DEF T

LEMMA EnterOK ==
  ASSUME NEW S, StoreOK(S), NEW p \in DOMAIN Tree, p # <<>>, NEW command,
         NEW r \in Enter(S, p, command)
  PROVE  /\ GoesOn(S, r)
         /\ \A q \in LegGates : r.store[AnswersFile(q)] = S[AnswersFile(q)]
         /\ command # "continue" => r.push
<1>1. CASE NodeKind(p) = "fanout"
  <2>1. PICK L \in LegSets(p) :
          r = Result(EnterFanout(S, p, L), TRUE, None, {}, TRUE, {LeafPath(p, l) : l \in L})
    <3>1. PICK e \in Entries(S, p, command) : r = Result(e.store, e.seeded, None, {}, TRUE, e.legs)
      BY <1>1 DEF Enter
    <3>2. PICK L \in LegSets(p) :
            e = [store |-> EnterFanout(S, p, L), seeded |-> TRUE,
                 legs |-> {LeafPath(p, l) : l \in L}]
      BY <1>1 DEF Entries
    <3>3. /\ e.store = EnterFanout(S, p, L) /\ e.seeded = TRUE
          /\ e.legs = {LeafPath(p, l) : l \in L}
      BY <3>2
    <3> QED
      BY <3>1, <3>3
  <2>2. L \in SUBSET ChildIds(p)
    BY DEF LegSets
  <2> DEFINE T == EnterFanout(S, p, L)
             legs == {LeafPath(p, l) : l \in L}
  <2>3. /\ StoreOK(T) /\ FilesKept(S, T) /\ ManifestsFilled(S, T)
        /\ \A q \in LegGates : T[AnswersFile(q)] = S[AnswersFile(q)]
    BY <1>1, <2>2, EnterFanoutOK
  <2>4. legs \in SUBSET Units
    BY <1>1, <2>2, LegsAre
  <2> HIDE DEF T, legs
  <2>5. AnswersKept(S, T)
    BY <2>3 DEF AnswersKept, AnsweredAt
  <2>6. r = Result(T, TRUE, None, {}, TRUE, legs)
    BY <2>1 DEF T, legs
  <2>7. GoesOn(S, r)
    BY <2>3, <2>4, <2>5, <2>6, ResultsOK, NothingIsEmitted DEF Checks
  <2>8. r.store = T /\ r.push
    BY <2>6 DEF Result
  <2> QED
    BY <2>3, <2>7, <2>8
<1>2. CASE NodeKind(p) = "agent"
  <2>1. p \in Units /\ {p} \in SUBSET Units
    BY <1>2 DEF Units
  <2> DEFINE U == Write(S, NodeFile(p), FreshUnit(p))
             entry == [store |-> IF Preserved(S, p, command) THEN S ELSE U,
                       seeded |-> ~Preserved(S, p, command), legs |-> {p}]
  <2>4. r = Result(entry.store, entry.seeded, None, {}, TRUE, entry.legs)
    <3>1. PICK e \in Entries(S, p, command) : r = Result(e.store, e.seeded, None, {}, TRUE, e.legs)
      BY <1>2 DEF Enter
    <3>2. e = entry
      BY <1>2 DEF Entries
    <3> QED
      BY <3>1, <3>2
  <2>2. CASE Preserved(S, p, command)
    <3>1. r = Result(S, FALSE, None, {}, TRUE, {p})
      BY <2>4, <2>2
    <3>2. FilesKept(S, S) /\ AnswersKept(S, S) /\ ManifestsFilled(S, S)
      BY KeepsItself, KeepsAnswersAndManifests DEF Keeps
    <3>3. GoesOn(S, r)
      BY <2>1, <3>1, <3>2, ResultsOK, NothingIsEmitted DEF Checks
    <3>4. r.store = S
      BY <3>1 DEF Result
    <3> QED
      BY <2>2, <3>3, <3>4 DEF Preserved
  <2>3. CASE ~Preserved(S, p, command)
    <3> DEFINE T == Write(S, NodeFile(p), FreshUnit(p))
    <3>1. r = Result(T, TRUE, None, {}, TRUE, {p})
      BY <2>4, <2>3
    <3>2. Keeps(S, T)
      BY <1>2, <2>1, UnitAtOK, WriteNode
    <3> HIDE DEF T
    <3>3. StoreOK(T) /\ FilesKept(S, T) /\ AnswersKept(S, T) /\ ManifestsFilled(S, T)
      BY <3>2, KeepsAnswersAndManifests DEF Keeps
    <3>4. GoesOn(S, r)
      BY <2>1, <3>1, <3>3, ResultsOK, NothingIsEmitted DEF Checks
    <3>5. r.store = T /\ r.push
      BY <3>1 DEF Result
    <3> QED
      BY <3>2, <3>4, <3>5, FilesAre DEF Keeps, AnswersFile
  <2> QED
    BY <2>2, <2>3
<1>3. CASE NodeKind(p) = "gate"
  <2> DEFINE f == RootGateFile(p)
             v == OpenGate(p, {})
             T == Write(S, f, v)
             root == <<LastId(p)>>
  <2>1. r = Tells(Pushes(T, {}))
    BY <1>3 DEF Enter, Entries
  <2>2. f \in Files /\ f[1] = "node" /\ f[2] = root
    <3>1. f \in Files
      <4>1. CASE IsRootChild(p)
        <5>1. NodeKind(ParentPath(p)) \notin {"fanout", "sequence"}
          <6>1. Len(p) = 1 /\ Len(ParentPath(p)) = Len(p) - 1 /\ ParentPath(p) \in Seq(STRING)
            BY <4>1, NodesAreChildren DEF IsRootChild
          <6>2. ParentPath(p) = <<>>
            BY <6>1, EmptySeq
          <6> QED
            BY <6>2 DEF NodeKind, None
        <5>2. p = root
          BY <5>1, ChildrenOfTheRoot
        <5> QED
          BY <1>3, <5>2, FilesAre DEF RootGateFile
      <4>2. CASE ~IsRootChild(p)
        BY <1>3, <4>2, FilesAre DEF LegGates
      <4> QED
        BY <4>1, <4>2
    <3> QED
      BY <3>1 DEF RootGateFile, NodeFile
  <2>3. NodeKind(root) \notin {"agent", "sequence"}
    <3>1. CASE IsRootChild(p)
      <4>1. NodeKind(ParentPath(p)) \notin {"fanout", "sequence"}
        <5>1. Len(p) = 1 /\ Len(ParentPath(p)) = Len(p) - 1 /\ ParentPath(p) \in Seq(STRING)
          BY <3>1, NodesAreChildren DEF IsRootChild
        <5>2. ParentPath(p) = <<>>
          BY <5>1, EmptySeq
        <5> QED
          BY <5>2 DEF NodeKind, None
      <4>2. p = root
        BY <4>1, ChildrenOfTheRoot
      <4> QED
        BY <1>3, <4>2
    <3>2. CASE ~IsRootChild(p)
      <4>1. NodeKind(root) # "agent"
        BY <1>3, <3>2, NamesAssumption DEF LegGates
      <4>2. NodeKind(root) # "sequence"
        <5> SUFFICES ASSUME NodeKind(root) = "sequence" PROVE FALSE
          OBVIOUS
        <5>1. root \in DOMAIN Tree \ {<<>>} /\ NodeKind(ParentPath(root)) = "fanout"
          BY LegAssumption DEF NodeKind, None
        <5>2. Len(root) = 1 /\ Len(ParentPath(root)) = Len(root) - 1
              /\ ParentPath(root) \in Seq(STRING)
          BY <5>1, NodesAreChildren
        <5>3. ParentPath(root) = <<>>
          BY <5>2, EmptySeq
        <5> QED
          BY <5>1, <5>3 DEF NodeKind, None
      <4> QED
        BY <4>1, <4>2
    <3> QED
      BY <3>1, <3>2
  <2>4. NodeOK(root, v)
    <3>1. /\ DOMAIN v = GateFields /\ v.state = LastId(p) /\ v.gate = "open" /\ v.questions = {}
          /\ LastId(root) = LastId(p)
      BY DEF OpenGate, GateFields, LastId
    <3>2. NodeKind(root) = "gate" => IsRootChild(root)
      BY DEF NodeKind, IsRootChild, None
    <3> HIDE DEF v, root
    <3> QED
      BY <2>3, <3>1, <3>2 DEF NodeOK
  <2>5. Keeps(S, T)
    <3> HIDE DEF v, f, root
    <3>1. ValueOK(f, v)
      BY <2>2, <2>4 DEF ValueOK
    <3> QED
      BY <2>2, <3>1, WriteKeeps
  <2> HIDE DEF T
  <2>6. Lands(S, r)
    BY <2>1, <2>5, PushesOK, NothingIsEmitted DEF Checks
  <2>7. r.store = T
    BY <2>1 DEF Tells, Pushes, Result
  <2> QED
    BY <2>5, <2>6, <2>7, FilesAre DEF Keeps, AnswersFile, Lands
<1>4. CASE NodeKind(p) \notin {"fanout", "agent", "gate"}
  BY <1>4 DEF Enter, Entries
<1>5. QED
  BY <1>1, <1>2, <1>3, <1>4

\* A `start` wipes the instance and records a new one.
LEMMA EnterRootOK ==
  ASSUME NEW S, StoreOK(S), NEW r \in EnterRoot(S, "start")
  PROVE  ResultOK(S, r) /\ r.push /\ r.store[InstanceFile] # Missing
<1> DEFINE first == RootIds[1]
           W == Wiped(S)
           T == Write(W, InstanceFile, NewInstance(first))
<1>1. first \in ChildIds(<<>>)
  <2>1. RootIds # <<>> /\ RootIds \in Seq(STRING \ {None})
    BY NamesAssumption, TreeAssumption DEF RootIds, Children
  <2>2. 1 \in DOMAIN RootIds
    BY <2>1, EmptySeq, LenProperties
  <2> QED
    BY <2>2 DEF ChildIds, RootIds
<1>2. StoreOK(W) /\ \A q \in LegGates : W[AnswersFile(q)] = Missing
  <2>1. DOMAIN W = Files /\ \A f \in Files : W[f] \in {S[f], Missing}
    BY DEF Wiped, StoreOK
  <2>2. \A f \in Files : f[1] # "node" => W[f] = Missing
    BY DEF Wiped, StoreOK
  <2> HIDE DEF W
  <2> QED
    BY <2>1, <2>2, FilesAre DEF StoreOK, FileOK, AnswersFile
<1>3. NewInstance(first) \in Instances
  BY <1>1 DEF NewInstance, Instances
<1>4. /\ StoreOK(T) /\ T[InstanceFile] # Missing
      /\ \A q \in LegGates : T[AnswersFile(q)] = Missing
      /\ \A q \in DOMAIN Tree : IsDynamic(q) => T[ManifestFile(q)] = Missing
  <2>1. \A q \in DOMAIN Tree : IsDynamic(q) => W[ManifestFile(q)] = Missing
    BY FilesAre DEF Wiped, StoreOK, ManifestFile
  <2>2. Keeps(W, T) /\ T[InstanceFile] = NewInstance(first)
    <3> HIDE DEF W, first
    <3> QED
      BY <1>2, <1>3, WriteInstance
  <2>3. T[InstanceFile] # Missing
    BY <2>2 DEF NewInstance, Missing
  <2> HIDE DEF W, T
  <2> QED
    BY <1>2, <2>1, <2>2, <2>3, FilesAre DEF Keeps, AnswersFile, ManifestFile
<1>5. r \in Enter(T, <<first>>, "start")
  BY DEF EnterRoot
<1> HIDE DEF T, first
<1>6. /\ GoesOn(T, r) /\ r.push
      /\ \A q \in LegGates : r.store[AnswersFile(q)] = T[AnswersFile(q)]
  BY <1>1, <1>4, <1>5, RootIdsAreNodes, EnterOK
<1>7. r.store[InstanceFile] # Missing
  BY <1>4, <1>6, FilesAre DEF GoesOn, FilesKept
<1>8. AnswersKept(S, r.store)
  BY <1>4, <1>6 DEF AnswersKept
<1>9. ManifestsFilled(S, r.store)
  <2> SUFFICES ASSUME NEW q \in DOMAIN Tree, IsDynamic(q), NEW l \in LegIds(r.store, q)
               PROVE  r.store[NodeFile(Child(q, l))] # Missing
    BY DEF ManifestsFilled
  <2>1. ManifestsFilled(T, r.store) /\ StoreOK(r.store)
    BY <1>6 DEF GoesOn, ResultOK
  <2>2. CASE r.store[ManifestFile(q)] = T[ManifestFile(q)]
    <3>1. r.store[ManifestFile(q)] = Missing
      BY <1>4, <2>2
    <3>2. LegIds(r.store, q) = {}
      BY <2>1, <3>1, FilesAre DEF LegIds, Read, StoreOK
    <3> QED
      BY <3>2
  <2>3. CASE r.store[ManifestFile(q)] # T[ManifestFile(q)]
    BY <2>1, <2>3 DEF ManifestsFilled
  <2> QED
    BY <2>2, <2>3
<1>10. QED
  BY <1>6, <1>7, <1>8, <1>9 DEF GoesOn, ResultOK

LEMMA PlanOK ==
  ASSUME NEW S, StoreOK(S), NEW p, NEW said,
         NEW command \in Replies \union {"continue"},
         command = "continue" => S[InstanceFile] # Missing,
         NEW r \in Plan(S, command, p, said)
  PROVE  GoesOn(S, r)
<1>1. CASE command = "override"
  BY <1>1, OverrideOK DEF Plan
<1>2. CASE command \in {"approve", "request-changes", "reject"}
  BY <1>2, ResolveGateOK DEF Plan
<1>3. CASE command = "answer"
  BY <1>3, AnswerOK DEF Plan
<1>4. CASE command = "continue"
  <2>1. r \in ContinueAt(S, p)
    BY <1>4 DEF Plan
  <2>2. CASE NodeKind(p) \in {"fanout", "agent", "gate"}
    <3>1. r \in Enter(S, p, "continue") /\ p \in DOMAIN Tree /\ p # <<>>
      BY <2>1, <2>2 DEF ContinueAt, NodeKind, None
    <3> QED
      BY <3>1, EnterOK
  <2>3. CASE NodeKind(p) = "merge"
    <3>1. r \in Merge(S, p) /\ p \in DOMAIN Tree
      BY <2>1, <2>3 DEF ContinueAt, NodeKind, None
    <3> QED
      BY <1>4, <2>3, <3>1, MergeOK
  <2>4. CASE NodeKind(p) \notin {"fanout", "agent", "gate", "merge"}
    <3>1. r = Quiet(S)
      BY <2>1, <2>4 DEF ContinueAt
    <3> QED
      BY <3>1, QuietOK
  <2> QED
    BY <2>2, <2>3, <2>4
<1>5. QED
  BY <1>1, <1>2, <1>3, <1>4 DEF Replies

\* Nothing comes of a reply before the instance is recorded.
LEMMA BlankPlan ==
  ASSUME NEW S, StoreOK(S), \A f \in Files : S[f] = Missing, NEW p, NEW said,
         NEW command \in Replies, NEW r \in Plan(S, command, p, said)
  PROVE  r = Quiet(S)
<1>1. Read(S, InstanceFile) = Missing
  BY FilesAre DEF Read, StoreOK
<1>2. CASE command = "override"
  BY <1>1, <1>2 DEF Plan, Override
<1>3. CASE command \in {"approve", "request-changes", "reject"}
  BY <1>1, <1>3 DEF Plan, ResolveGate
<1>4. CASE command = "answer"
  <2>1. \A branch : OpenGates(S, branch) = {}
    BY OpenGatesAre, FilesAre
  <2>2. FindOpenGate(S, said.branch) = <<>>
    BY <2>1 DEF FindOpenGate
  <2> QED
    BY <1>4, <2>2 DEF Plan, Answer
<1>5. QED
  BY <1>2, <1>3, <1>4 DEF Replies
=============================================================================

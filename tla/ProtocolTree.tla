---------------------------- MODULE ProtocolTree -----------------------------
(***************************************************************************)
(* A protocol as a tree of nodes, addressed by tree paths (paths.py).      *)
(* Children of a sequence are ordered; a dynamic fan-out lists every leg   *)
(* its expander may return, each with a copy of the `each` template.       *)
(***************************************************************************)
EXTENDS Naturals, Sequences, FiniteSets

CONSTANT
  Tree   \* [path |-> node]; the root, a sequence, is at <<>>

None == ""   \* Python's None for ids

NodeKinds ==
  {"root", "sequence", "fanout", "agent", "gate", "join", "merge"}

Containers == {"root", "sequence", "fanout"}

\* Every node is listed by the one above it, up to the root; a node lists only nodes.
ASSUME TreeAssumption ==
  /\ <<>> \in DOMAIN Tree
  /\ \A p \in DOMAIN Tree :
       /\ p \in Seq(STRING)
       /\ Tree[p].kind \in NodeKinds
       /\ (p = <<>>) = (Tree[p].kind = "root")
       /\ Tree[p].kind \in Containers =>
            /\ Tree[p].children \in Seq(STRING \ {None})
            /\ \A i \in DOMAIN Tree[p].children : Append(p, Tree[p].children[i]) \in DOMAIN Tree
       /\ \A k \in 0 .. Len(p) - 1 :
            LET above == SubSeq(p, 1, k) IN
            /\ above \in DOMAIN Tree
            /\ Tree[above].kind \in Containers
            /\ \E i \in DOMAIN Tree[above].children : Tree[above].children[i] = p[k + 1]

NodeKind(p) == IF p \in DOMAIN Tree \ {<<>>} THEN Tree[p].kind ELSE None

ParentPath(p) == SubSeq(p, 1, Len(p) - 1)
LastId(p) == p[Len(p)]
Child(p, id) == Append(p, id)

\* The children in order; a leaf has none.
Children(p) ==
  IF p \in DOMAIN Tree /\ Tree[p].kind \in Containers
  THEN Tree[p].children ELSE <<>>

ChildIds(p) == {Children(p)[i] : i \in DOMAIN Children(p)}
FirstChildId(p) == Children(p)[1]
RootIds == Children(<<>>)
IsRootChild(p) == Len(p) = 1 /\ p \in DOMAIN Tree

Prefix(p, k) == SubSeq(p, 1, k)

\* Where p stands among its siblings.
Index(p) ==
  LET siblings == Children(ParentPath(p)) IN
  CHOOSE i \in DOMAIN siblings : siblings[i] = LastId(p)

\* The next child of the enclosing sequence; branches of a fan-out have none.
NextSibling(p) ==
  LET siblings == Children(ParentPath(p)) IN
  IF NodeKind(ParentPath(p)) # "fanout" /\ Index(p) < Len(siblings)
  THEN siblings[1 + Index(p)] ELSE None

\* Lengths of the prefixes of p, itself included, that are fan-outs.
FanoutDepths(p) == {k \in 1 .. Len(p) : NodeKind(Prefix(p, k)) = "fanout"}

\* The nearest of them; <<>> for a node in no fan-out.
EnclosingFanouts ==
  [p \in DOMAIN Tree |->
     IF FanoutDepths(p) = {} THEN <<>>
     ELSE Prefix(p, CHOOSE k \in FanoutDepths(p) : \A i \in FanoutDepths(p) : i <= k)]

EnclosingFanoutPath(p) == EnclosingFanouts[p]

EnclosingFanoutId(p) ==
  IF EnclosingFanoutPath(p) = <<>> THEN None ELSE LastId(EnclosingFanoutPath(p))

\* The in-flight value of the `state` of an agent unit.
LifeState(p) ==
  IF EnclosingFanoutId(p) = None THEN LastId(p) ELSE EnclosingFanoutId(p)

PhaseIds == {id \in ChildIds(<<>>) : NodeKind(<<id>>) \in {"agent", "fanout"}}
FanoutIds == {id \in ChildIds(<<>>) : NodeKind(<<id>>) = "fanout"}
IsMultiphase == Cardinality(PhaseIds) > 1

\* The fan-out at the cursor in a multi-phase protocol, else the first one.
CurrentFanout(phase) ==
  IF IsMultiphase /\ NodeKind(<<phase>>) = "fanout" THEN <<phase>>
  ELSE <<RootIds[CHOOSE i \in DOMAIN RootIds :
                   /\ RootIds[i] \in FanoutIds
                   /\ \A k \in 1 .. i - 1 : RootIds[k] \notin FanoutIds]>>

NestedFanouts == {p \in DOMAIN Tree : NodeKind(p) = "fanout" /\ ~IsRootChild(p)}
IsDynamic(p) == NodeKind(p) = "fanout" /\ Tree[p].dynamic

\* The first join over fan-out `of` among the nodes of a sequence, if any.
FirstJoin(nodes, of) ==
  LET over == {i \in DOMAIN nodes : NodeKind(nodes[i]) = "join" /\ Tree[nodes[i]].of = of}
  IN IF over = {} THEN <<>> ELSE <<nodes[CHOOSE i \in over : \A k \in over : i <= k]>>

\* It is looked for among the root's children, then p's.
JoinsOver(p, of) ==
  FirstJoin([i \in 1 .. Len(RootIds) |-> <<RootIds[i]>>] \o
            [i \in 1 .. Len(Children(p)) |-> Child(p, Children(p)[i])], of)

\* The gates of sub-pipelines: they ask the questions of an earlier unit.
LegGates == {p \in DOMAIN Tree : NodeKind(p) = "gate" /\ ~IsRootChild(p)}
=============================================================================

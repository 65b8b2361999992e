----------------------------- MODULE Validation ------------------------------
(***************************************************************************)
(* lib.validate_protocol, lib.check_depth and protocol-lint.py: which      *)
(* protocols are accepted.  A protocol T is a tree as in ProtocolTree,     *)
(* with the keys its author wrote: `workflow` of agents and legs, `of` and *)
(* `policy` of joins, `questionsFrom` of gates, `from` of merges (the      *)
(* fan-outs they reduce), `branches`, `expand` and `each` of fan-outs.     *)
(* The template of a dynamic fan-out is its only child, "<each>".          *)
(***************************************************************************)
EXTENDS Integers, Sequences, FiniteSetsExt

\* The engine's own view of a protocol.
Navigate(T) == INSTANCE ProtocolTree WITH Tree <- T

Absent == ""   \* a key that is not written

Parent(p) == SubSeq(p, 1, Len(p) - 1)
Sequences(T) == {p \in DOMAIN T : T[p].kind \in {"root", "sequence"}}
SiblingIds(T, p) == Navigate(T)!ChildIds(Parent(p))

\* Mutant: the fan-outs of the whole protocol count as siblings.
SiblingFanoutsAny(T, p) ==
  {Navigate(T)!LastId(q) : q \in {r \in DOMAIN T : T[r].kind = "fanout"}}
SiblingFanouts(T, p) == {id \in SiblingIds(T, p) : T[Append(Parent(p), id)].kind = "fanout"}

\* Rule 4: what `expand` needs; 256 legs is what a matrix takes.
ExpandOK(expand) ==
  /\ expand.complete
  /\ expand.maxLegs \in 1 .. 256
  /\ expand.matrixFields \in {"unset", "names"}

FanoutOK(node) ==
  IF node.branches
  THEN ~node.expand.given /\ node.each = {}
  ELSE ExpandOK(node.expand) /\ node.each \in {{"workflow"}, {"states"}}

\* Rules 1, 2a, 3, 4, 5 and 6, for a child of a sequence.
StateOK(T, p) ==
  LET node == T[p] IN
  CASE node.kind = "agent" -> node.workflow
    [] node.kind = "join" ->
         node.of \in {Absent} \union SiblingFanouts(T, p) /\ node.policy
    [] node.kind = "gate" -> node.questionsFrom \in {Absent} \union SiblingIds(T, p)
    [] node.kind = "merge" -> node.from \subseteq SiblingFanouts(T, p)
    [] node.kind = "fanout" -> FanoutOK(node)

\* Rule 2b: a leg is a sub-pipeline, or has a workflow.
LegOK(T, p) == T[p].kind = "sequence" \/ T[p].workflow

\* _validate_sequence, from the root down through the legs that are sequences.
ValidateProtocol(T) ==
  \A p \in Sequences(T) :
    \A id \in Navigate(T)!ChildIds(p) :
      /\ StateOK(T, Append(p, id))
      /\ T[Append(p, id)].kind = "fanout" /\ T[Append(p, id)].branches =>
           \A leg \in Navigate(T)!ChildIds(Append(p, id)) :
             LegOK(T, Append(Append(p, id), leg))

Leaves(T) == {p \in DOMAIN T : T[p].kind \notin {"root", "sequence", "fanout"}}

MaxStaticDepth(T) == Max({0} \union {Len(p) : p \in Leaves(T)})

DefaultMaxDepth == 5
EffectiveMaxDepth(declared) == IF declared = {} THEN DefaultMaxDepth ELSE Min(declared)
CheckDepth(T, declared) == MaxStaticDepth(T) <= EffectiveMaxDepth(declared)

\* protocol-lint's report: the schema is skipped where jsonschema is not installed,
\* and both rules of the engine are tried whatever the others said.
Lint(T, declared, schema) ==
  LET structural == IF schema = "fails" THEN {"schema"} ELSE {}
      semantic == (IF ValidateProtocol(T) THEN {} ELSE {"validate_protocol"}) \union
                  (IF CheckDepth(T, declared) THEN {} ELSE {"check_depth"})
  IN [ok |-> structural \union semantic = {}, renderable |-> semantic = {}]

-----------------------------------------------------------------------------
(* What acceptance is worth to the engine. *)

Fanouts(T) == {p \in DOMAIN T : T[p].kind = "fanout"}
DistinctFanouts(T) ==
  \A p, q \in Fanouts(T) : p[Len(p)] = q[Len(q)] => p = q

\* The engine closes a nested fan-out with the first join it finds for its id, the
\* root's joins before those around it.  In a protocol the lint accepts, whose
\* fan-outs have different ids, that join is one beside the fan-out.
JoinClosesItsFanout(T, declared, schema) ==
  Lint(T, declared, schema).ok /\ DistinctFanouts(T) =>
    \A p \in Fanouts(T) : Len(p) > 1 =>
      LET joins == Navigate(T)!JoinsOver(Parent(p), p[Len(p)]) IN
      joins # <<>> => Parent(joins[1]) = Parent(p)
=============================================================================

------------------------------- MODULE Inputs --------------------------------
(***************************************************************************)
(* lib.resolve_inputs: the file a declared input is read from.  Outputs    *)
(* are files named by a path and a kind; nothing but the names ties what a *)
(* unit leaves (persist_output, do_answer, a nested merge) to what a later *)
(* unit reads, and an input whose file is missing is left out silently.    *)
(***************************************************************************)
EXTENDS ProtocolTree, FiniteSetsExt

Output(path, kind) == [path |-> path, kind |-> kind]

\* state_path
StatePath(p) == IF IsMultiphase THEN p ELSE Tail(p)

\* Where the unit at p leaves its output.
Written(p) == Output(StatePath(p), IF NodeKind(p) = "gate" THEN "answers" ELSE "evidence")

\* Mutant: a leg's output is its first unit's.
LegOutputFirst(leg) ==
  IF NodeKind(leg) = "sequence" THEN Child(leg, Children(leg)[1]) ELSE leg
\* branch_output_substate: the unit whose output is a leg's.
LegOutput(leg) ==
  IF NodeKind(leg) = "sequence" THEN Child(leg, Children(leg)[Len(Children(leg))]) ELSE leg

\* Mutant: the legs of a dynamic fan-out can be named.
NamedAll(p) == Children(p)
\* The children a reference may name; the legs of a dynamic fan-out have no names.
Named(p) == IF IsDynamic(p) THEN <<>> ELSE Children(p)
StaticLegs(p) == IF NodeKind(p) = "fanout" THEN {Named(p)[i] : i \in DOMAIN Named(p)} ELSE {}

\* The i-th child of `scope` is what `from` names, or has a leg of that name.
Hit(scope, from, i) ==
  \/ Named(scope)[i] = from
  \/ from \in StaticLegs(Child(scope, Named(scope)[i]))
Hits(scope, from) == {i \in DOMAIN Named(scope) : Hit(scope, from, i)}

Sibling(scope, from) == Written(Child(scope, from))
LegOf(fanout, from) == Output(StatePath(LegOutput(Child(fanout, from))), "evidence")

FoundIn(scope, from) ==
  LET child == Named(scope)[Min(Hits(scope, from))] IN
  IF child = from THEN Sibling(scope, from) ELSE LegOf(Child(scope, child), from)

\* The lengths of the scopes around p that know `from`.
Knowing(p, from) == {k \in 0 .. Len(p) - 1 : Hits(Prefix(p, k), from) # {}}

\* Mutant: the search begins at the root.
NearestOutermost(p, from) == FoundIn(Prefix(p, Min(Knowing(p, from))), from)
\* _resolve_input_ref_pathaware: from the innermost scope outwards.
Nearest(p, from) == FoundIn(Prefix(p, Max(Knowing(p, from))), from)

\* _fanout_state: the first of the root's fan-outs.
FirstFanout == CurrentFanout(None)

\* The names of resolve_inputs' three older cases: branch, phase and sub-state.
Coordinates(phase, branch, substate) ==
  SelectSeq(<<phase, branch, substate>>, LAMBDA id : id # None)
LegSubstate(from) ==
  LET leg == Child(FirstFanout, from) IN
  IF NodeKind(leg) = "sequence" THEN LastId(LegOutput(leg)) ELSE None

Substates(branch) ==
  IF FanoutIds # {} /\ branch \in StaticLegs(FirstFanout)
  THEN ChildIds(Child(FirstFanout, branch)) ELSE {}

\* A sub-state of the consumer's branch, a leg of the first fan-out, else a phase.
Legacy(branch, phase, from) ==
  CASE from \in Substates(branch) ->
         Output(Coordinates(phase, branch, from),
                IF NodeKind(FirstFanout \o <<branch, from>>) = "gate"
                THEN "answers" ELSE "evidence")
    [] /\ from \notin Substates(branch)
       /\ FanoutIds # {} /\ from \in StaticLegs(FirstFanout) ->
         Output(Coordinates(phase, from, LegSubstate(from)), "evidence")
    [] OTHER -> Output(<<from>>, "evidence")

\* What the consumer at p reads for `from`.  A merge of the root looks among the
\* legs of the first fan-out only.
Resolved(p, from) ==
  CASE NodeKind(p) = "merge" /\ Len(p) = 1 ->
         Legacy(None, IF IsMultiphase /\ FanoutIds # {} THEN FirstFanout[1] ELSE None, from)
    [] (NodeKind(p) # "merge" \/ Len(p) > 1) /\ Knowing(p, from) # {} -> Nearest(p, from)
    [] OTHER -> Legacy(IF Len(p) > 1 /\ NodeKind(p) # "merge" THEN p[Len(p) - 1] ELSE None,
                       None, from)

\* collect_fanout_evidence: a merge's rows of a dynamic fan-out, read where the
\* last unit of each leg leaves its output.
Rows(fanout) ==
  {[leg |-> l, evidence |-> Output(StatePath(LegOutput(Child(fanout, l))), "evidence")] :
     l \in ChildIds(fanout)}

-----------------------------------------------------------------------------
(* What the names must achieve. *)

Producers == {p \in DOMAIN Tree :
  NodeKind(p) = "agent" \/ (NodeKind(p) \in {"gate", "merge"} /\ Len(p) > 1)}
Consumers == {p \in DOMAIN Tree : NodeKind(p) \in {"agent", "merge"}}

\* Nodes that are over when p starts: before p, or what is around it, in a sequence.
Before(q, p) ==
  /\ Len(q) <= Len(p)
  /\ ParentPath(q) = Prefix(p, Len(q) - 1)
  /\ NodeKind(ParentPath(q)) # "fanout"
  /\ Index(q) < Index(Prefix(p, Len(q)))

\* The outputs `from` may mean to p: of a unit before p, or of a leg of a static
\* fan-out before p, in the nearest scope, unless a nearer node has that name.
Meant(p, from) ==
  LET units == {q \in Producers : LastId(q) = from /\ Before(q, p)}
      legs == {q \in DOMAIN Tree :
                 /\ Len(q) > 1 /\ LastId(q) = from
                 /\ NodeKind(ParentPath(q)) = "fanout" /\ ~IsDynamic(ParentPath(q))
                 /\ Before(ParentPath(q), p)}
      depth == Max({Len(q) : q \in units} \union {Len(q) - 1 : q \in legs})
      shadowed == \E q \in DOMAIN Tree \ {<<>>} :
        /\ LastId(q) = from /\ Len(q) > depth /\ Len(q) <= Len(p)
        /\ ParentPath(q) = Prefix(p, Len(q) - 1)
  IN IF units \union legs = {} \/ shadowed THEN {}
     ELSE {q \in units : Len(q) = depth} \union
          {LegOutput(q) : q \in {l \in legs : Len(l) - 1 = depth}}

\* An input that names something over by then is read from the file in which that
\* very unit leaves its output.
ReadsWhatIsWritten(p, from) ==
  \A q \in Meant(p, from) : NodeKind(q) \in {"agent", "merge"} \/ LastId(q) = from =>
    Resolved(p, from) = Written(q)

\* A leg never reads a file of another leg of a dynamic fan-out around it: the
\* units of all of them have the same ids.
ReadsOwnLeg(p, from) ==
  LET path == Resolved(p, from).path IN
  \A k \in 1 .. Len(p) - 1 :
    LET below == StatePath(Prefix(p, k)) IN
    IsDynamic(Prefix(p, k)) /\ Len(path) > Len(below) /\ Prefix(path, Len(below)) = below =>
      path[Len(below) + 1] = p[k + 1]

\* A merge over a dynamic fan-out reads every leg once, where it wrote.
MergesWhatLegsWrote(fanout) ==
  \A l \in ChildIds(fanout) : \A q \in Producers :
    LET leg == Child(fanout, l) IN
    q = leg \/ (q # <<>> /\ ParentPath(q) = leg /\ NextSibling(q) = None) =>
      {row \in Rows(fanout) : row.leg = l} = {[leg |-> l, evidence |-> Written(q)]}
=============================================================================

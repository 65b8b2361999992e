----------------------------- MODULE JoinScript ------------------------------
(***************************************************************************)
(* join.py: what a protocol-join makes of a clone S.  The path of a nested *)
(* fan-out comes with the event; without one, the fan-out at the cursor.   *)
(***************************************************************************)
EXTENDS EngineState

AllPolicy == [kind |-> "all"]

\* _nested_join: close the barrier of p once, and move the leg around it on.
NestedJoin(S, p) ==
  LET leg == ParentPath(p)
      joins == JoinsOver(leg, LastId(p))
      policy == IF joins = <<>> THEN AllPolicy ELSE Tree[joins[1]].policy
      next == IF joins = <<>> THEN None ELSE Tree[joins[1]].next
      cursor == IF S[NodeFile(leg)] = Missing THEN Cursor(None, None) ELSE S[NodeFile(leg)]
      Joined(failed, newCursor) ==
        Write(Write(S, JoinFile(p), Marker(TRUE, failed)), NodeFile(leg), newCursor)
  IN
  IF \/ S[JoinFile(p)] # Missing /\ S[JoinFile(p)].joined
     \/ ~AllTerminal(S, p, p)
  THEN Quiet(S)
  ELSE CASE ~PolicyMet(S, p, p, policy) ->
              Pushes(Joined(TRUE, [cursor EXCEPT !.state = "failed"]), {FireJoin(leg)})
         [] PolicyMet(S, p, p, policy) /\ next # None ->
              Pushes(Joined(FALSE, Cursor(EnclosingFanoutId(leg), next)),
                     {Continue(Child(leg, next))})
         [] PolicyMet(S, p, p, policy) /\ next = None ->
              Pushes(Joined(FALSE, [cursor EXCEPT !.state = "done"]), {FireJoin(leg)})

\* A path-less join is about the current fan-out; its legs' files are looked for
\* under the cursor in a multi-phase protocol.
\* join.next need not be a state: any other name ends the run here.
TopJoin(S) ==
  LET inst == S[InstanceFile]
      p == CurrentFanout(inst.phase)
      prefix == IF IsMultiphase THEN <<inst.phase>> ELSE p
      over == JoinsOver(<<>>, LastId(p))
      joins == IF over # <<>> THEN over
               ELSE SelectSeq([i \in DOMAIN RootIds |-> <<RootIds[i]>>],
                              LAMBDA q : NodeKind(q) = "join")
      policy == IF joins = <<>> THEN AllPolicy ELSE Tree[joins[1]].policy
      next == IF joins = <<>> THEN None ELSE Tree[joins[1]].next
      met == PolicyMet(S, p, prefix, policy)
      Closed(phase, label) == Write(S, InstanceFile,
        [inst EXCEPT !.joined = TRUE, !.phase = phase, !.label = label])
  IN
  IF inst = Missing \/ inst.joined \/ ~AllTerminal(S, p, prefix) THEN Quiet(S)
  ELSE CASE met /\ next \in ChildIds(<<>>) ->
              Pushes(Closed(next, next), {Continue(<<next>>)})
         [] met /\ next \notin ChildIds(<<>>) ->
              Concludes(Closed(inst.phase, "done"), "success", {})
         [] ~met ->
              Concludes(Closed(inst.phase, "failed"), "failure", {})

Join(S, p) == IF Len(p) > 1 THEN NestedJoin(S, p) ELSE TopJoin(S)
=============================================================================

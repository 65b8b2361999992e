----------------------------- MODULE StatusView -------------------------------
(***************************************************************************)
(* api/state_reader.py: what the visibility API makes of the files of an   *)
(* instance.  It knows no protocol: phases, branches and their kinds are   *)
(* guessed from the names and contents of the files it lists.              *)
(***************************************************************************)
EXTENDS Engine, FiniteSetsExt

\* A file's name in the instance's directory, as a list of ids.  Only a node's
\* file drops its leading id, and a gate of the root keeps its own.
ReportedName(f) ==
  CASE f[1] = "manifest" -> Append(f[2], "__manifest")
    [] f[1] = "node" /\ (IsMultiphase \/ (Len(f[2]) = 1 /\ NodeKind(f[2]) # "agent")) -> f[2]
    [] OTHER -> Tail(f[2])

\* The file of a lone root agent lies beside the directory; markers, answers and
\* the instance record are told by their names.  A manifest is not: it is taken for
\* a branch `__manifest`.
IsNodeFile(f) == f[1] \in {"node", "manifest"} /\ ReportedName(f) # <<>>

Listed == {f \in Files : IsNodeFile(f) /\ store[f] # Missing}

GateState(f) ==
  IF f[1] = "node" /\ "gate" \in DOMAIN store[f] THEN store[f].gate ELSE None

\* Mutant: a gate is told by its `state`, which never becomes done.
NodeStatusByState(f) ==
  IF f[1] = "node" /\ store[f].state \in Terminal THEN store[f].state ELSE "running"
\* A manifest has no state: it runs forever.
NodeStatus(f) ==
  CASE GateState(f) \in {"answered", "approved"} -> "done"
    [] GateState(f) \in {"rejected", "failed"} -> "failed"
    [] GateState(f) \in {"open", "changes_requested"} -> "running"
    [] OTHER -> IF f[1] = "node" /\ store[f].state \in Terminal
                THEN store[f].state ELSE "running"

\* Up to the first dot a name is the phase, and the rest a branch of it.
Phase(f) == ReportedName(f)[1]
ReportedPhases == {Phase(f) : f \in Listed}
Branches(phase) == {f \in Listed : Phase(f) = phase /\ Len(ReportedName(f)) > 1}

FanoutStatus(files) ==
  LET statuses == {NodeStatus(f) : f \in files} IN
  CASE "failed" \in statuses -> "failed"
    [] statuses \subseteq {"done"} -> "done"
    [] OTHER -> "running"

PhaseStatus(phase) ==
  IF Branches(phase) # {} THEN FanoutStatus(Branches(phase))
  ELSE NodeStatus(CHOOSE f \in Listed : Phase(f) = phase)

\* classify_label
Overall ==
  CASE store[InstanceFile].label = "done" -> "completed"
    [] store[InstanceFile].label \in {"failed", "blocked"} -> store[InstanceFile].label
    [] OTHER -> "running"

\* The status of the phase at the cursor; one that writes no file of its own, like
\* a merge, takes the instance's.
HeadStatus ==
  LET phase == store[InstanceFile].phase IN
  CASE phase \in ReportedPhases -> PhaseStatus(phase)
    [] phase \notin ReportedPhases /\ Overall = "completed" -> "done"
    [] OTHER -> Overall

\* The entries of a file's top-level history.  Only units have one: a gate keeps its
\* decisions among its `gates`, where nobody counts them.
Transitions(f) ==
  IF f[1] = "node" /\ "iteration" \in DOMAIN store[f] THEN store[f].history ELSE 0

\* instance_stats
StateTransitions == MapThenSumSet(Transitions, Listed)

-----------------------------------------------------------------------------
(* Properties. *)

\* The phases that show a manifest among their branches.
Manifested == {Phase(f) : f \in {g \in Listed : g[1] = "manifest"}}

\* What the API derives from the nodes' files agrees with the label the engine
\* stamped, but for phases that show a manifest: nothing of a completed run is
\* running and its head is done; the head of a failed or blocked run has failed.
StatusAgrees ==
  store[InstanceFile] # Missing =>
    /\ Overall = "completed" =>
         /\ \A phase \in ReportedPhases \ Manifested : PhaseStatus(phase) # "running"
         /\ store[InstanceFile].phase \notin Manifested => HeadStatus = "done"
    /\ Overall \in {"failed", "blocked"} => HeadStatus = "failed"

\* A client that polls the number of transitions never sees it fall, whatever is
\* retried or overridden meanwhile.
TransitionsGrow ==
  [][StateTransitions' >= StateTransitions]_vars

-----------------------------------------------------------------------------
(* What the source says of the view, and a run refutes. *)

\* "so a finished run isn't reported as a statusless, seemingly-stuck head": the
\* head of a completed run is shown as done, whatever kind of phase it is.
FinishedIsShown ==
  store[InstanceFile] # Missing /\ Overall = "completed" => HeadStatus = "done"
=============================================================================

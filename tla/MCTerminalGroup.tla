-------------------------- MODULE MCTerminalGroup --------------------------
(***************************************************************************)
(* Instances of TerminalGroup.  `Structure` is what the group's behaviour  *)
(* depends on besides focus: magnification, the wording of a status, the   *)
(* parent of an id without metadata and the environment of a terminal that *)
(* nobody has never decide what happens next in a group that was not       *)
(* restored.  `InGrid` adds focus and magnification, which properties of   *)
(* its run mention, and identifies all states in which a pane outside the  *)
(* grid was used, and all in which a parent was named too soon: most of    *)
(* the properties say nothing about the former, TreeShowsAll nothing about *)
(* the latter, and on parents nothing else depends but the set of workers  *)
(* that a subtree close closes.                                            *)
(***************************************************************************)
EXTENDS TerminalGroup

Known == {w \in WorkerIds : status[w] # NoStatus}
InUse == alive \cup UNION {items[p] : p \in Panes}
               \cup {overflow_view[w] : w \in WorkerIds}
               \cup {s.term : s \in pane_spawns} \cup {s.term : s \in overflow_spawns}

Structure ==
  IF group = "closed" THEN <<group>>
  ELSE <<center, items, spawning, pane_spawns, alive, Known, worker_panes,
         [w \in WorkerIds |-> IF w \in Known THEN parent[w] ELSE NoWorker],
         [t \in Terminals |-> IF t \in InUse THEN worker_id[t] ELSE NoWorker],
         overflow_view, overflow_spawns, tasks, restore, group,
         next_pane, next_overflow_id, next_term, external, outside>>

InGrid ==
  CASE strayed -> <<"strayed">>
    [] ~strayed /\ foretold -> <<"foretold">>
    [] OTHER -> <<active_pane, magnified_pane, Structure>>
=============================================================================

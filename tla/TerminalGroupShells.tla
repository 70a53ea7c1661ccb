------------------------ MODULE TerminalGroupShells ------------------------
(***************************************************************************)
(* The shells of a terminal group, for any visible cap and any number of   *)
(* panes, shells, workers and restarts: how many start, which worker they  *)
(* answer to, and that a worker keeps its own.                             *)
(*                                                                         *)
(* A tile is never given a second shell, and the grid never outgrows its   *)
(* cap, as long as nothing has been dragged in from outside: what lands on *)
(* a tile whose shell is still starting sends that shell into a tile of    *)
(* its own, cap or no cap.  For the cap no pane outside the grid may have  *)
(* been used either: a stale tile dropped beside the only one is let in.   *)
(***************************************************************************)
EXTENDS TerminalGroupProofs, FiniteSetTheorems

-----------------------------------------------------------------------------
(* One shell for a tile *)

\* Nothing was dragged in, opened or dropped from outside the group.
Undisturbed == external = 0
\* Nor was a pane used that was no tile.
Orderly == external = 0 /\ ~strayed

\* A shell is in or on the way to a pane that has been made, and one at a time.
Starting ==
  /\ \A p \in Panes : next_pane <= p => items[p] = {}
  /\ \A s \in pane_spawns : s.pane < next_pane
  /\ Undisturbed => OneShellPerTile

\* What the types say of the panes that shells are on the way to.
LEMMA SpawnTypes ==
  ASSUME TypeOK
  PROVE  /\ external \in Nat
         /\ next_pane \in Int /\ Panes \subseteq Int
         /\ center \subseteq Panes /\ held \subseteq Panes /\ active_pane \in Panes
         /\ next_pane <= MaxPanes => next_pane \in Panes
         /\ items \in [Panes -> SUBSET Terminals]
         /\ \A s \in pane_spawns : s.pane \in Panes
         /\ \A c \in closes : c.pane \in Panes
         /\ worker_panes \in [WorkerIds -> Panes \cup {NoPane}]
BY GroupAssumption DEF TypeOK, GroupAssumption, Panes, PaneSpawns, Closes

\* Focus, launcher, deferred loop and control plane look at the in-flight mark first, and
\* whatever removes the mark ends the shell, or finds the tile occupied.
LEMMA NextStarting ==
  TypeOK /\ Fresh /\ Starting /\ [Next]_vars => Starting'
<1> SUFFICES ASSUME TypeOK, Fresh, Starting, [Next]_vars PROVE Starting'
  OBVIOUS
<1>0. \A p \in center \cup held : p < next_pane
  BY SpawnTypes DEF Fresh
<1> USE <1>0, SpawnTypes DEF Starting, Undisturbed, OneShellPerTile
<1>1. CASE SplitTile
  BY <1>1 DEF SplitTile, split_pane_with_command, spawn_terminal_into, needs_shell
<1>2. ASSUME NEW p \in Panes, FocusTile(p) PROVE Starting'
  BY <1>2 DEF FocusTile, spawn_terminal_into, needs_shell
<1>3. ASSUME NEW p \in Panes, toggle_magnify(p) PROVE Starting'
  BY <1>3 DEF toggle_magnify, shells
<1>4. ASSUME NEW p \in Panes, StartShell(p) PROVE Starting'
  BY <1>4 DEF StartShell, spawn_terminal_into, needs_shell
<1>5. ASSUME NEW p \in Panes, StartWorker(p) PROVE Starting'
  BY <1>5 DEF StartWorker, start_terminal_in_pane, spawn_terminal_into, needs_shell
<1>6. CASE DeferredSpawn
  BY <1>6 DEF DeferredSpawn, spawn_terminal_into, needs_shell
<1>7. ASSUME NEW s \in pane_spawns, ShellLands(s) PROVE Starting'
  BY <1>7 DEF ShellLands, SpawnEnds, add_item, grid
<1>8. ASSUME NEW s \in pane_spawns, ShellFails(s) PROVE Starting'
  BY <1>8 DEF ShellFails, SpawnEnds, grid
<1>9. ASSUME NEW p \in Panes, AddExternal(p) PROVE Starting'
  BY <1>9 DEF AddExternal, add_item, grid
<1>10. CASE handle_drop
  BY <1>10 DEF handle_drop, adopt_terminal
<1>11. ASSUME NEW p \in Panes, close_tile(p) PROVE Starting'
  BY <1>11 DEF close_tile, shells
<1>12. ASSUME NEW t \in Terminals, ShellExits(t) PROVE Starting'
  BY <1>12 DEF ShellExits, grid
<1>13. ASSUME NEW c \in closes, CloseFinishes(c) PROVE Starting'
  BY <1>13 DEF CloseFinishes, remove_tile, grid
<1>14. CASE GroupCloses
  BY <1>14 DEF GroupCloses, grid
<1>15. ASSUME NEW par \in WorkerIds \cup {NoWorker}, SpawnWorker(par) PROVE Starting'
  <2>1. CASE at_visible_cap
    BY <1>15, <2>1 DEF SpawnWorker, control_spawn,
                       control_spawn_refused,
                       split_pane_with_command, spawn_terminal_into,
                       spawn_overflow_worker, grid, shells
  <2>2. CASE ~at_visible_cap
    BY <1>15, <2>2 DEF SpawnWorker, control_spawn,
                       control_spawn_refused,
                       split_pane_with_command, spawn_terminal_into,
                       spawn_overflow_worker, grid, shells
  <2> QED
    BY <2>1, <2>2
<1>16. ASSUME NEW s \in overflow_spawns, OverflowLands(s) PROVE Starting'
  BY <1>16 DEF OverflowLands, grid
<1>17. ASSUME NEW s \in overflow_spawns, OverflowFails(s) PROVE Starting'
  BY <1>17 DEF OverflowFails, grid, shells
<1>18. ASSUME NEW w \in WorkerIds, NEW st \in ReportStatuses, control_report(w, st)
       PROVE  Starting'
  BY <1>18 DEF control_report, grid, shells
<1>19. ASSUME NEW w \in WorkerIds, control_pause(w) \/ control_resume(w) PROVE Starting'
  BY <1>19 DEF control_pause, control_resume, Signal, grid, shells
<1>20. ASSUME NEW W \in SUBSET WorkerIds, CloseWorkers(W) PROVE Starting'
  BY <1>20 DEF CloseWorkers, grid
<1>21. ASSUME NEW w \in WorkerIds, RestartOverflow(w) PROVE Starting'
  <2>1. CASE at_visible_cap
    BY <1>21, <2>1 DEF RestartOverflow, control_spawn,
                       control_spawn_refused,
                       split_pane_with_command, spawn_terminal_into,
                       spawn_overflow_worker, grid, shells
  <2>2. CASE ~at_visible_cap
    BY <1>21, <2>2 DEF RestartOverflow, control_spawn,
                       control_spawn_refused,
                       split_pane_with_command, spawn_terminal_into,
                       spawn_overflow_worker, grid, shells
  <2> QED
    BY <2>1, <2>2
<1>22. ASSUME NEW w \in WorkerIds, RestartVisible(w) PROVE Starting'
  BY <1>22 DEF RestartVisible, grid, shells
<1>23. ASSUME NEW r \in respawns, Respawn(r) PROVE Starting'
  <2>1. CASE at_visible_cap
    BY <1>23, <2>1 DEF Respawn, control_spawn,
                       control_spawn_refused,
                       split_pane_with_command, spawn_terminal_into,
                       spawn_overflow_worker, grid, shells
  <2>2. CASE ~at_visible_cap
    BY <1>23, <2>2 DEF Respawn, control_spawn,
                       control_spawn_refused,
                       split_pane_with_command, spawn_terminal_into,
                       spawn_overflow_worker, grid, shells
  <2> QED
    BY <2>1, <2>2
<1>24. ASSUME NEW w \in WorkerIds, FocusWorker(w) PROVE Starting'
  BY <1>24 DEF FocusWorker, shells
<1>25. ASSUME NEW w \in WorkerIds, promote_worker(w) PROVE Starting'
  BY <1>25 DEF promote_worker
<1>26. ASSUME NEW w \in WorkerIds, demote_worker(w) PROVE Starting'
  BY <1>26 DEF demote_worker
<1>27. ASSUME NEW p \in Panes, HoldPane(p) PROVE Starting'
  BY <1>27 DEF HoldPane, grid, shells
<1>28. ASSUME NEW p \in Panes, LetGo(p) PROVE Starting'
  BY <1>28 DEF LetGo, drop_pane, grid
<1>29. ASSUME NEW p \in Panes, ConfirmCommand(p) PROVE Starting'
  <2>1. CASE items[p] = {}
    BY <1>29, <2>1 DEF ConfirmCommand, start_terminal_in_pane, spawn_terminal_into, needs_shell,
                       grid
  <2>2. CASE items[p] # {} /\ at_visible_cap
    BY <1>29, <2>2 DEF ConfirmCommand, start_terminal_in_pane, needs_shell, drop_pane,
                       control_spawn, split_pane_with_command, spawn_overflow_worker,
                       grid
  <2>3. CASE items[p] # {} /\ ~at_visible_cap
    BY <1>29, <2>3 DEF ConfirmCommand, start_terminal_in_pane, needs_shell, drop_pane,
                       control_spawn, split_pane_with_command, spawn_terminal_into,
                       grid
  <2> QED
    BY <2>1, <2>2, <2>3
<1>30. ASSUME NEW p \in center \cup held, NEW q \in center \cup held, DropAstray(p, q)
       PROVE  Starting'
  BY <1>30 DEF DropAstray, shells
<1>31. CASE UNCHANGED vars
  BY <1>31 DEF vars, grid, shells
<1> HIDE DEF Starting, Undisturbed, OneShellPerTile
<1> QED
  BY <1>1, <1>2, <1>3, <1>4, <1>5, <1>6, <1>7, <1>8, <1>9, <1>10, <1>11, <1>12, <1>13,
     <1>14, <1>15, <1>16, <1>17, <1>18, <1>19, <1>20, <1>21, <1>22, <1>23, <1>24, <1>25,
     <1>26, <1>27, <1>28, <1>29, <1>30, <1>31
  DEF Next, GridStep, TaskStep, ControlStep, control_close, control_close_subtree,
      Subtree

\* How a step may change the grid: one tile less, or one more below the cap.
Resized ==
  \/ center' = center
  \/ \E p \in Panes : center' = center \ {p}
  \/ center' = center \cup {next_pane} /\ ~at_visible_cap

\* Unless something comes from outside, tiles are added only below the cap: a shell that
\* lands finds its tile empty.
LEMMA NextResized ==
  TypeOK /\ Starting /\ [Next]_vars /\ Orderly' => Orderly /\ Resized
<1> SUFFICES ASSUME TypeOK, Starting, [Next]_vars, external' = 0, ~strayed'
             PROVE  external = 0 /\ Resized
  BY StrayedStays DEF Orderly
<1>0. external = 0 => \A s \in pane_spawns : items[s.pane] = {}
  BY DEF Starting, Undisturbed, OneShellPerTile
<1> USE <1>0, SpawnTypes DEF Resized
<1>1. CASE SplitTile
  BY <1>1 DEF SplitTile, split_pane_with_command
<1>2. ASSUME NEW p \in Panes, FocusTile(p) PROVE external = 0 /\ Resized
  BY <1>2 DEF FocusTile
<1>3. ASSUME NEW p \in Panes, toggle_magnify(p) PROVE external = 0 /\ Resized
  BY <1>3 DEF toggle_magnify
<1>4. ASSUME NEW p \in Panes, StartShell(p) PROVE external = 0 /\ Resized
  BY <1>4 DEF StartShell, grid
<1>5. ASSUME NEW p \in Panes, StartWorker(p) PROVE external = 0 /\ Resized
  BY <1>5 DEF StartWorker, grid
<1>6. CASE DeferredSpawn
  BY <1>6 DEF DeferredSpawn, grid
<1>7. ASSUME NEW s \in pane_spawns, ShellLands(s) PROVE external = 0 /\ Resized
  BY <1>7 DEF ShellLands, SpawnEnds, add_item, grid
<1>8. ASSUME NEW s \in pane_spawns, ShellFails(s) PROVE external = 0 /\ Resized
  BY <1>8 DEF ShellFails, SpawnEnds, grid
<1>9. ASSUME NEW p \in Panes, AddExternal(p) PROVE external = 0 /\ Resized
  BY <1>9 DEF AddExternal
<1>10. CASE handle_drop
  BY <1>10 DEF handle_drop
<1>11. ASSUME NEW p \in Panes, close_tile(p) PROVE external = 0 /\ Resized
  BY <1>11 DEF close_tile, grid
<1>12. ASSUME NEW t \in Terminals, ShellExits(t) PROVE external = 0 /\ Resized
  BY <1>12 DEF ShellExits, grid
<1>13. ASSUME NEW c \in closes, CloseFinishes(c) PROVE external = 0 /\ Resized
  BY <1>13 DEF CloseFinishes, remove_tile, grid
<1>14. CASE GroupCloses
  BY <1>14 DEF GroupCloses, grid
<1>15. ASSUME NEW par \in WorkerIds \cup {NoWorker}, SpawnWorker(par)
       PROVE  external = 0 /\ Resized
  <2>1. CASE at_visible_cap
    BY <1>15, <2>1 DEF SpawnWorker, control_spawn,
                       control_spawn_refused,
                       split_pane_with_command, grid
  <2>2. CASE ~at_visible_cap
    BY <1>15, <2>2 DEF SpawnWorker, control_spawn,
                       control_spawn_refused,
                       split_pane_with_command, grid
  <2> QED
    BY <2>1, <2>2
<1>16. ASSUME NEW s \in overflow_spawns, OverflowLands(s) PROVE external = 0 /\ Resized
  BY <1>16 DEF OverflowLands, grid
<1>17. ASSUME NEW s \in overflow_spawns, OverflowFails(s) PROVE external = 0 /\ Resized
  BY <1>17 DEF OverflowFails, grid
<1>18. ASSUME NEW w \in WorkerIds, NEW st \in ReportStatuses, control_report(w, st)
       PROVE  external = 0 /\ Resized
  BY <1>18 DEF control_report, grid
<1>19. ASSUME NEW w \in WorkerIds, control_pause(w) \/ control_resume(w)
       PROVE  external = 0 /\ Resized
  BY <1>19 DEF control_pause, control_resume, Signal, grid
<1>20. ASSUME NEW W \in SUBSET WorkerIds, CloseWorkers(W) PROVE external = 0 /\ Resized
  BY <1>20 DEF CloseWorkers, grid
<1>21. ASSUME NEW w \in WorkerIds, RestartOverflow(w) PROVE external = 0 /\ Resized
  <2>1. CASE at_visible_cap
    BY <1>21, <2>1 DEF RestartOverflow, control_spawn,
                       control_spawn_refused,
                       split_pane_with_command, grid
  <2>2. CASE ~at_visible_cap
    BY <1>21, <2>2 DEF RestartOverflow, control_spawn,
                       control_spawn_refused,
                       split_pane_with_command, grid
  <2> QED
    BY <2>1, <2>2
<1>22. ASSUME NEW w \in WorkerIds, RestartVisible(w) PROVE external = 0 /\ Resized
  BY <1>22 DEF RestartVisible, grid
<1>23. ASSUME NEW r \in respawns, Respawn(r) PROVE external = 0 /\ Resized
  <2>1. CASE at_visible_cap
    BY <1>23, <2>1 DEF Respawn, control_spawn,
                       control_spawn_refused,
                       split_pane_with_command, grid
  <2>2. CASE ~at_visible_cap
    BY <1>23, <2>2 DEF Respawn, control_spawn,
                       control_spawn_refused,
                       split_pane_with_command, grid
  <2> QED
    BY <2>1, <2>2
<1>24. ASSUME NEW w \in WorkerIds, FocusWorker(w) PROVE external = 0 /\ Resized
  BY <1>24 DEF FocusWorker
<1>25. ASSUME NEW w \in WorkerIds, promote_worker(w) PROVE external = 0 /\ Resized
  BY <1>25 DEF promote_worker
<1>26. ASSUME NEW w \in WorkerIds, demote_worker(w) PROVE external = 0 /\ Resized
  BY <1>26 DEF demote_worker
<1>27. ASSUME NEW p \in Panes, HoldPane(p) PROVE external = 0 /\ Resized
  BY <1>27 DEF HoldPane, grid
<1>28. ASSUME NEW p \in Panes, LetGo(p) PROVE external = 0 /\ Resized
  BY <1>28 DEF LetGo, grid
<1>29. ASSUME NEW p \in Panes, ConfirmCommand(p) PROVE external = 0 /\ Resized
  <2>1. CASE items[p] = {}
    BY <1>29, <2>1 DEF ConfirmCommand, start_terminal_in_pane, spawn_terminal_into, needs_shell,
                       grid
  <2>2. CASE items[p] # {} /\ at_visible_cap
    BY <1>29, <2>2 DEF ConfirmCommand, start_terminal_in_pane, needs_shell, drop_pane,
                       control_spawn, split_pane_with_command, spawn_overflow_worker,
                       grid
  <2>3. CASE items[p] # {} /\ ~at_visible_cap
    BY <1>29, <2>3 DEF ConfirmCommand, start_terminal_in_pane, needs_shell, drop_pane,
                       control_spawn, split_pane_with_command, spawn_terminal_into,
                       grid
  <2> QED
    BY <2>1, <2>2, <2>3
<1>30. ASSUME NEW p \in center \cup held, NEW q \in center \cup held, DropAstray(p, q)
       PROVE  external = 0 /\ Resized
  BY <1>30 DEF DropAstray
<1>31. CASE UNCHANGED vars
  BY <1>31 DEF vars, grid
<1> HIDE DEF Resized
<1> QED
  BY <1>1, <1>2, <1>3, <1>4, <1>5, <1>6, <1>7, <1>8, <1>9, <1>10, <1>11, <1>12, <1>13,
     <1>14, <1>15, <1>16, <1>17, <1>18, <1>19, <1>20, <1>21, <1>22, <1>23, <1>24, <1>25,
     <1>26, <1>27, <1>28, <1>29, <1>30, <1>31
  DEF Next, GridStep, TaskStep, ControlStep, control_close, control_close_subtree,
      Subtree

\* A tile more is one more, and a tile less is not more.
LEMMA GridSize ==
  ASSUME TypeOK
  PROVE  /\ IsFiniteSet(center) /\ Cardinality(center) \in Nat
         /\ \A x : Cardinality(center \cup {x}) <= Cardinality(center) + 1
         /\ \A x : Cardinality(center \ {x}) <= Cardinality(center)
<1>1. IsFiniteSet(Panes)
  BY FS_Interval, GroupAssumption DEF Panes, GroupAssumption
<1>2. IsFiniteSet(center) /\ Cardinality(center) \in Nat
  BY <1>1, FS_Subset, FS_CardinalityType DEF TypeOK
<1>3. \A x : Cardinality(center \cup {x}) <= Cardinality(center) + 1
  BY <1>2, FS_AddElement
<1>4. \A x : Cardinality(center \ {x}) <= Cardinality(center)
  BY <1>2, FS_Subset
<1> QED
  BY <1>2, <1>3, <1>4

\* No operation takes an undisturbed grid past its cap.
LEMMA NextCap == TypeOK /\ Starting /\ CapHolds /\ [Next]_vars => CapHolds'
<1> SUFFICES ASSUME TypeOK, Starting, CapHolds, [Next]_vars, Orderly'
             PROVE  Cardinality(center') <= MaxTiles
  BY DEF CapHolds, Orderly
<1>1. Resized /\ Cardinality(center) <= MaxTiles
  BY NextResized DEF CapHolds, Orderly
<1>2. MaxTiles \in Nat /\ Cardinality(center) \in Nat
  BY GridSize, GroupAssumption DEF GroupAssumption
<1>3. CASE center' = center
  BY <1>1, <1>3
<1>4. CASE \E p \in Panes : center' = center \ {p}
  <2>1. PICK p \in Panes : center' = center \ {p}
    BY <1>4
  <2>2. IsFiniteSet(center \ {p}) /\ Cardinality(center \ {p}) \in Nat
    BY GridSize, FS_Subset, FS_CardinalityType
  <2>3. Cardinality(center \ {p}) <= Cardinality(center)
    BY GridSize
  <2>4. Cardinality(center') <= Cardinality(center)
    BY <2>1, <2>3
  <2>5. Cardinality(center') \in Nat
    BY <2>1, <2>2
  <2> QED
    BY <1>1, <1>2, <2>4, <2>5
<1>5. CASE center' = center \cup {next_pane} /\ ~at_visible_cap
  <2>1. Cardinality(center \cup {next_pane}) \in Nat
    BY GridSize, FS_AddElement, FS_CardinalityType
  <2>2. Cardinality(center \cup {next_pane}) <= Cardinality(center) + 1
    BY GridSize
  <2>3. Cardinality(center) < MaxTiles
    BY <1>2, <1>5 DEF at_visible_cap
  <2>4. Cardinality(center \cup {next_pane}) <= MaxTiles
    BY <1>2, <2>1, <2>2, <2>3
  <2> QED
    BY <1>5, <2>4
<1> QED
  BY <1>1, <1>3, <1>4, <1>5 DEF Resized

-----------------------------------------------------------------------------
(* Whose shell it is *)

\* RDG_WORKER_ID of a shell on the way is the id of its tile or of its overflow entry,
\* and in an open group a worker has no shell with the id of another.
Named ==
  /\ \A t \in Terminals : next_term <= t => worker_id[t] = NoWorker
  /\ \A s \in pane_spawns : worker_id[s.term] \in {s.pane, NoWorker}
  /\ \A s \in overflow_spawns : worker_id[s.term] = s.id
  /\ group = "open" => \A w \in WorkerIds :
       /\ overflow_view[w] # NoTerm => worker_id[overflow_view[w]] \in {w, NoWorker}
       /\ worker_panes[w] # NoPane =>
            \A t \in items[worker_panes[w]] : worker_id[t] \in {w, NoWorker}

\* What the types say of the ids that shells carry.
LEMMA NameTypes ==
  ASSUME TypeOK
  PROVE  /\ worker_id \in [Terminals -> WorkerIds \cup {NoWorker}]
         /\ Panes \subseteq WorkerIds /\ NoPane \notin Panes /\ NoPane < next_pane
         /\ next_overflow_id < OverflowBase + MaxOverflow => next_overflow_id \in WorkerIds
BY Ids, IdTypes DEF TypeOK

\* A new worker's tile is empty, and the shell on the way to it carries its id.
LEMMA NamedSpawn ==
  ASSUME TypeOK, Fresh, TermsFresh, Starting, Named,
         next_pane <= MaxPanes, next_term <= MaxTerminals,
         pane_spawns' = pane_spawns \cup {[pane |-> next_pane, term |-> next_term]},
         worker_id' = [worker_id EXCEPT ![next_term] = next_pane],
         next_term' = next_term + 1,
         \A p \in Panes : items'[p] \subseteq items[p], UNCHANGED <<overflow_spawns, group>>,
         \A w \in WorkerIds : overflow_view'[w] \in {overflow_view[w], NoTerm},
         \A w \in WorkerIds \ {next_pane} : worker_panes'[w] \in {worker_panes[w], NoPane},
         worker_panes'[next_pane] = next_pane
  PROVE  Named'
<1> USE TermTypes, NameTypes
<1>1. /\ worker_id'[next_term] = next_pane
      /\ \A t \in Terminals : t < next_term => worker_id'[t] = worker_id[t]
      /\ \A t \in Terminals : next_term < t => worker_id'[t] = worker_id[t]
  OBVIOUS
<1>2. items'[next_pane] = {}
  BY SpawnTypes DEF Starting
<1>3. \A t \in Terminals : next_term' <= t => worker_id'[t] = NoWorker
  BY <1>1 DEF Named
<1>4. \A s \in pane_spawns' : worker_id'[s.term] \in {s.pane, NoWorker}
  <2> SUFFICES ASSUME NEW s \in pane_spawns' PROVE worker_id'[s.term] \in {s.pane, NoWorker}
    OBVIOUS
  <2>1. CASE s \in pane_spawns
    BY <1>1, <2>1 DEF Named, TermsFresh
  <2>2. CASE s = [pane |-> next_pane, term |-> next_term]
    BY <1>1, <2>2
  <2> QED
    BY <2>1, <2>2
<1>5. \A s \in overflow_spawns' : worker_id'[s.term] = s.id
  BY <1>1 DEF Named, TermsFresh
<1>6. ASSUME group' = "open", NEW w \in WorkerIds
      PROVE  /\ overflow_view'[w] # NoTerm => worker_id'[overflow_view'[w]] \in {w, NoWorker}
             /\ worker_panes'[w] # NoPane =>
                  \A t \in items'[worker_panes'[w]] : worker_id'[t] \in {w, NoWorker}
  <2>1. overflow_view'[w] # NoTerm => worker_id'[overflow_view'[w]] \in {w, NoWorker}
    BY <1>1, <1>6 DEF Named, TermsFresh
  <2>2. CASE w = next_pane
    BY <1>2, <2>1, <2>2
  <2>3. CASE w # next_pane
    <3>1. ASSUME worker_panes'[w] # NoPane, NEW t \in items'[worker_panes'[w]]
          PROVE  worker_id'[t] \in {w, NoWorker}
      <4>1. worker_panes'[w] = worker_panes[w] /\ worker_panes[w] \in Panes
        BY <2>3, <3>1
      <4>2. t \in items[worker_panes[w]] /\ t \in Terminals /\ t < next_term
        BY <3>1, <4>1 DEF TermsFresh
      <4> QED
        BY <1>1, <1>6, <4>1, <4>2 DEF Named
    <3> QED
      BY <2>1, <3>1
  <2> QED
    BY <2>2, <2>3
<1> QED
  BY <1>3, <1>4, <1>5, <1>6 DEF Named

\* A shell that lands in an empty tile finds nobody there but the worker with the tile's
\* id; a terminal that moves into or out of overflow moves with its worker.
LEMMA NextNamed ==
  TypeOK /\ Fresh /\ EmptyIsOwn /\ TermsFresh /\ Starting /\ Named /\ [Next]_vars => Named'
<1> SUFFICES ASSUME TypeOK, Fresh, EmptyIsOwn, TermsFresh, Starting, Named, [Next]_vars
             PROVE  Named'
  OBVIOUS
<1>0. /\ \A p \in Panes : next_pane <= p => items[p] = {}
      /\ \A w \in WorkerIds : worker_panes[w] # next_pane
  BY SpawnTypes, IdTypes DEF Fresh, Starting
<1> USE <1>0, TermTypes, NameTypes DEF Fresh, EmptyIsOwn, TermsFresh, Named, running
<1>1. CASE SplitTile
  BY <1>1 DEF SplitTile, split_pane_with_command, spawn_terminal_into,
              needs_shell, overflow
<1>2. ASSUME NEW p \in Panes, FocusTile(p) PROVE Named'
  BY <1>2 DEF FocusTile, spawn_terminal_into, needs_shell, overflow
<1>3. ASSUME NEW p \in Panes, toggle_magnify(p) PROVE Named'
  BY <1>3 DEF toggle_magnify, shells, overflow
<1>4. ASSUME NEW p \in Panes, StartShell(p) PROVE Named'
  BY <1>4 DEF StartShell, spawn_terminal_into, needs_shell, overflow
<1>5. ASSUME NEW p \in Panes, StartWorker(p) PROVE Named'
  BY <1>5 DEF StartWorker, start_terminal_in_pane, spawn_terminal_into, needs_shell, overflow,
              worker_init_command
<1>6. CASE DeferredSpawn
  BY <1>6 DEF DeferredSpawn, spawn_terminal_into, needs_shell, overflow
<1>7. ASSUME NEW s \in pane_spawns, ShellLands(s) PROVE Named'
  <2>1. CASE items[s.pane] = {}
    BY <1>7, <2>1 DEF ShellLands, SpawnEnds, add_item, overflow
  <2>2. CASE items[s.pane] # {}
    <3>1. /\ next_pane \in Panes /\ items'[next_pane] = {s.term}
          /\ \A p \in Panes \ {next_pane} : items'[p] = items[p]
          /\ \A x \in WorkerIds : worker_panes'[x] = worker_panes[x]
                               /\ worker_panes[x] # next_pane
                               /\ worker_panes[x] \in Panes \cup {NoPane}
          /\ pane_spawns' \subseteq pane_spawns
          /\ UNCHANGED <<worker_id, overflow_view, overflow_spawns, group, next_term>>
      BY <1>7, <2>2 DEF ShellLands, SpawnEnds, add_item, overflow
    <3> QED
      BY <3>1
  <2> QED
    BY <2>1, <2>2
<1>8. ASSUME NEW s \in pane_spawns, ShellFails(s) PROVE Named'
  BY <1>8 DEF ShellFails, SpawnEnds, overflow
<1>9. ASSUME NEW p \in Panes, AddExternal(p) PROVE Named'
  BY <1>9 DEF AddExternal, add_item, overflow
<1>10. CASE handle_drop
  BY <1>10 DEF handle_drop, adopt_terminal, overflow
<1>11. ASSUME NEW p \in Panes, close_tile(p) PROVE Named'
  BY <1>11 DEF close_tile, shells, overflow
<1>12. ASSUME NEW t \in Terminals, ShellExits(t) PROVE Named'
  BY <1>12 DEF ShellExits, overflow
<1>13. ASSUME NEW c \in closes, CloseFinishes(c) PROVE Named'
  BY <1>13 DEF CloseFinishes, remove_tile, overflow
<1>14. CASE GroupCloses
  BY <1>14 DEF GroupCloses, overflow
<1>15. ASSUME NEW par \in WorkerIds \cup {NoWorker}, SpawnWorker(par) PROVE Named'
  <2>1. CASE at_visible_cap
    BY <1>15, <2>1 DEF SpawnWorker, control_spawn,
                       control_spawn_refused,
                       split_pane_with_command, spawn_terminal_into,
                       spawn_overflow_worker, worker_init_command,
                       grid, shells, overflow, metadata
  <2>2. CASE ~at_visible_cap
    <3>1. CASE UNCHANGED <<pane_spawns, worker_id, items, overflow_spawns, next_term>>
      BY <1>15, <2>2, <3>1 DEF SpawnWorker, control_spawn, control_spawn_refused,
                              split_pane_with_command, spawn_terminal_into
    <3>2. CASE split_pane_with_command(next_pane) /\ UNCHANGED overflow_spawns
      BY <1>15, <2>2, <3>2, NamedSpawn
      DEF SpawnWorker, control_spawn, control_spawn_refused, split_pane_with_command,
          spawn_terminal_into
    <3> QED
      BY <1>15, <2>2, <3>1, <3>2
      DEF SpawnWorker, control_spawn, control_spawn_refused, worker_init_command
  <2> QED
    BY <2>1, <2>2
<1>16. ASSUME NEW s \in overflow_spawns, OverflowLands(s) PROVE Named'
  BY <1>16 DEF OverflowLands
<1>17. ASSUME NEW s \in overflow_spawns, OverflowFails(s) PROVE Named'
  BY <1>17 DEF OverflowFails, shells, overflow
<1>18. ASSUME NEW w \in WorkerIds, NEW st \in ReportStatuses, control_report(w, st)
       PROVE  Named'
  BY <1>18 DEF control_report, shells, overflow
<1>19. ASSUME NEW w \in WorkerIds, control_pause(w) \/ control_resume(w) PROVE Named'
  BY <1>19 DEF control_pause, control_resume, Signal, shells, overflow
<1>20. ASSUME NEW W \in SUBSET WorkerIds, CloseWorkers(W) PROVE Named'
  BY <1>20 DEF CloseWorkers
<1>21. ASSUME NEW w \in WorkerIds, RestartOverflow(w) PROVE Named'
  <2>1. CASE at_visible_cap
    BY <1>21, <2>1 DEF RestartOverflow, control_spawn,
                       control_spawn_refused,
                       split_pane_with_command, spawn_terminal_into,
                       spawn_overflow_worker, worker_init_command,
                       grid, shells, overflow, metadata
  <2>2. CASE ~at_visible_cap
    <3>1. CASE UNCHANGED <<pane_spawns, worker_id, items, overflow_spawns, next_term>>
      BY <1>21, <2>2, <3>1 DEF RestartOverflow, control_spawn, control_spawn_refused,
                              split_pane_with_command, spawn_terminal_into
    <3>2. CASE split_pane_with_command(next_pane) /\ UNCHANGED overflow_spawns
      BY <1>21, <2>2, <3>2, NamedSpawn
      DEF RestartOverflow, control_spawn, control_spawn_refused, split_pane_with_command,
          spawn_terminal_into
    <3> QED
      BY <1>21, <2>2, <3>1, <3>2
      DEF RestartOverflow, control_spawn, control_spawn_refused, worker_init_command
  <2> QED
    BY <2>1, <2>2
<1>22. ASSUME NEW w \in WorkerIds, RestartVisible(w) PROVE Named'
  BY <1>22 DEF RestartVisible, shells, overflow
<1>23. ASSUME NEW r \in respawns, Respawn(r) PROVE Named'
  <2>1. CASE at_visible_cap
    BY <1>23, <2>1 DEF Respawn, control_spawn,
                       control_spawn_refused,
                       split_pane_with_command, spawn_terminal_into,
                       spawn_overflow_worker, worker_init_command,
                       grid, shells, overflow, metadata
  <2>2. CASE ~at_visible_cap
    <3>1. CASE UNCHANGED <<pane_spawns, worker_id, items, overflow_spawns, next_term>>
      BY <1>23, <2>2, <3>1 DEF Respawn, control_spawn, control_spawn_refused,
                              split_pane_with_command, spawn_terminal_into
    <3>2. CASE split_pane_with_command(next_pane) /\ UNCHANGED overflow_spawns
      BY <1>23, <2>2, <3>2, NamedSpawn
      DEF Respawn, control_spawn, control_spawn_refused, split_pane_with_command,
          spawn_terminal_into
    <3> QED
      BY <1>23, <2>2, <3>1, <3>2
      DEF Respawn, control_spawn, control_spawn_refused, worker_init_command
  <2> QED
    BY <2>1, <2>2
<1>24. ASSUME NEW w \in WorkerIds, FocusWorker(w) PROVE Named'
  BY <1>24 DEF FocusWorker, shells, overflow
<1>25. ASSUME NEW w \in WorkerIds, promote_worker(w) PROVE Named'
  <2>1. /\ next_pane \in Panes
        /\ \A x \in WorkerIds \ {w} : /\ overflow_view'[x] = overflow_view[x]
                                       /\ worker_panes'[x] = worker_panes[x]
                                       /\ worker_panes'[x] # next_pane
        /\ overflow_view'[w] = NoTerm /\ worker_panes'[w] = next_pane
        /\ items'[next_pane] = {overflow_view[w]}
        /\ \A p \in Panes \ {next_pane} : items'[p] = items[p]
        /\ UNCHANGED <<worker_id, pane_spawns, overflow_spawns, group, next_term>>
    BY <1>25 DEF promote_worker, TakeOverflow
  <2>2. overflow_view[w] # NoTerm
    BY <1>25 DEF promote_worker
  <2>3. ASSUME group' = "open", NEW x \in WorkerIds
        PROVE  /\ overflow_view'[x] # NoTerm
                    => worker_id'[overflow_view'[x]] \in {x, NoWorker}
               /\ worker_panes'[x] # NoPane =>
                    \A t \in items'[worker_panes'[x]] : worker_id'[t] \in {x, NoWorker}
    <3>1. CASE x = w
      BY <2>1, <2>2, <2>3, <3>1
    <3>2. CASE x # w
      <4>1. /\ overflow_view'[x] = overflow_view[x] /\ worker_panes'[x] = worker_panes[x]
            /\ worker_panes[x] \in Panes \cup {NoPane} /\ worker_panes[x] # next_pane
        BY <2>1, <3>2
      <4>2. worker_panes[x] # NoPane => items'[worker_panes[x]] = items[worker_panes[x]]
        BY <2>1, <4>1
      <4> QED
        BY <2>1, <2>3, <4>1, <4>2
    <3> QED
      BY <3>1, <3>2
  <2> QED
    BY <2>1, <2>3
<1>26. ASSUME NEW w \in WorkerIds, demote_worker(w) PROVE Named'
  BY <1>26 DEF demote_worker
<1>27. ASSUME NEW p \in Panes, HoldPane(p) PROVE Named'
  BY <1>27 DEF HoldPane, shells, overflow
<1>28. ASSUME NEW p \in Panes, LetGo(p) PROVE Named'
  BY <1>28 DEF LetGo, drop_pane, overflow
<1>29. ASSUME NEW p \in Panes, ConfirmCommand(p) PROVE Named'
  <2>0. \A q \in Panes : items'[q] \subseteq items[q]
    BY <1>29 DEF ConfirmCommand, drop_pane
  <2>1. CASE items[p] = {}
    BY <1>29, <2>1 DEF ConfirmCommand, start_terminal_in_pane, spawn_terminal_into, needs_shell,
                       worker_init_command
  <2>2. CASE items[p] # {} /\ at_visible_cap
    BY <1>29, <2>0, <2>2
    DEF ConfirmCommand, start_terminal_in_pane, needs_shell, control_spawn,
        split_pane_with_command, spawn_overflow_worker, worker_init_command
  <2>3. CASE items[p] # {} /\ ~at_visible_cap
    BY <1>29, <2>0, <2>3, NamedSpawn
    DEF ConfirmCommand, start_terminal_in_pane, needs_shell, control_spawn,
        split_pane_with_command, spawn_terminal_into, worker_init_command
  <2> QED
    BY <2>1, <2>2, <2>3
<1>30. ASSUME NEW p \in center \cup held, NEW q \in center \cup held, DropAstray(p, q)
       PROVE  Named'
  BY <1>30 DEF DropAstray, shells, overflow
<1>31. CASE UNCHANGED vars
  BY <1>31 DEF vars, shells, overflow
<1> HIDE DEF Fresh, EmptyIsOwn, TermsFresh, Named, running
<1> QED
  BY <1>1, <1>2, <1>3, <1>4, <1>5, <1>6, <1>7, <1>8, <1>9, <1>10, <1>11, <1>12, <1>13,
     <1>14, <1>15, <1>16, <1>17, <1>18, <1>19, <1>20, <1>21, <1>22, <1>23, <1>24, <1>25,
     <1>26, <1>27, <1>28, <1>29, <1>30, <1>31
  DEF Next, GridStep, TaskStep, ControlStep, control_close, control_close_subtree,
      Subtree

-----------------------------------------------------------------------------
(* A worker keeps its shell *)

\* What resolves a worker id is as before.
Same(w) ==
  /\ overflow_view'[w] = overflow_view[w] /\ worker_panes'[w] = worker_panes[w]
  /\ worker_panes[w] # NoPane => items'[worker_panes[w]] = items[worker_panes[w]]

\* The worker of the emptied last tile of a group that is closing.
Lost(w) ==
  /\ overflow_view'[w] = NoTerm
  /\ worker_panes'[w] = NoPane \/ items'[worker_panes'[w]] = {}
  /\ group' # "open"

\* Nothing to keep: the id is not registered, before or after, or has no terminal yet.
Unresolved(w) ==
  \/ status[w] = NoStatus \/ status'[w] = NoStatus
  \/ /\ overflow_view[w] = NoTerm
     /\ worker_panes[w] = NoPane \/ items[worker_panes[w]] = {}

\* The only terminal of the worker goes from overflow into a tile, or back.
Moved(w) ==
  \E t \in Terminals :
    \/ /\ overflow_view[w] = t /\ overflow_view'[w] = NoTerm
       /\ worker_panes'[w] \in Panes /\ items'[worker_panes'[w]] = {t}
    \/ /\ overflow_view'[w] = t /\ overflow_view[w] = NoTerm
       /\ worker_panes[w] \in Panes /\ items[worker_panes[w]] = {t}

\* What a step may do to the terminal of worker w.
Kept(w) == Same(w) \/ Lost(w) \/ Unresolved(w) \/ Moved(w)

\* These are the ways in which KeepsTerminal can hold.
LEMMA KeptResolves ==
  ASSUME TypeOK, NEW w \in WorkerIds, Kept(w),
         status[w] # NoStatus, status'[w] # NoStatus, Resolve(w) # NoTerm
  PROVE  \/ Resolve(w)' = Resolve(w)
         \/ Resolve(w)' = NoTerm /\ group' # "open"
<1>1. CASE Same(w)
  <2>1. CASE overflow_view[w] = NoTerm /\ worker_panes[w] # NoPane
    <3>1. items'[worker_panes'[w]] = items[worker_panes[w]]
      BY <1>1, <2>1 DEF Same
    <3>2. (CHOOSE t \in items'[worker_panes'[w]] : TRUE)
            = (CHOOSE t \in items[worker_panes[w]] : TRUE)
      BY <3>1, Zenon
    <3> QED
      BY <1>1, <2>1, <3>1, <3>2 DEF Same, Resolve
  <2>2. CASE overflow_view[w] # NoTerm \/ worker_panes[w] = NoPane
    BY <1>1, <2>2 DEF Same, Resolve
  <2> QED
    BY <2>1, <2>2
<1>2. CASE Lost(w)
  BY <1>2 DEF Lost, Resolve
<1>3. CASE Unresolved(w)
  BY <1>3 DEF Unresolved, Resolve
<1>4. CASE Moved(w)
  <2>1. \A t : (CHOOSE u \in {t} : TRUE) = t
    OBVIOUS
  <2>2. NoTerm \notin Terminals /\ NoPane \notin Panes
    BY Ids
  <2>3. PICK t \in Terminals :
          \/ /\ overflow_view[w] = t /\ overflow_view'[w] = NoTerm
             /\ worker_panes'[w] \in Panes /\ items'[worker_panes'[w]] = {t}
          \/ /\ overflow_view'[w] = t /\ overflow_view[w] = NoTerm
             /\ worker_panes[w] \in Panes /\ items[worker_panes[w]] = {t}
    BY <1>4 DEF Moved
  <2> QED
    BY <2>1, <2>2, <2>3 DEF Resolve
<1> QED
  BY <1>1, <1>2, <1>3, <1>4 DEF Kept

\* Whatever fills, empties or exchanges a tile finds it without a registered worker,
\* takes the worker with it, or is the end of the group.
LEMMA NextKept ==
  ASSUME IInv, [Next]_vars, ~strayed', NEW x \in WorkerIds
  PROVE  Kept(x)
<1>a. ~strayed /\ Homed
  BY StrayedStays DEF IInv
<1>0. /\ TypeOK /\ OneTerminalPerTile /\ Fresh /\ Bound /\ WorkerHome
      /\ \A p \in Panes : next_pane <= p => items[p] = {}
      /\ \A w \in WorkerIds : worker_panes[w] # next_pane
      /\ \A w \in WorkerIds : worker_panes[w] \in Panes \cup {NoPane}
  BY <1>a, SpawnTypes, IdTypes DEF IInv, Fresh, Homed, OffGrid
<1> USE <1>0, <1>a, TermTypes, NameTypes
    DEF Same, Lost, Unresolved, Moved, Kept, running, OneTerminalPerTile, Fresh, Unused, Bound,
        WorkerHome
<1>1. CASE SplitTile
  BY <1>1 DEF SplitTile, split_pane_with_command, spawn_terminal_into, overflow
<1>2. ASSUME NEW p \in Panes, FocusTile(p) PROVE Kept(x)
  BY <1>2 DEF FocusTile, spawn_terminal_into, overflow
<1>3. ASSUME NEW p \in Panes, toggle_magnify(p) PROVE Kept(x)
  BY <1>3 DEF toggle_magnify, shells, overflow
<1>4. ASSUME NEW p \in Panes, StartShell(p) PROVE Kept(x)
  BY <1>4 DEF StartShell, spawn_terminal_into, overflow
<1>5. ASSUME NEW p \in Panes, StartWorker(p) PROVE Kept(x)
  BY <1>5 DEF StartWorker, start_terminal_in_pane, spawn_terminal_into, overflow, needs_shell
<1>6. CASE DeferredSpawn
  BY <1>6 DEF DeferredSpawn, spawn_terminal_into, overflow
<1>7. ASSUME NEW s \in pane_spawns, ShellLands(s) PROVE Kept(x)
  BY <1>7 DEF ShellLands, SpawnEnds, add_item, overflow
<1>8. ASSUME NEW s \in pane_spawns, ShellFails(s) PROVE Kept(x)
  BY <1>8 DEF ShellFails, SpawnEnds, overflow
<1>9. ASSUME NEW p \in Panes, AddExternal(p) PROVE Kept(x)
  BY <1>9 DEF AddExternal, add_item, overflow
<1>10. CASE handle_drop
  BY <1>10 DEF handle_drop, adopt_terminal, overflow
<1>11. ASSUME NEW p \in Panes, close_tile(p) PROVE Kept(x)
  BY <1>11 DEF close_tile, shells, overflow
<1>12. ASSUME NEW t \in Terminals, ShellExits(t) PROVE Kept(x)
  BY <1>12 DEF ShellExits, overflow
<1>13. ASSUME NEW c \in closes, CloseFinishes(c) PROVE Kept(x)
  <2>1. CASE UNCHANGED <<items, worker_panes>>
    BY <1>13, <2>1 DEF CloseFinishes, overflow
  <2>2. CASE /\ c.pane \in center /\ items[c.pane] = {c.term}
             /\ items' = [items EXCEPT ![c.pane] = {}] /\ remove_tile(c.pane)
    <3>1. UNCHANGED overflow_view /\ group \in {"open", "closing"}
      BY <1>13 DEF CloseFinishes, overflow, TypeOK
    <3>2. CASE worker_panes[x] # c.pane
      <4>1. worker_panes'[x] \in {worker_panes[x], NoPane}
            /\ (worker_panes'[x] # worker_panes[x] => status'[x] = NoStatus)
        BY <2>2 DEF remove_tile
      <4> QED
        BY <2>2, <3>1, <3>2, <4>1
    <3>3. CASE worker_panes[x] = c.pane
      <4>1. overflow_view[x] = NoTerm
        BY <2>2, <3>3
      <4>2. CASE LastTile
        BY <2>2, <3>1, <3>3, <4>1, <4>2 DEF remove_tile
      <4>3. CASE ~LastTile /\ group = "open"
        BY <2>2, <3>3, <4>3 DEF remove_tile, WorkersOf
      <4>4. CASE ~LastTile /\ group = "closing"
        BY <2>2, <3>1, <3>3, <4>1, <4>4 DEF remove_tile
      <4> QED
        BY <3>1, <4>2, <4>3, <4>4
    <3> QED
      BY <3>2, <3>3
  <2> QED
    <3>1. CASE pane_exists(c.pane) /\ c.term \in items[c.pane]
      <4>1. items[c.pane] = {c.term} /\ c.pane \in center
        BY <1>13, <3>1 DEF CloseFinishes, Use
      <4> QED
        BY <1>13, <2>2, <3>1, <4>1 DEF CloseFinishes
    <3>2. CASE ~(pane_exists(c.pane) /\ c.term \in items[c.pane])
      BY <1>13, <2>1, <3>2 DEF CloseFinishes
    <3> QED
      BY <3>1, <3>2
<1>14. CASE GroupCloses
  BY <1>14 DEF GroupCloses, overflow
<1>15. ASSUME NEW par \in WorkerIds \cup {NoWorker}, SpawnWorker(par) PROVE Kept(x)
  <2>1. CASE x = next_pane /\ next_pane \in Panes
    BY <2>1, SpawnTypes
  <2>2. CASE x # next_pane \/ next_pane \notin Panes
    BY <1>15, <2>2
    DEF SpawnWorker, control_spawn, control_spawn_refused, split_pane_with_command,
        spawn_terminal_into
  <2> QED
    BY <2>1, <2>2
<1>16. ASSUME NEW s \in overflow_spawns, OverflowLands(s) PROVE Kept(x)
  BY <1>16 DEF OverflowLands
<1>17. ASSUME NEW s \in overflow_spawns, OverflowFails(s) PROVE Kept(x)
  BY <1>17 DEF OverflowFails, shells, overflow
<1>18. ASSUME NEW w \in WorkerIds, NEW st \in ReportStatuses, control_report(w, st)
       PROVE  Kept(x)
  BY <1>18 DEF control_report, shells, overflow
<1>19. ASSUME NEW w \in WorkerIds, control_pause(w) \/ control_resume(w) PROVE Kept(x)
  BY <1>19 DEF control_pause, control_resume, Signal, shells, overflow
<1>20. ASSUME NEW W \in SUBSET WorkerIds, CloseWorkers(W) PROVE Kept(x)
  BY <1>20 DEF CloseWorkers
<1>21. ASSUME NEW w \in WorkerIds, RestartOverflow(w) PROVE Kept(x)
  <2>1. CASE x = w
    <3>1. w # next_pane \/ next_pane \notin Panes
      BY <1>21, SpawnTypes DEF RestartOverflow
    <3>2. status'[w] = NoStatus
      BY <1>21, <3>1, IdTypes
      DEF RestartOverflow, control_spawn, control_spawn_refused, split_pane_with_command
    <3> QED
      BY <2>1, <3>2
  <2>2. CASE x # w /\ (x # next_pane \/ next_pane \notin Panes)
    BY <1>21, <2>2
    DEF RestartOverflow, control_spawn, control_spawn_refused, split_pane_with_command,
        spawn_terminal_into
  <2>3. CASE x = next_pane /\ next_pane \in Panes
    BY <2>3, SpawnTypes
  <2> QED
    BY <2>1, <2>2, <2>3
<1>22. ASSUME NEW w \in WorkerIds, RestartVisible(w) PROVE Kept(x)
  BY <1>22 DEF RestartVisible, shells, overflow
<1>23. ASSUME NEW r \in respawns, Respawn(r) PROVE Kept(x)
  <2>1. CASE x = next_pane /\ next_pane \in Panes
    BY <2>1, SpawnTypes
  <2>2. CASE x # next_pane \/ next_pane \notin Panes
    BY <1>23, <2>2
    DEF Respawn, control_spawn, control_spawn_refused, split_pane_with_command,
        spawn_terminal_into
  <2> QED
    BY <2>1, <2>2
<1>24. ASSUME NEW w \in WorkerIds, FocusWorker(w) PROVE Kept(x)
  BY <1>24 DEF FocusWorker, shells, overflow
<1>25. ASSUME NEW w \in WorkerIds, promote_worker(w) PROVE Kept(x)
  BY <1>25 DEF promote_worker, TakeOverflow
<1>26. ASSUME NEW w \in WorkerIds, demote_worker(w) PROVE Kept(x)
  <2>1. /\ worker_panes[w] \in Panes /\ group' = group
        /\ \A p \in Panes \ {worker_panes[w]} : items'[p] = items[p]
        /\ \A v \in WorkerIds \ {w} : overflow_view'[v] = overflow_view[v]
        /\ \A v \in WorkerIds : worker_panes'[v] = IF worker_panes[v] = worker_panes[w]
                                                 THEN NoPane ELSE worker_panes[v]
    BY <1>26 DEF demote_worker
  <2>2. CASE x = w
    <3>1. PICK t \in items[worker_panes[w]] : overflow_view'[w] = t
      BY <1>26 DEF demote_worker
    <3>2. items[worker_panes[w]] = {t} /\ t \in Terminals /\ overflow_view[w] = NoTerm
      BY <2>1, <3>1
    <3> QED
      BY <2>1, <2>2, <3>1, <3>2
  <2>3. CASE x # w /\ worker_panes[x] = worker_panes[w]
    <3>1. group \in {"open", "closing"} /\ overflow_view[x] = NoTerm
      BY <1>26, <2>1, <2>3 DEF demote_worker, TypeOK
    <3>2. group # "open"
      BY <2>1, <2>3
    <3> QED
      BY <2>1, <2>3, <3>1, <3>2
  <2>4. CASE x # w /\ worker_panes[x] # worker_panes[w]
    BY <2>1, <2>4
  <2> QED
    BY <2>2, <2>3, <2>4
<1>27. ASSUME NEW p \in Panes, HoldPane(p) PROVE Kept(x)
  BY <1>27 DEF HoldPane, shells, overflow
<1>28. ASSUME NEW p \in Panes, LetGo(p) PROVE Kept(x)
  <2>1. UNCHANGED <<overflow_view, worker_panes, group>> /\ drop_pane(p)
    BY <1>28 DEF LetGo, overflow
  <2>2. CASE in_use(p)
    BY <2>1, <2>2 DEF drop_pane
  <2>3. CASE ~in_use(p) /\ worker_panes[x] # p
    BY <2>1, <2>3 DEF drop_pane
  <2>4. CASE ~in_use(p) /\ worker_panes[x] = p
    <3>1. group' # "open" /\ items'[p] = {}
      BY <2>1, <2>4 DEF in_use, drop_pane
    <3>2. worker_panes'[x] = p /\ p # NoPane
      BY <2>1, <2>4
    <3>3. CASE overflow_view[x] = NoTerm
      BY <2>1, <3>1, <3>2, <3>3
    <3>4. CASE overflow_view[x] # NoTerm
      BY <2>4, <3>2, <3>4
    <3> QED
      BY <3>3, <3>4
  <2> QED
    BY <2>2, <2>3, <2>4
<1>29. ASSUME NEW p \in Panes, ConfirmCommand(p) PROVE Kept(x)
  <2>1. CASE items[p] = {}
    <3>1. /\ p \in center /\ worker_panes' = [worker_panes EXCEPT ![p] = p]
          /\ UNCHANGED <<items, overflow_view>>
      BY <1>29, <2>1 DEF ConfirmCommand, start_terminal_in_pane, Use
    <3> QED
      BY <2>1, <3>1
  <2>2. CASE items[p] # {} /\ at_visible_cap
    BY <1>29, <2>2
    DEF ConfirmCommand, start_terminal_in_pane, needs_shell, drop_pane, in_use, control_spawn,
        split_pane_with_command, spawn_overflow_worker
  <2>3. CASE items[p] # {} /\ ~at_visible_cap /\ x # next_pane
    BY <1>29, <2>3
    DEF ConfirmCommand, start_terminal_in_pane, needs_shell, drop_pane, in_use, control_spawn,
        split_pane_with_command, spawn_terminal_into
  <2>4. CASE x = next_pane /\ next_pane \in Panes
    BY <2>4, SpawnTypes
  <2> QED
    BY <1>29, <2>1, <2>2, <2>3, <2>4, SpawnTypes
    DEF ConfirmCommand, start_terminal_in_pane, needs_shell, control_spawn,
        split_pane_with_command
<1>30. ASSUME NEW p \in center \cup held, NEW q \in center \cup held, DropAstray(p, q)
       PROVE  Kept(x)
  BY <1>30 DEF DropAstray, shells, overflow
<1>31. CASE UNCHANGED vars
  BY <1>31 DEF vars, shells, overflow
<1> HIDE DEF Same, Lost, Unresolved, Moved, Kept
<1> QED
  BY <1>1, <1>2, <1>3, <1>4, <1>5, <1>6, <1>7, <1>8, <1>9, <1>10, <1>11, <1>12, <1>13,
     <1>14, <1>15, <1>16, <1>17, <1>18, <1>19, <1>20, <1>21, <1>22, <1>23, <1>24, <1>25,
     <1>26, <1>27, <1>28, <1>29, <1>30, <1>31
  DEF Next, GridStep, TaskStep, ControlStep, control_close, control_close_subtree,
      Subtree

\* Until a pane outside the grid is used, no move between grid and overflow exchanges the
\* terminal of a registered worker, and only a group that is closing or closed loses it.
THEOREM WorkersKeepTerminals == Spec => KeepsTerminal
<1> DEFINE A == ~strayed' => \A w \in WorkerIds :
                  status[w] # NoStatus /\ status'[w] # NoStatus /\ Resolve(w) # NoTerm
                    => \/ Resolve(w)' = Resolve(w)
                       \/ Resolve(w)' = NoTerm /\ group' # "open"
<1>1. IInv /\ [Next]_vars => A
  <2> SUFFICES ASSUME IInv, [Next]_vars, ~strayed' PROVE A
    OBVIOUS
  <2>1. TypeOK
    BY DEF IInv
  <2>2. \A w \in WorkerIds : Kept(w)
    BY NextKept
  <2> QED
    BY <2>1, <2>2, KeptResolves
<1>2. IInv /\ [Next]_vars => [A]_vars
  BY <1>1
<1> QED
  BY <1>2, Inductive, PTL DEF Spec, KeepsTerminal

-----------------------------------------------------------------------------
(* The theorems about shells *)

\* The inductive invariant about shells, on top of the one about homes.
ShellInv == IInv /\ Starting /\ CapHolds /\ Named

\* A new group and a restored one satisfy the invariant.
LEMMA InitShellInv == Init => ShellInv
<1> SUFFICES ASSUME Init PROVE ShellInv
  OBVIOUS
<1>1. IInv /\ TypeOK
  BY InitIInv DEF IInv
<1>2. \A s \in pane_spawns : /\ s = [pane |-> active_pane, term |-> 1]
                             /\ s.pane = active_pane /\ s.term = 1
                             /\ active_pane \in spawning /\ 1 \in Terminals
  BY GroupAssumption DEF Init, Restored, GroupAssumption, Terminals
<1>3. Starting
  <2>1. active_pane < next_pane /\ active_pane \in Panes
    BY <1>1 DEF Init, IInv, Fresh, TypeOK
  <2> QED
    BY <1>2, <2>1 DEF Init, Starting, OneShellPerTile
<1>4. CapHolds
  <2>1. \A n \in Nat : Cardinality(1 .. n) = n
    BY FS_Interval
  <2>2. RestoredTiles \in Nat /\ RestoredTiles <= MaxTiles /\ 1 <= MaxTiles
    BY GroupAssumption DEF GroupAssumption
  <2> QED
    BY <2>1, <2>2 DEF Init, Restored, CapHolds
<1>5. Named
  <2>1. \A t \in Terminals : next_term <= t => worker_id[t] = NoWorker
    BY GroupAssumption DEF Init, Restored, GroupAssumption, Terminals
  <2>2. \A s \in pane_spawns : worker_id[s.term] \in {s.pane, NoWorker}
    BY <1>2 DEF Init
  <2>3. \A s \in overflow_spawns : worker_id[s.term] = s.id
    <3>1. PICK saved \in [1 .. RestoredOverflow -> WorkerIds \cup {NoWorker}] :
            overflow_spawns = {[id |-> MaxPanes + k, term |-> k + 1, parent |-> saved[k]] :
                                 k \in 1 .. RestoredOverflow}
      BY DEF Init
    <3>2. \A s \in overflow_spawns : \E k \in 1 .. RestoredOverflow :
            s.id = MaxPanes + k /\ s.term = k + 1
      BY <3>1
    <3>3. \A s \in overflow_spawns : s.term \in Terminals
      BY <1>1, TermTypes
    <3>4. \A t \in Terminals :
            t \in 2 .. RestoredOverflow + 1 => worker_id[t] = MaxPanes + t - 1
      BY DEF Init
    <3>5. MaxPanes \in Int /\ RestoredOverflow \in Int
      BY GroupAssumption DEF GroupAssumption
    <3>6. ASSUME NEW s \in overflow_spawns PROVE worker_id[s.term] = s.id
      <4>1. PICK k \in 1 .. RestoredOverflow : s.id = MaxPanes + k /\ s.term = k + 1
        BY <3>2
      <4>2. k + 1 \in 2 .. RestoredOverflow + 1 /\ MaxPanes + (k + 1) - 1 = MaxPanes + k
        BY <3>5
      <4> QED
        BY <3>3, <3>4, <4>1, <4>2
    <3> QED
      BY <3>6
  <2>4. \A w \in WorkerIds : overflow_view[w] = NoTerm /\ worker_panes[w] = NoPane
    BY DEF Init
  <2> QED
    BY <2>1, <2>2, <2>3, <2>4 DEF Named
<1> QED
  BY <1>1, <1>3, <1>4, <1>5 DEF ShellInv

\* Every operation preserves it.
LEMMA NextShellInv == ShellInv /\ [Next]_vars => ShellInv'
BY NextIInv, NextStarting, NextCap, NextNamed DEF ShellInv, IInv

\* The strengthened invariant holds of every group.
LEMMA ShellsInductive == Spec => []ShellInv
BY InitShellInv, NextShellInv, PTL DEF Spec

\* Until something comes from outside, a tile never has two shells on the way, nor one
\* while it holds a terminal, whatever focus, launcher, deferred loop and control plane
\* ask for.
THEOREM TilesStartOneShell == Spec => [](external = 0 => OneShellPerTile)
<1>1. ShellInv => (external = 0 => OneShellPerTile)
  BY DEF ShellInv, Starting, Undisturbed
<1> QED
  BY <1>1, ShellsInductive, PTL

\* Until something comes from outside or a pane outside the grid is used, splitting,
\* spawning, promoting and restoring keep the grid within max_tiles.
THEOREM GridStaysWithinCap == Spec => []CapHolds
<1>1. ShellInv => CapHolds
  BY DEF ShellInv
<1> QED
  BY <1>1, ShellsInductive, PTL

\* What is sent to a worker of an open group is never typed into the shell of another.
THEOREM ShellsAreNeverForeign == Spec => []NeverForeign
<1>1. ShellInv => NeverForeign
  <2> SUFFICES ASSUME ShellInv, group = "open", NEW w \in WorkerIds, Resolve(w) # NoTerm
               PROVE  worker_id[Resolve(w)] \in {w, NoWorker}
    BY DEF NeverForeign
  <2>1. CASE overflow_view[w] # NoTerm
    BY <2>1 DEF ShellInv, Named, Resolve
  <2>2. CASE overflow_view[w] = NoTerm
    <3>1. worker_panes[w] # NoPane /\ items[worker_panes[w]] # {}
      BY <2>2 DEF Resolve
    <3>2. Resolve(w) = CHOOSE t \in items[worker_panes[w]] : TRUE
      BY <2>2, <3>1 DEF Resolve
    <3>3. Resolve(w) \in items[worker_panes[w]]
      BY <3>1, <3>2
    <3> QED
      BY <3>1, <3>3 DEF ShellInv, Named
  <2> QED
    BY <2>1, <2>2
<1> QED
  BY <1>1, ShellsInductive, PTL
=============================================================================

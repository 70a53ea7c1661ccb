------------------------ MODULE TerminalGroupProofs ------------------------
(***************************************************************************)
(* What holds of every terminal group, for any visible cap and any number  *)
(* of panes, shells, workers, restarts and drops: its types, one place for *)
(* every worker and terminal, and a control tree that shows every worker.  *)
(***************************************************************************)
EXTENDS TerminalGroup, TLAPS, WellFoundedInduction

-----------------------------------------------------------------------------
(* Sets of ids *)

\* Pane ids and overflow ids are worker ids, and the markers for "none" are not ids.
LEMMA Ids ==
  /\ Panes \subseteq WorkerIds
  /\ NoPane \notin Panes /\ NoWorker \notin WorkerIds /\ NoTerm \notin Terminals
  /\ \A n \in 1 .. MaxPanes + 1 : n <= MaxPanes => n \in Panes /\ n + 1 \in 1 .. MaxPanes + 1
  /\ \A n \in 1 .. MaxTerminals + 1 :
       n <= MaxTerminals => n \in Terminals /\ n + 1 \in 1 .. MaxTerminals + 1
  /\ \A n \in OverflowBase .. OverflowBase + MaxOverflow :
       n < OverflowBase + MaxOverflow =>
         /\ n \in WorkerIds \ Panes
         /\ n + 1 \in OverflowBase .. OverflowBase + MaxOverflow
  /\ \A n \in 0 .. MaxExternal : n < MaxExternal => n + 1 \in 0 .. MaxExternal
BY GroupAssumption
   DEF GroupAssumption, Panes, WorkerIds, Terminals, NoPane, NoWorker, NoTerm, OverflowBase

\* The statuses the group itself gives.
LEMMA OwnStatuses ==
  /\ {"starting", "working", "paused", "failed"} \subseteq Statuses
  /\ ReportStatuses \subseteq Statuses
BY DEF Statuses

-----------------------------------------------------------------------------
(* Types *)

LEMMA InitTypeOK == Init => TypeOK
<1> SUFFICES ASSUME Init PROVE TypeOK
  OBVIOUS
<1>1. center \in SUBSET Panes /\ active_pane \in Panes
      /\ magnified_pane \in Panes \cup {NoPane}
  BY GroupAssumption DEF Init, GroupAssumption, Panes, Restored
<1>2. PICK saved \in [1 .. RestoredOverflow -> WorkerIds \cup {NoWorker}] :
        overflow_spawns = {[id |-> MaxPanes + k, term |-> k + 1, parent |-> saved[k]] :
                             k \in 1 .. RestoredOverflow}
  BY DEF Init
<1>3. overflow_spawns \in SUBSET OverflowSpawns
  BY <1>2, GroupAssumption
     DEF GroupAssumption, OverflowSpawns, WorkerIds, Terminals
<1>4. pane_spawns \in SUBSET PaneSpawns /\ spawning \in SUBSET Panes
  BY <1>1, GroupAssumption DEF Init, GroupAssumption, PaneSpawns, Terminals, Restored
<1>5. worker_id \in [Terminals -> WorkerIds \cup {NoWorker}]
  BY GroupAssumption DEF Init, GroupAssumption, WorkerIds, Terminals
<1>6. /\ next_pane \in 1 .. MaxPanes + 1
      /\ next_overflow_id \in OverflowBase .. OverflowBase + MaxOverflow
      /\ next_term \in 1 .. MaxTerminals + 1
      /\ external \in 0 .. MaxExternal
  BY GroupAssumption DEF Init, GroupAssumption, OverflowBase, Restored
<1> QED
  BY <1>1, <1>3, <1>4, <1>5, <1>6 DEF Init, TypeOK

\* The histories are truth values.
LEMMA HistoryTypes ==
  ASSUME strayed \in BOOLEAN, foretold \in BOOLEAN
  PROVE  /\ \A p : Use(p) => strayed' \in BOOLEAN
         /\ \A par : Name(par) => foretold' \in BOOLEAN
BY Zenon DEF Use, Name

\* Each operation keeps the types.
LEMMA NextTypeOK == TypeOK /\ [Next]_vars => TypeOK'
<1> SUFFICES ASSUME TypeOK, [Next]_vars PROVE TypeOK'
  OBVIOUS
<1> USE Ids, OwnStatuses, HistoryTypes DEF TypeOK, outside
<1>1. CASE SplitTile
  BY <1>1 DEF SplitTile, split_pane_with_command, spawn_terminal_into, PaneSpawns,
              metadata, overflow, tasks, restore
<1>2. ASSUME NEW p \in Panes, FocusTile(p) PROVE TypeOK'
  BY <1>2 DEF FocusTile, spawn_terminal_into, PaneSpawns, metadata, overflow, tasks, restore
<1>3. ASSUME NEW p \in Panes, toggle_magnify(p) PROVE TypeOK'
  BY <1>3 DEF toggle_magnify, shells, metadata, overflow, tasks, restore
<1>4. ASSUME NEW p \in Panes, StartShell(p) PROVE TypeOK'
  BY <1>4 DEF StartShell, spawn_terminal_into, PaneSpawns, grid, metadata, overflow, tasks,
              restore
<1>5. ASSUME NEW p \in Panes, StartWorker(p) PROVE TypeOK'
  BY <1>5 DEF StartWorker, start_terminal_in_pane, spawn_terminal_into,
              worker_init_command, Spawned, PaneSpawns, grid, overflow, tasks, restore
<1>6. CASE DeferredSpawn
  BY <1>6 DEF DeferredSpawn, spawn_terminal_into, PaneSpawns, grid, metadata, overflow, tasks
<1>7. ASSUME NEW s \in pane_spawns, ShellLands(s) PROVE TypeOK'
  BY <1>7 DEF ShellLands, SpawnEnds, add_item, PaneSpawns, grid, metadata, overflow, tasks
<1>8. ASSUME NEW s \in pane_spawns, ShellFails(s) PROVE TypeOK'
  BY <1>8 DEF ShellFails, SpawnEnds, PaneSpawns, grid, metadata, overflow, tasks
<1>9. ASSUME NEW p \in Panes, AddExternal(p) PROVE TypeOK'
  BY <1>9 DEF AddExternal, add_item, grid, metadata, overflow, tasks, restore
<1>10. CASE handle_drop
  BY <1>10 DEF handle_drop, adopt_terminal, metadata, overflow, tasks, restore
<1>11. ASSUME NEW p \in Panes, close_tile(p) PROVE TypeOK'
  BY <1>11 DEF close_tile, CloseTasks, Closes, grid, shells, metadata, overflow, restore
<1>12. ASSUME NEW t \in Terminals, ShellExits(t) PROVE TypeOK'
  BY <1>12 DEF ShellExits, CloseTasks, Closes, grid, metadata, overflow, restore
<1>13. ASSUME NEW c \in closes, CloseFinishes(c) PROVE TypeOK'
  BY <1>13 DEF CloseFinishes, remove_tile, LastTile, Unmagnified, WorkersOf, Closes,
               Respawns, grid, overflow, restore
<1>14. CASE GroupCloses
  BY <1>14 DEF GroupCloses, grid, metadata, overflow, tasks, restore
<1>15. ASSUME NEW par \in WorkerIds \cup {NoWorker}, SpawnWorker(par) PROVE TypeOK'
  BY <1>15 DEF SpawnWorker, control_spawn, split_pane_with_command, spawn_terminal_into,
               spawn_overflow_worker, worker_init_command, recorded_parent, Spawned,
               PaneSpawns, OverflowSpawns, grid, tasks, restore
<1>16. ASSUME NEW s \in overflow_spawns, OverflowLands(s) PROVE TypeOK'
  BY <1>16 DEF OverflowLands, Spawned, OverflowSpawns, grid, tasks, restore
<1>17. ASSUME NEW s \in overflow_spawns, OverflowFails(s) PROVE TypeOK'
  BY <1>17 DEF OverflowFails, OverflowSpawns, grid, shells, tasks, restore
<1>18. ASSUME NEW w \in WorkerIds, NEW st \in ReportStatuses, control_report(w, st)
       PROVE  TypeOK'
  BY <1>18 DEF control_report, grid, shells, overflow, tasks, restore
<1>19. ASSUME NEW w \in WorkerIds, control_pause(w) \/ control_resume(w) PROVE TypeOK'
  BY <1>19 DEF control_pause, control_resume, Signal, grid, shells, overflow, tasks, restore
<1>20. ASSUME NEW W \in SUBSET WorkerIds, CloseWorkers(W) PROVE TypeOK'
  BY <1>20 DEF CloseWorkers, CloseTasks, Closes, grid, restore
<1>21. ASSUME NEW w \in WorkerIds, RestartOverflow(w) PROVE TypeOK'
  BY <1>21 DEF RestartOverflow, control_spawn, control_spawn_refused,
               split_pane_with_command, spawn_terminal_into,
               spawn_overflow_worker, worker_init_command, recorded_parent, Spawned,
               PaneSpawns, OverflowSpawns, grid, tasks, restore
<1>22. ASSUME NEW w \in WorkerIds, RestartVisible(w) PROVE TypeOK'
  BY <1>22 DEF RestartVisible, CloseTasks, Closes, Respawns, grid, shells, overflow, restore
<1>23. ASSUME NEW r \in respawns, Respawn(r) PROVE TypeOK'
  BY <1>23 DEF Respawn, control_spawn, control_spawn_refused,
               split_pane_with_command, spawn_terminal_into,
               spawn_overflow_worker, worker_init_command, recorded_parent, Spawned,
               Respawns, PaneSpawns, OverflowSpawns, grid, restore
<1>24. ASSUME NEW w \in WorkerIds, FocusWorker(w) PROVE TypeOK'
  BY <1>24 DEF FocusWorker, shells, metadata, overflow, tasks, restore
<1>25. ASSUME NEW w \in WorkerIds, promote_worker(w) PROVE TypeOK'
  BY <1>25 DEF promote_worker, TakeOverflow, tasks, restore
<1>26. ASSUME NEW w \in WorkerIds, demote_worker(w) PROVE TypeOK'
  BY <1>26 DEF demote_worker, Unmagnified, tasks, restore
<1>27. ASSUME NEW p \in Panes, HoldPane(p) PROVE TypeOK'
  BY <1>27 DEF HoldPane, grid, shells, metadata, overflow, tasks, restore
<1>28. ASSUME NEW p \in Panes, LetGo(p) PROVE TypeOK'
  BY <1>28 DEF LetGo, drop_pane, grid, metadata, overflow, tasks, restore
<1>29. ASSUME NEW p \in Panes, ConfirmCommand(p) PROVE TypeOK'
  <2>1. CASE items[p] = {}
    BY <1>29, <2>1 DEF ConfirmCommand, start_terminal_in_pane, spawn_terminal_into,
                       worker_init_command, Spawned, PaneSpawns, grid, tasks, restore
  <2>2. CASE items[p] # {} /\ at_visible_cap
    BY <1>29, <2>2 DEF ConfirmCommand, start_terminal_in_pane, needs_shell, drop_pane,
                       control_spawn, split_pane_with_command, spawn_overflow_worker,
                       worker_init_command, OverflowSpawns, grid, tasks, restore
  <2>3. CASE items[p] # {} /\ ~at_visible_cap
    BY <1>29, <2>3 DEF ConfirmCommand, start_terminal_in_pane, needs_shell, drop_pane,
                       control_spawn, split_pane_with_command, spawn_terminal_into,
                       worker_init_command, recorded_parent, Spawned, PaneSpawns, grid, tasks,
                       restore
  <2> QED
    BY <2>1, <2>2, <2>3
<1>30. ASSUME NEW p \in center \cup held, NEW q \in center \cup held, DropAstray(p, q)
       PROVE  TypeOK'
  BY <1>30 DEF DropAstray, shells, metadata, overflow, tasks, restore
<1>31. CASE UNCHANGED vars
  BY <1>31 DEF vars, grid, shells, metadata, overflow, tasks, restore
<1> HIDE DEF TypeOK
<1> QED
  BY <1>1, <1>2, <1>3, <1>4, <1>5, <1>6, <1>7, <1>8, <1>9, <1>10, <1>11, <1>12, <1>13,
     <1>14, <1>15, <1>16, <1>17, <1>18, <1>19, <1>20, <1>21, <1>22, <1>23, <1>24, <1>25,
     <1>26, <1>27, <1>28, <1>29, <1>30, <1>31
  DEF Next, GridStep, TaskStep, ControlStep, control_close, control_close_subtree, Subtree

\* Every variable of a group keeps its type.
THEOREM TypeCorrect == Spec => []TypeOK
BY InitTypeOK, NextTypeOK, PTL DEF Spec

-----------------------------------------------------------------------------
(* TG-1: one terminal per tile *)

\* What lands in a taken tile goes to a tile of its own; every other operation leaves the
\* tiles' terminals alone, takes one away or fills a new tile.
LEMMA NextOneTerminal == TypeOK /\ OneTerminalPerTile /\ [Next]_vars => OneTerminalPerTile'
<1> SUFFICES ASSUME TypeOK, OneTerminalPerTile, [Next]_vars PROVE OneTerminalPerTile'
  OBVIOUS
<1> USE Ids DEF TypeOK, OneTerminalPerTile, outside, Use
<1>1. CASE SplitTile
  BY <1>1 DEF SplitTile, split_pane_with_command, spawn_terminal_into, PaneSpawns
<1>2. ASSUME NEW p \in Panes, FocusTile(p) PROVE OneTerminalPerTile'
  BY <1>2 DEF FocusTile, spawn_terminal_into, PaneSpawns
<1>3. ASSUME NEW p \in Panes, toggle_magnify(p) PROVE OneTerminalPerTile'
  BY <1>3 DEF toggle_magnify, shells
<1>4. ASSUME NEW p \in Panes, StartShell(p) PROVE OneTerminalPerTile'
  BY <1>4 DEF StartShell, spawn_terminal_into, PaneSpawns
<1>5. ASSUME NEW p \in Panes, StartWorker(p) PROVE OneTerminalPerTile'
  BY <1>5 DEF StartWorker, start_terminal_in_pane, spawn_terminal_into, PaneSpawns
<1>6. CASE DeferredSpawn
  BY <1>6 DEF DeferredSpawn, spawn_terminal_into, PaneSpawns
<1>7. ASSUME NEW s \in pane_spawns, ShellLands(s) PROVE OneTerminalPerTile'
  BY <1>7 DEF ShellLands, SpawnEnds, add_item, PaneSpawns
<1>8. ASSUME NEW s \in pane_spawns, ShellFails(s) PROVE OneTerminalPerTile'
  BY <1>8 DEF ShellFails, SpawnEnds, PaneSpawns
<1>9. ASSUME NEW p \in Panes, AddExternal(p) PROVE OneTerminalPerTile'
  BY <1>9 DEF AddExternal, add_item
<1>10. CASE handle_drop
  BY <1>10 DEF handle_drop, adopt_terminal
<1>11. ASSUME NEW p \in Panes, close_tile(p) PROVE OneTerminalPerTile'
  BY <1>11 DEF close_tile, shells
<1>12. ASSUME NEW t \in Terminals, ShellExits(t) PROVE OneTerminalPerTile'
  BY <1>12 DEF ShellExits
<1>13. ASSUME NEW c \in closes, CloseFinishes(c) PROVE OneTerminalPerTile'
  BY <1>13 DEF CloseFinishes, remove_tile, LastTile, Closes
<1>14. CASE GroupCloses
  BY <1>14 DEF GroupCloses
<1>15. ASSUME NEW par \in WorkerIds \cup {NoWorker}, SpawnWorker(par)
       PROVE  OneTerminalPerTile'
  BY <1>15 DEF SpawnWorker, control_spawn, split_pane_with_command, spawn_terminal_into,
               spawn_overflow_worker, PaneSpawns
<1>16. ASSUME NEW s \in overflow_spawns, OverflowLands(s) PROVE OneTerminalPerTile'
  BY <1>16 DEF OverflowLands
<1>17. ASSUME NEW s \in overflow_spawns, OverflowFails(s) PROVE OneTerminalPerTile'
  BY <1>17 DEF OverflowFails, shells
<1>18. ASSUME NEW w \in WorkerIds, NEW st \in ReportStatuses, control_report(w, st)
       PROVE  OneTerminalPerTile'
  BY <1>18 DEF control_report, shells
<1>19. ASSUME NEW w \in WorkerIds, control_pause(w) \/ control_resume(w)
       PROVE  OneTerminalPerTile'
  BY <1>19 DEF control_pause, control_resume, Signal, shells
<1>20. ASSUME NEW W \in SUBSET WorkerIds, CloseWorkers(W) PROVE OneTerminalPerTile'
  BY <1>20 DEF CloseWorkers
<1>21. ASSUME NEW w \in WorkerIds, RestartOverflow(w) PROVE OneTerminalPerTile'
  BY <1>21 DEF RestartOverflow, control_spawn_refused, control_spawn,
               split_pane_with_command, spawn_terminal_into, spawn_overflow_worker,
               PaneSpawns
<1>22. ASSUME NEW w \in WorkerIds, RestartVisible(w) PROVE OneTerminalPerTile'
  BY <1>22 DEF RestartVisible, shells
<1>23. ASSUME NEW r \in respawns, Respawn(r) PROVE OneTerminalPerTile'
  BY <1>23 DEF Respawn, control_spawn_refused, control_spawn, split_pane_with_command,
               spawn_terminal_into, spawn_overflow_worker, PaneSpawns
<1>24. ASSUME NEW w \in WorkerIds, FocusWorker(w) PROVE OneTerminalPerTile'
  BY <1>24 DEF FocusWorker, shells
<1>25. ASSUME NEW w \in WorkerIds, promote_worker(w) PROVE OneTerminalPerTile'
  BY <1>25 DEF promote_worker
<1>26. ASSUME NEW w \in WorkerIds, demote_worker(w) PROVE OneTerminalPerTile'
  BY <1>26 DEF demote_worker
<1>27. ASSUME NEW p \in Panes, HoldPane(p) PROVE OneTerminalPerTile'
  BY <1>27 DEF HoldPane, shells
<1>28. ASSUME NEW p \in Panes, LetGo(p) PROVE OneTerminalPerTile'
  BY <1>28 DEF LetGo, drop_pane
<1>29. ASSUME NEW p \in Panes, ConfirmCommand(p) PROVE OneTerminalPerTile'
  <2>1. CASE items[p] = {}
    BY <1>29, <2>1 DEF ConfirmCommand, start_terminal_in_pane
  <2>2. CASE items[p] # {} /\ at_visible_cap
    BY <1>29, <2>2 DEF ConfirmCommand, start_terminal_in_pane, needs_shell, drop_pane,
                       control_spawn, split_pane_with_command
  <2>3. CASE items[p] # {} /\ ~at_visible_cap
    BY <1>29, <2>3 DEF ConfirmCommand, start_terminal_in_pane, needs_shell, drop_pane,
                       control_spawn
  <2> QED
    BY <2>1, <2>2, <2>3
<1>30. ASSUME NEW p \in center \cup held, NEW q \in center \cup held, DropAstray(p, q)
       PROVE  OneTerminalPerTile'
  BY <1>30 DEF DropAstray, shells
<1>31. CASE UNCHANGED vars
  BY <1>31 DEF vars, shells
<1> HIDE DEF TypeOK, OneTerminalPerTile
<1> QED
  BY <1>1, <1>2, <1>3, <1>4, <1>5, <1>6, <1>7, <1>8, <1>9, <1>10, <1>11, <1>12, <1>13,
     <1>14, <1>15, <1>16, <1>17, <1>18, <1>19, <1>20, <1>21, <1>22, <1>23, <1>24, <1>25,
     <1>26, <1>27, <1>28, <1>29, <1>30, <1>31
  DEF Next, GridStep, TaskStep, ControlStep, control_close, control_close_subtree,
      Subtree

\* A tile never holds two terminals, whatever lands in it while its own shell is still
\* starting, with any number of tiles, shells and drops from outside.
THEOREM TilesHoldOne == Spec => []OneTerminalPerTile
<1>1. Init => OneTerminalPerTile
  BY DEF Init, OneTerminalPerTile
<1> QED
  BY <1>1, TypeCorrect, NextOneTerminal, PTL DEF Spec

-----------------------------------------------------------------------------
(* The event stream *)

\* The marker for an absent status is not one of the statuses.
LEMMA NoStatusIsNone ==
  NoStatus \notin {"starting", "working", "paused", "failed"} \cup ReportStatuses
BY GroupAssumption DEF GroupAssumption, NoStatus, Statuses

\* A status appears only in the step that announces it, and an announcement is taken back
\* only in a step that drops the status.
LEMMA NextAnnounced == TypeOK /\ WorkersAnnounced /\ [Next]_vars => WorkersAnnounced'
<1> SUFFICES ASSUME TypeOK, WorkersAnnounced, [Next]_vars PROVE WorkersAnnounced'
  OBVIOUS
<1> USE Ids, OwnStatuses, NoStatusIsNone DEF TypeOK, WorkersAnnounced, outside, Use
<1>1. CASE SplitTile
  BY <1>1 DEF SplitTile, metadata
<1>2. ASSUME NEW p \in Panes, FocusTile(p) PROVE WorkersAnnounced'
  BY <1>2 DEF FocusTile, metadata
<1>3. ASSUME NEW p \in Panes, toggle_magnify(p) PROVE WorkersAnnounced'
  BY <1>3 DEF toggle_magnify, metadata
<1>4. ASSUME NEW p \in Panes, StartShell(p) PROVE WorkersAnnounced'
  BY <1>4 DEF StartShell, metadata
<1>5. ASSUME NEW p \in Panes, StartWorker(p) PROVE WorkersAnnounced'
  BY <1>5 DEF StartWorker, start_terminal_in_pane, Spawned
<1>6. CASE DeferredSpawn
  BY <1>6 DEF DeferredSpawn, metadata
<1>7. ASSUME NEW s \in pane_spawns, ShellLands(s) PROVE WorkersAnnounced'
  BY <1>7 DEF ShellLands, SpawnEnds, metadata
<1>8. ASSUME NEW s \in pane_spawns, ShellFails(s) PROVE WorkersAnnounced'
  BY <1>8 DEF ShellFails, SpawnEnds, metadata
<1>9. ASSUME NEW p \in Panes, AddExternal(p) PROVE WorkersAnnounced'
  BY <1>9 DEF AddExternal, metadata
<1>10. CASE handle_drop
  BY <1>10 DEF handle_drop, metadata
<1>11. ASSUME NEW p \in Panes, close_tile(p) PROVE WorkersAnnounced'
  BY <1>11 DEF close_tile, metadata
<1>12. ASSUME NEW t \in Terminals, ShellExits(t) PROVE WorkersAnnounced'
  BY <1>12 DEF ShellExits, metadata
<1>13. ASSUME NEW c \in closes, CloseFinishes(c) PROVE WorkersAnnounced'
  BY <1>13 DEF CloseFinishes, remove_tile, LastTile, WorkersOf
<1>14. CASE GroupCloses
  BY <1>14 DEF GroupCloses, metadata
<1>15. ASSUME NEW par \in WorkerIds \cup {NoWorker}, SpawnWorker(par)
       PROVE  WorkersAnnounced'
  BY <1>15 DEF SpawnWorker, control_spawn, Spawned, OverflowSpawns
<1>16. ASSUME NEW s \in overflow_spawns, OverflowLands(s) PROVE WorkersAnnounced'
  BY <1>16 DEF OverflowLands, Spawned, OverflowSpawns
<1>17. ASSUME NEW s \in overflow_spawns, OverflowFails(s) PROVE WorkersAnnounced'
  BY <1>17 DEF OverflowFails, OverflowSpawns
<1>18. ASSUME NEW w \in WorkerIds, NEW st \in ReportStatuses, control_report(w, st)
       PROVE  WorkersAnnounced'
  BY <1>18 DEF control_report
<1>19. ASSUME NEW w \in WorkerIds, control_pause(w) \/ control_resume(w)
       PROVE  WorkersAnnounced'
  BY <1>19 DEF control_pause, control_resume, Signal
<1>20. ASSUME NEW W \in SUBSET WorkerIds, CloseWorkers(W) PROVE WorkersAnnounced'
  BY <1>20 DEF CloseWorkers
<1>21. ASSUME NEW w \in WorkerIds, RestartOverflow(w) PROVE WorkersAnnounced'
  BY <1>21 DEF RestartOverflow, control_spawn_refused, control_spawn, Spawned,
               OverflowSpawns
<1>22. ASSUME NEW w \in WorkerIds, RestartVisible(w) PROVE WorkersAnnounced'
  BY <1>22 DEF RestartVisible
<1>23. ASSUME NEW r \in respawns, Respawn(r) PROVE WorkersAnnounced'
  BY <1>23 DEF Respawn, control_spawn_refused, control_spawn, Spawned, OverflowSpawns
<1>24. ASSUME NEW w \in WorkerIds, FocusWorker(w) PROVE WorkersAnnounced'
  BY <1>24 DEF FocusWorker, metadata
<1>25. ASSUME NEW w \in WorkerIds, promote_worker(w) PROVE WorkersAnnounced'
  BY <1>25 DEF promote_worker
<1>26. ASSUME NEW w \in WorkerIds, demote_worker(w) PROVE WorkersAnnounced'
  BY <1>26 DEF demote_worker
<1>27. ASSUME NEW p \in Panes, HoldPane(p) PROVE WorkersAnnounced'
  BY <1>27 DEF HoldPane, metadata
<1>28. ASSUME NEW p \in Panes, LetGo(p) PROVE WorkersAnnounced'
  BY <1>28 DEF LetGo, drop_pane, metadata
<1>29. ASSUME NEW p \in Panes, ConfirmCommand(p) PROVE WorkersAnnounced'
  <2>1. CASE items[p] = {}
    BY <1>29, <2>1 DEF ConfirmCommand, start_terminal_in_pane, Spawned
  <2>2. CASE items[p] # {} /\ at_visible_cap
    BY <1>29, <2>2 DEF ConfirmCommand, start_terminal_in_pane, needs_shell, drop_pane,
                       control_spawn, split_pane_with_command
  <2>3. CASE items[p] # {} /\ ~at_visible_cap
    BY <1>29, <2>3 DEF ConfirmCommand, start_terminal_in_pane, needs_shell, drop_pane,
                       control_spawn, split_pane_with_command, Spawned
  <2> QED
    BY <2>1, <2>2, <2>3
<1>30. ASSUME NEW p \in center \cup held, NEW q \in center \cup held, DropAstray(p, q)
       PROVE  WorkersAnnounced'
  BY <1>30 DEF DropAstray, metadata
<1>31. CASE UNCHANGED vars
  BY <1>31 DEF vars, shells, metadata
<1> HIDE DEF TypeOK, WorkersAnnounced
<1> QED
  BY <1>1, <1>2, <1>3, <1>4, <1>5, <1>6, <1>7, <1>8, <1>9, <1>10, <1>11, <1>12, <1>13,
     <1>14, <1>15, <1>16, <1>17, <1>18, <1>19, <1>20, <1>21, <1>22, <1>23, <1>24, <1>25,
     <1>26, <1>27, <1>28, <1>29, <1>30, <1>31
  DEF Next, GridStep, TaskStep, ControlStep, control_close, control_close_subtree,
      Subtree

\* Every supervised worker has been announced on the event stream and not retracted,
\* however spawns, promotions, restarts and closes are interleaved.
THEOREM AllAnnounced == Spec => []WorkersAnnounced
<1>1. Init => WorkersAnnounced
  BY DEF Init, WorkersAnnounced
<1> QED
  BY <1>1, TypeCorrect, NextAnnounced, PTL DEF Spec


(***************************************************************************)
(* Every worker of a terminal group and every terminal has one place, and  *)
(* the focus is on a tile of the grid, for any visible cap and any number  *)
(* of panes, shells, workers, restarts and drops.                          *)
(*                                                                         *)
(* None of the three is inductive as it stands.  That a new worker finds   *)
(* its id free rests on Fresh; that demoting a worker does not put it      *)
(* beside the tile with its own id rests on Bound; that no launcher starts *)
(* a second worker in the tile of a promoted one rests on EmptyIsOwn; that *)
(* a shell that lands is nowhere yet rests on TermsFresh and OnTheWay.     *)
(***************************************************************************)

-----------------------------------------------------------------------------
(* Where a worker is *)

\* An id that is in none of the tables.
Unused(w) == status[w] = NoStatus /\ worker_panes[w] = NoPane /\ overflow_view[w] = NoTerm

\* Ids that have not been handed out are unused, and the ids of the shells that are on
\* the way to the overflow set are overflow ids, different and unused.
Fresh ==
  /\ \A p \in center \cup held \cup {active_pane} : p < next_pane
  /\ \A p \in Panes : next_pane <= p => Unused(p)
  /\ \A w \in WorkerIds : worker_panes[w] < next_pane
  /\ \A w \in WorkerIds : next_overflow_id <= w => Unused(w)
  /\ \A s \in overflow_spawns : s.id \notin Panes /\ s.id < next_overflow_id /\ Unused(s.id)
  /\ \A s1, s2 \in overflow_spawns : s1.id = s2.id => s1 = s2

\* Pane ids are below overflow ids.
LEMMA IdOrder ==
  /\ WorkerIds \subseteq Int
  /\ NoPane < 1
  /\ 1 .. MaxPanes + 1 \subseteq Int
  /\ \A n \in 1 .. MaxPanes + 1 : NoPane < n
  /\ OverflowBase .. OverflowBase + MaxOverflow \subseteq Int
  /\ \A p \in Panes : \A n \in OverflowBase .. OverflowBase + MaxOverflow : p < n
BY GroupAssumption DEF GroupAssumption, Panes, WorkerIds, OverflowBase, NoPane

\* What the types say of the ids.
LEMMA IdTypes ==
  ASSUME TypeOK
  PROVE  /\ next_pane \in Int /\ NoPane < next_pane /\ next_overflow_id \in Int
         /\ center \subseteq Panes /\ held \subseteq Panes /\ active_pane \in Panes
         /\ Panes \subseteq WorkerIds /\ WorkerIds \subseteq Int
         /\ \A p \in Panes : p < next_overflow_id
         /\ next_pane <= MaxPanes => next_pane \in Panes
         /\ next_overflow_id < OverflowBase + MaxOverflow
              => next_overflow_id \in WorkerIds \ Panes
         /\ worker_panes \in [WorkerIds -> Panes \cup {NoPane}]
         /\ \A w \in WorkerIds : worker_panes[w] \in Int
         /\ status \in [WorkerIds -> Statuses \cup {NoStatus}]
         /\ overflow_view \in [WorkerIds -> Terminals \cup {NoTerm}]
         /\ \A s \in overflow_spawns : s.id \in WorkerIds
BY GroupAssumption
   DEF TypeOK, GroupAssumption, Panes, WorkerIds, OverflowBase, NoPane, OverflowSpawns

\* Each operation takes its new pane and its new overflow id from the unused ones.
LEMMA NextFresh == TypeOK /\ Fresh /\ [Next]_vars => Fresh'
<1> SUFFICES ASSUME TypeOK, Fresh, [Next]_vars PROVE Fresh'
  OBVIOUS
<1> USE IdTypes DEF Fresh, Unused, outside, Use
<1>1. CASE SplitTile
  BY <1>1 DEF SplitTile, split_pane_with_command, metadata, overflow
<1>2. ASSUME NEW p \in Panes, FocusTile(p) PROVE Fresh'
  BY <1>2 DEF FocusTile, metadata, overflow
<1>3. ASSUME NEW p \in Panes, toggle_magnify(p) PROVE Fresh'
  BY <1>3 DEF toggle_magnify, metadata, overflow
<1>4. ASSUME NEW p \in Panes, StartShell(p) PROVE Fresh'
  BY <1>4 DEF StartShell, grid, metadata, overflow
<1>5. ASSUME NEW p \in Panes, StartWorker(p) PROVE Fresh'
  BY <1>5 DEF StartWorker, start_terminal_in_pane, grid, overflow
<1>6. CASE DeferredSpawn
  BY <1>6 DEF DeferredSpawn, grid, metadata, overflow
<1>7. ASSUME NEW s \in pane_spawns, ShellLands(s) PROVE Fresh'
  BY <1>7 DEF ShellLands, SpawnEnds, add_item, grid, metadata, overflow
<1>8. ASSUME NEW s \in pane_spawns, ShellFails(s) PROVE Fresh'
  BY <1>8 DEF ShellFails, SpawnEnds, grid, metadata, overflow
<1>9. ASSUME NEW p \in Panes, AddExternal(p) PROVE Fresh'
  BY <1>9 DEF AddExternal, add_item, grid, metadata, overflow
<1>10. CASE handle_drop
  BY <1>10 DEF handle_drop, adopt_terminal, metadata, overflow
<1>11. ASSUME NEW p \in Panes, close_tile(p) PROVE Fresh'
  BY <1>11 DEF close_tile, grid, metadata, overflow
<1>12. ASSUME NEW t \in Terminals, ShellExits(t) PROVE Fresh'
  BY <1>12 DEF ShellExits, grid, metadata, overflow
<1>13. ASSUME NEW c \in closes, CloseFinishes(c) PROVE Fresh'
  BY <1>13 DEF CloseFinishes, remove_tile, LastTile, WorkersOf, grid, overflow
<1>14. CASE GroupCloses
  BY <1>14 DEF GroupCloses, grid, metadata, overflow
<1>15. ASSUME NEW par \in WorkerIds \cup {NoWorker}, SpawnWorker(par) PROVE Fresh'
  <2>1. CASE at_visible_cap
    BY <1>15, <2>1 DEF SpawnWorker, control_spawn, split_pane_with_command,
                       spawn_overflow_worker, grid
  <2>2. CASE ~at_visible_cap
    BY <1>15, <2>2 DEF SpawnWorker, control_spawn, split_pane_with_command, grid
  <2> QED
    BY <2>1, <2>2
<1>16. ASSUME NEW s \in overflow_spawns, OverflowLands(s) PROVE Fresh'
  BY <1>16 DEF OverflowLands, grid
<1>17. ASSUME NEW s \in overflow_spawns, OverflowFails(s) PROVE Fresh'
  BY <1>17 DEF OverflowFails, grid
<1>18. ASSUME NEW w \in WorkerIds, NEW st \in ReportStatuses, control_report(w, st)
       PROVE  Fresh'
  BY <1>18 DEF control_report, grid, overflow
<1>19. ASSUME NEW w \in WorkerIds, control_pause(w) \/ control_resume(w) PROVE Fresh'
  BY <1>19 DEF control_pause, control_resume, Signal, grid, overflow
<1>20. ASSUME NEW W \in SUBSET WorkerIds, CloseWorkers(W) PROVE Fresh'
  BY <1>20 DEF CloseWorkers, grid
<1>21. ASSUME NEW w \in WorkerIds, RestartOverflow(w) PROVE Fresh'
  <2>1. CASE at_visible_cap
    BY <1>21, <2>1 DEF RestartOverflow, control_spawn, control_spawn_refused,
                       split_pane_with_command, spawn_overflow_worker, grid
  <2>2. CASE ~at_visible_cap
    BY <1>21, <2>2 DEF RestartOverflow, control_spawn, control_spawn_refused,
                       split_pane_with_command, grid
  <2> QED
    BY <2>1, <2>2
<1>22. ASSUME NEW w \in WorkerIds, RestartVisible(w) PROVE Fresh'
  BY <1>22 DEF RestartVisible, grid, overflow
<1>23. ASSUME NEW r \in respawns, Respawn(r) PROVE Fresh'
  <2>1. CASE at_visible_cap
    BY <1>23, <2>1 DEF Respawn, control_spawn, control_spawn_refused,
                       split_pane_with_command, spawn_overflow_worker, grid
  <2>2. CASE ~at_visible_cap
    BY <1>23, <2>2 DEF Respawn, control_spawn, control_spawn_refused,
                       split_pane_with_command, grid
  <2> QED
    BY <2>1, <2>2
<1>24. ASSUME NEW w \in WorkerIds, FocusWorker(w) PROVE Fresh'
  BY <1>24 DEF FocusWorker, metadata, overflow
<1>25. ASSUME NEW w \in WorkerIds, promote_worker(w) PROVE Fresh'
  BY <1>25 DEF promote_worker, TakeOverflow
<1>26. ASSUME NEW w \in WorkerIds, demote_worker(w) PROVE Fresh'
  BY <1>26 DEF demote_worker
<1>27. ASSUME NEW p \in Panes, HoldPane(p) PROVE Fresh'
  BY <1>27 DEF HoldPane, grid, metadata, overflow
<1>28. ASSUME NEW p \in Panes, LetGo(p) PROVE Fresh'
  BY <1>28 DEF LetGo, drop_pane, grid, metadata, overflow
<1>29. ASSUME NEW p \in Panes, ConfirmCommand(p) PROVE Fresh'
  <2>1. CASE items[p] = {}
    BY <1>29, <2>1 DEF ConfirmCommand, start_terminal_in_pane, grid
  <2>2. CASE items[p] # {} /\ at_visible_cap
    BY <1>29, <2>2 DEF ConfirmCommand, start_terminal_in_pane, needs_shell, drop_pane,
                       control_spawn, split_pane_with_command, spawn_overflow_worker, grid
  <2>3. CASE items[p] # {} /\ ~at_visible_cap
    BY <1>29, <2>3 DEF ConfirmCommand, start_terminal_in_pane, needs_shell, drop_pane,
                       control_spawn, split_pane_with_command, grid
  <2> QED
    BY <2>1, <2>2, <2>3
<1>30. ASSUME NEW p \in center \cup held, NEW q \in center \cup held, DropAstray(p, q)
       PROVE  Fresh'
  BY <1>30 DEF DropAstray, metadata, overflow
<1>31. CASE UNCHANGED vars
  BY <1>31 DEF vars, grid, shells, metadata, overflow
<1> HIDE DEF Fresh, Unused
<1> QED
  BY <1>1, <1>2, <1>3, <1>4, <1>5, <1>6, <1>7, <1>8, <1>9, <1>10, <1>11, <1>12, <1>13,
     <1>14, <1>15, <1>16, <1>17, <1>18, <1>19, <1>20, <1>21, <1>22, <1>23, <1>24, <1>25,
     <1>26, <1>27, <1>28, <1>29, <1>30, <1>31
  DEF Next, GridStep, TaskStep, ControlStep, control_close, control_close_subtree,
      Subtree

\* An id is on the grid or in overflow.  A worker that is in overflow, or in a tile that
\* is not its own, has given up the tile with its id.
Bound ==
  ~strayed =>
    /\ \A w \in WorkerIds : overflow_view[w] # NoTerm => worker_panes[w] = NoPane
    /\ \A p \in center : overflow_view[p] = NoTerm
    /\ \A p \in center : worker_panes[p] \in {NoPane, p}

\* A promoted worker gets a tile that is not its own and a demoted one loses its tile.
LEMMA NextBound == TypeOK /\ Fresh /\ Bound /\ [Next]_vars => Bound'
<1> SUFFICES ASSUME TypeOK, Fresh, Bound, [Next]_vars PROVE Bound'
  OBVIOUS
<1> USE IdTypes DEF Fresh, Unused, Bound, outside, Use
<1>1. CASE SplitTile
  BY <1>1 DEF SplitTile, split_pane_with_command, overflow
<1>2. ASSUME NEW p \in Panes, FocusTile(p) PROVE Bound'
  BY <1>2 DEF FocusTile, overflow
<1>3. ASSUME NEW p \in Panes, toggle_magnify(p) PROVE Bound'
  BY <1>3 DEF toggle_magnify, overflow
<1>4. ASSUME NEW p \in Panes, StartShell(p) PROVE Bound'
  BY <1>4 DEF StartShell, grid, overflow
<1>5. ASSUME NEW p \in Panes, StartWorker(p) PROVE Bound'
  BY <1>5 DEF StartWorker, start_terminal_in_pane, grid, overflow
<1>6. CASE DeferredSpawn
  BY <1>6 DEF DeferredSpawn, grid, overflow
<1>7. ASSUME NEW s \in pane_spawns, ShellLands(s) PROVE Bound'
  BY <1>7 DEF ShellLands, SpawnEnds, add_item, grid, overflow
<1>8. ASSUME NEW s \in pane_spawns, ShellFails(s) PROVE Bound'
  BY <1>8 DEF ShellFails, SpawnEnds, grid, overflow
<1>9. ASSUME NEW p \in Panes, AddExternal(p) PROVE Bound'
  BY <1>9 DEF AddExternal, add_item, grid, overflow
<1>10. CASE handle_drop
  BY <1>10 DEF handle_drop, adopt_terminal, overflow
<1>11. ASSUME NEW p \in Panes, close_tile(p) PROVE Bound'
  BY <1>11 DEF close_tile, grid, overflow
<1>12. ASSUME NEW t \in Terminals, ShellExits(t) PROVE Bound'
  BY <1>12 DEF ShellExits, grid, overflow
<1>13. ASSUME NEW c \in closes, CloseFinishes(c) PROVE Bound'
  BY <1>13 DEF CloseFinishes, remove_tile, LastTile, WorkersOf, grid, overflow
<1>14. CASE GroupCloses
  BY <1>14 DEF GroupCloses, grid, overflow
<1>15. ASSUME NEW par \in WorkerIds \cup {NoWorker}, SpawnWorker(par) PROVE Bound'
  <2>1. CASE at_visible_cap
    BY <1>15, <2>1 DEF SpawnWorker, control_spawn, split_pane_with_command,
                       spawn_overflow_worker, grid
  <2>2. CASE ~at_visible_cap
    BY <1>15, <2>2 DEF SpawnWorker, control_spawn, split_pane_with_command, grid
  <2> QED
    BY <2>1, <2>2
<1>16. ASSUME NEW s \in overflow_spawns, OverflowLands(s) PROVE Bound'
  BY <1>16 DEF OverflowLands, grid
<1>17. ASSUME NEW s \in overflow_spawns, OverflowFails(s) PROVE Bound'
  BY <1>17 DEF OverflowFails, grid
<1>18. ASSUME NEW w \in WorkerIds, NEW st \in ReportStatuses, control_report(w, st)
       PROVE  Bound'
  BY <1>18 DEF control_report, grid, overflow
<1>19. ASSUME NEW w \in WorkerIds, control_pause(w) \/ control_resume(w) PROVE Bound'
  BY <1>19 DEF control_pause, control_resume, Signal, grid, overflow
<1>20. ASSUME NEW W \in SUBSET WorkerIds, CloseWorkers(W) PROVE Bound'
  BY <1>20 DEF CloseWorkers, grid
<1>21. ASSUME NEW w \in WorkerIds, RestartOverflow(w) PROVE Bound'
  <2>1. CASE at_visible_cap
    BY <1>21, <2>1 DEF RestartOverflow, control_spawn, control_spawn_refused,
                       split_pane_with_command, spawn_overflow_worker, grid
  <2>2. CASE ~at_visible_cap
    BY <1>21, <2>2 DEF RestartOverflow, control_spawn, control_spawn_refused,
                       split_pane_with_command, grid
  <2> QED
    BY <2>1, <2>2
<1>22. ASSUME NEW w \in WorkerIds, RestartVisible(w) PROVE Bound'
  BY <1>22 DEF RestartVisible, grid, overflow
<1>23. ASSUME NEW r \in respawns, Respawn(r) PROVE Bound'
  <2>1. CASE at_visible_cap
    BY <1>23, <2>1 DEF Respawn, control_spawn, control_spawn_refused,
                       split_pane_with_command, spawn_overflow_worker, grid
  <2>2. CASE ~at_visible_cap
    BY <1>23, <2>2 DEF Respawn, control_spawn, control_spawn_refused,
                       split_pane_with_command, grid
  <2> QED
    BY <2>1, <2>2
<1>24. ASSUME NEW w \in WorkerIds, FocusWorker(w) PROVE Bound'
  BY <1>24 DEF FocusWorker, overflow
<1>25. ASSUME NEW w \in WorkerIds, promote_worker(w) PROVE Bound'
  BY <1>25 DEF promote_worker, TakeOverflow
<1>26. ASSUME NEW w \in WorkerIds, demote_worker(w) PROVE Bound'
  BY <1>26 DEF demote_worker
<1>27. ASSUME NEW p \in Panes, HoldPane(p) PROVE Bound'
  BY <1>27 DEF HoldPane, grid, overflow
<1>28. ASSUME NEW p \in Panes, LetGo(p) PROVE Bound'
  BY <1>28 DEF LetGo, drop_pane, grid, overflow
<1>29. ASSUME NEW p \in Panes, ConfirmCommand(p) PROVE Bound'
  <2>1. CASE items[p] = {}
    BY <1>29, <2>1 DEF ConfirmCommand, start_terminal_in_pane, grid
  <2>2. CASE items[p] # {} /\ at_visible_cap
    BY <1>29, <2>2 DEF ConfirmCommand, start_terminal_in_pane, needs_shell, drop_pane,
                       control_spawn, split_pane_with_command, spawn_overflow_worker, grid
  <2>3. CASE items[p] # {} /\ ~at_visible_cap
    BY <1>29, <2>3 DEF ConfirmCommand, start_terminal_in_pane, needs_shell, drop_pane,
                       control_spawn, split_pane_with_command, grid
  <2> QED
    BY <2>1, <2>2, <2>3
<1>30. ASSUME NEW p \in center \cup held, NEW q \in center \cup held, DropAstray(p, q)
       PROVE  Bound'
  BY <1>30 DEF DropAstray, overflow
<1>31. CASE UNCHANGED vars
  BY <1>31 DEF vars, grid, shells, overflow
<1> HIDE DEF Fresh, Unused, Bound
<1> QED
  BY <1>1, <1>2, <1>3, <1>4, <1>5, <1>6, <1>7, <1>8, <1>9, <1>10, <1>11, <1>12, <1>13,
     <1>14, <1>15, <1>16, <1>17, <1>18, <1>19, <1>20, <1>21, <1>22, <1>23, <1>24, <1>25,
     <1>26, <1>27, <1>28, <1>29, <1>30, <1>31
  DEF Next, GridStep, TaskStep, ControlStep, control_close, control_close_subtree,
      Subtree

\* As long as the group is not closing, an empty pane can only be that of the worker
\* with its own id: no launcher and no dialog can start a second worker in it.
EmptyIsOwn ==
  group = "open" =>
    /\ \A w \in WorkerIds : worker_panes[w] \notin {NoPane, w} => items[worker_panes[w]] # {}
    /\ \A v, w \in WorkerIds :
         worker_panes[v] = worker_panes[w] /\ worker_panes[v] # NoPane => v = w

\* What the types say of the tiles.
LEMMA ItemTypes ==
  ASSUME TypeOK
  PROVE  /\ items \in [Panes -> SUBSET Terminals]
         /\ NoPane \notin Panes /\ NoTerm \notin Terminals
         /\ \A s \in pane_spawns : s.pane \in Panes
         /\ \A s \in overflow_spawns : s.term \in Terminals
         /\ \A c \in closes : c.pane \in Panes
BY Ids DEF TypeOK, PaneSpawns, OverflowSpawns, Closes

\* Only a closing group keeps the worker of an emptied tile.
LEMMA NextEmptyIsOwn ==
  TypeOK /\ Fresh /\ OneTerminalPerTile /\ WorkerHome /\ EmptyIsOwn /\ [Next]_vars
    => EmptyIsOwn'
<1> SUFFICES ASSUME TypeOK, Fresh, OneTerminalPerTile, WorkerHome, EmptyIsOwn, [Next]_vars
             PROVE  EmptyIsOwn'
  OBVIOUS
<1> USE IdTypes, ItemTypes
    DEF Fresh, Unused, WorkerHome, OneTerminalPerTile, EmptyIsOwn, running, outside, Use
<1>1. CASE SplitTile
  BY <1>1 DEF SplitTile, split_pane_with_command, spawn_terminal_into
<1>2. ASSUME NEW p \in Panes, FocusTile(p) PROVE EmptyIsOwn'
  BY <1>2 DEF FocusTile, spawn_terminal_into
<1>3. ASSUME NEW p \in Panes, toggle_magnify(p) PROVE EmptyIsOwn'
  BY <1>3 DEF toggle_magnify, shells
<1>4. ASSUME NEW p \in Panes, StartShell(p) PROVE EmptyIsOwn'
  BY <1>4 DEF StartShell, spawn_terminal_into
<1>5. ASSUME NEW p \in Panes, StartWorker(p) PROVE EmptyIsOwn'
  BY <1>5 DEF StartWorker, start_terminal_in_pane, spawn_terminal_into, needs_shell
<1>6. CASE DeferredSpawn
  BY <1>6 DEF DeferredSpawn, spawn_terminal_into
<1>7. ASSUME NEW s \in pane_spawns, ShellLands(s) PROVE EmptyIsOwn'
  BY <1>7 DEF ShellLands, SpawnEnds, add_item
<1>8. ASSUME NEW s \in pane_spawns, ShellFails(s) PROVE EmptyIsOwn'
  BY <1>8 DEF ShellFails, SpawnEnds
<1>9. ASSUME NEW p \in Panes, AddExternal(p) PROVE EmptyIsOwn'
  BY <1>9 DEF AddExternal, add_item
<1>10. CASE handle_drop
  BY <1>10 DEF handle_drop, adopt_terminal
<1>11. ASSUME NEW p \in Panes, close_tile(p) PROVE EmptyIsOwn'
  BY <1>11 DEF close_tile, shells
<1>12. ASSUME NEW t \in Terminals, ShellExits(t) PROVE EmptyIsOwn'
  BY <1>12 DEF ShellExits
<1>13. ASSUME NEW c \in closes, CloseFinishes(c) PROVE EmptyIsOwn'
  BY <1>13 DEF CloseFinishes, remove_tile, LastTile, WorkersOf
<1>14. CASE GroupCloses
  BY <1>14 DEF GroupCloses
<1>15. ASSUME NEW par \in WorkerIds \cup {NoWorker}, SpawnWorker(par) PROVE EmptyIsOwn'
  <2>1. CASE at_visible_cap
    BY <1>15, <2>1 DEF SpawnWorker, control_spawn, split_pane_with_command, shells
  <2>2. CASE ~at_visible_cap
    BY <1>15, <2>2 DEF SpawnWorker, control_spawn, split_pane_with_command,
                       spawn_terminal_into, shells
  <2> QED
    BY <2>1, <2>2
<1>16. ASSUME NEW s \in overflow_spawns, OverflowLands(s) PROVE EmptyIsOwn'
  BY <1>16 DEF OverflowLands
<1>17. ASSUME NEW s \in overflow_spawns, OverflowFails(s) PROVE EmptyIsOwn'
  BY <1>17 DEF OverflowFails, shells
<1>18. ASSUME NEW w \in WorkerIds, NEW st \in ReportStatuses, control_report(w, st)
       PROVE  EmptyIsOwn'
  BY <1>18 DEF control_report, shells
<1>19. ASSUME NEW w \in WorkerIds, control_pause(w) \/ control_resume(w)
       PROVE  EmptyIsOwn'
  BY <1>19 DEF control_pause, control_resume, Signal, shells
<1>20. ASSUME NEW W \in SUBSET WorkerIds, CloseWorkers(W) PROVE EmptyIsOwn'
  BY <1>20 DEF CloseWorkers
<1>21. ASSUME NEW w \in WorkerIds, RestartOverflow(w) PROVE EmptyIsOwn'
  <2>1. CASE at_visible_cap
    BY <1>21, <2>1 DEF RestartOverflow, control_spawn, control_spawn_refused,
                       split_pane_with_command, shells
  <2>2. CASE ~at_visible_cap
    BY <1>21, <2>2 DEF RestartOverflow, control_spawn, control_spawn_refused,
                       split_pane_with_command, spawn_terminal_into, shells
  <2> QED
    BY <2>1, <2>2
<1>22. ASSUME NEW w \in WorkerIds, RestartVisible(w) PROVE EmptyIsOwn'
  BY <1>22 DEF RestartVisible, shells
<1>23. ASSUME NEW r \in respawns, Respawn(r) PROVE EmptyIsOwn'
  <2>1. CASE at_visible_cap
    BY <1>23, <2>1 DEF Respawn, control_spawn, control_spawn_refused,
                       split_pane_with_command, shells
  <2>2. CASE ~at_visible_cap
    BY <1>23, <2>2 DEF Respawn, control_spawn, control_spawn_refused,
                       split_pane_with_command, spawn_terminal_into, shells
  <2> QED
    BY <2>1, <2>2
<1>24. ASSUME NEW w \in WorkerIds, FocusWorker(w) PROVE EmptyIsOwn'
  BY <1>24 DEF FocusWorker, shells
<1>25. ASSUME NEW w \in WorkerIds, promote_worker(w) PROVE EmptyIsOwn'
  <2>1. /\ next_pane \in Panes /\ UNCHANGED group
        /\ items' = [items EXCEPT ![next_pane] = {overflow_view[w]}]
        /\ worker_panes' = [worker_panes EXCEPT ![w] = next_pane]
    BY <1>25 DEF promote_worker
  <2>2. \A v \in WorkerIds : /\ worker_panes[v] # next_pane
                            /\ v # w => worker_panes'[v] = worker_panes[v]
    BY <2>1
  <2>3. worker_panes'[w] = next_pane /\ items'[next_pane] # {}
    BY <2>1
  <2>4. \A v \in WorkerIds \ {w} : items'[worker_panes'[v]] = items[worker_panes[v]]
                                   \/ worker_panes[v] = NoPane
    BY <2>1, <2>2
  <2>5. ASSUME group' = "open", NEW v \in WorkerIds, worker_panes'[v] \notin {NoPane, v}
        PROVE  items'[worker_panes'[v]] # {}
    <3>1. CASE v = w
      BY <2>3, <3>1
    <3>2. CASE v # w
      BY <2>1, <2>2, <2>4, <2>5, <3>2
    <3> QED
      BY <3>1, <3>2
  <2>6. \A v \in WorkerIds : worker_panes'[v] = next_pane => v = w
    BY <2>2
  <2> QED
    BY <2>1, <2>2, <2>3, <2>5, <2>6
<1>26. ASSUME NEW w \in WorkerIds, demote_worker(w) PROVE EmptyIsOwn'
  BY <1>26 DEF demote_worker
<1>27. ASSUME NEW p \in Panes, HoldPane(p) PROVE EmptyIsOwn'
  BY <1>27 DEF HoldPane, grid, shells
<1>28. ASSUME NEW p \in Panes, LetGo(p) PROVE EmptyIsOwn'
  BY <1>28 DEF LetGo, drop_pane, in_use, grid
<1>29. ASSUME NEW p \in Panes, ConfirmCommand(p) PROVE EmptyIsOwn'
  <2>1. CASE items[p] = {}
    BY <1>29, <2>1 DEF ConfirmCommand, start_terminal_in_pane, needs_shell, grid
  <2>2. CASE items[p] # {} /\ at_visible_cap
    BY <1>29, <2>2 DEF ConfirmCommand, start_terminal_in_pane, needs_shell, drop_pane,
                       in_use, control_spawn, split_pane_with_command, grid
  <2>3. CASE items[p] # {} /\ ~at_visible_cap
    BY <1>29, <2>3 DEF ConfirmCommand, start_terminal_in_pane, needs_shell, drop_pane,
                       in_use, control_spawn, split_pane_with_command, grid
  <2> QED
    BY <2>1, <2>2, <2>3
<1>30. ASSUME NEW p \in center \cup held, NEW q \in center \cup held, DropAstray(p, q)
       PROVE  EmptyIsOwn'
  BY <1>30 DEF DropAstray, shells
<1>31. CASE UNCHANGED vars
  BY <1>31 DEF vars, grid, shells, metadata, overflow
<1> HIDE DEF Fresh, Unused, WorkerHome, OneTerminalPerTile, EmptyIsOwn, running
<1> QED
  BY <1>1, <1>2, <1>3, <1>4, <1>5, <1>6, <1>7, <1>8, <1>9, <1>10, <1>11, <1>12, <1>13,
     <1>14, <1>15, <1>16, <1>17, <1>18, <1>19, <1>20, <1>21, <1>22, <1>23, <1>24, <1>25,
     <1>26, <1>27, <1>28, <1>29, <1>30, <1>31
  DEF Next, GridStep, TaskStep, ControlStep, control_close, control_close_subtree,
      Subtree

\* A worker that moves leaves the table where it was, and a tile that goes takes its
\* worker with it.
LEMMA NextWorkerHome ==
  TypeOK /\ Fresh /\ Bound /\ WorkerHome /\ EmptyIsOwn /\ [Next]_vars => WorkerHome'
<1> SUFFICES ASSUME TypeOK, Fresh, Bound, WorkerHome, EmptyIsOwn, [Next]_vars
             PROVE  WorkerHome'
  OBVIOUS
<1> USE IdTypes, ItemTypes, NoStatusIsNone
    DEF Fresh, Unused, Bound, WorkerHome, EmptyIsOwn, running, needs_shell, outside, Use
<1>1. CASE SplitTile
  BY <1>1 DEF SplitTile, split_pane_with_command, metadata, overflow
<1>2. ASSUME NEW p \in Panes, FocusTile(p) PROVE WorkerHome'
  BY <1>2 DEF FocusTile, metadata, overflow
<1>3. ASSUME NEW p \in Panes, toggle_magnify(p) PROVE WorkerHome'
  BY <1>3 DEF toggle_magnify, metadata, overflow
<1>4. ASSUME NEW p \in Panes, StartShell(p) PROVE WorkerHome'
  BY <1>4 DEF StartShell, grid, metadata, overflow
<1>5. ASSUME NEW p \in Panes, StartWorker(p) PROVE WorkerHome'
  BY <1>5 DEF StartWorker, start_terminal_in_pane, grid, overflow
<1>6. CASE DeferredSpawn
  BY <1>6 DEF DeferredSpawn, grid, metadata, overflow
<1>7. ASSUME NEW s \in pane_spawns, ShellLands(s) PROVE WorkerHome'
  BY <1>7 DEF ShellLands, SpawnEnds, add_item, grid, metadata, overflow
<1>8. ASSUME NEW s \in pane_spawns, ShellFails(s) PROVE WorkerHome'
  BY <1>8 DEF ShellFails, SpawnEnds, grid, metadata, overflow
<1>9. ASSUME NEW p \in Panes, AddExternal(p) PROVE WorkerHome'
  BY <1>9 DEF AddExternal, add_item, grid, metadata, overflow
<1>10. CASE handle_drop
  BY <1>10 DEF handle_drop, adopt_terminal, metadata, overflow
<1>11. ASSUME NEW p \in Panes, close_tile(p) PROVE WorkerHome'
  BY <1>11 DEF close_tile, grid, metadata, overflow
<1>12. ASSUME NEW t \in Terminals, ShellExits(t) PROVE WorkerHome'
  BY <1>12 DEF ShellExits, grid, metadata, overflow
<1>13. ASSUME NEW c \in closes, CloseFinishes(c) PROVE WorkerHome'
  BY <1>13 DEF CloseFinishes, remove_tile, LastTile, WorkersOf, grid, overflow
<1>14. CASE GroupCloses
  BY <1>14 DEF GroupCloses, grid, metadata, overflow
<1>15. ASSUME NEW par \in WorkerIds \cup {NoWorker}, SpawnWorker(par) PROVE WorkerHome'
  <2>1. CASE at_visible_cap
    BY <1>15, <2>1 DEF SpawnWorker, control_spawn, split_pane_with_command,
                       spawn_overflow_worker, grid
  <2>2. CASE ~at_visible_cap
    BY <1>15, <2>2 DEF SpawnWorker, control_spawn, split_pane_with_command, grid
  <2> QED
    BY <2>1, <2>2
<1>16. ASSUME NEW s \in overflow_spawns, OverflowLands(s) PROVE WorkerHome'
  BY <1>16 DEF OverflowLands, grid
<1>17. ASSUME NEW s \in overflow_spawns, OverflowFails(s) PROVE WorkerHome'
  BY <1>17 DEF OverflowFails, grid
<1>18. ASSUME NEW w \in WorkerIds, NEW st \in ReportStatuses, control_report(w, st)
       PROVE  WorkerHome'
  BY <1>18 DEF control_report, grid, overflow
<1>19. ASSUME NEW w \in WorkerIds, control_pause(w) \/ control_resume(w)
       PROVE  WorkerHome'
  BY <1>19 DEF control_pause, control_resume, Signal, grid, overflow
<1>20. ASSUME NEW W \in SUBSET WorkerIds, CloseWorkers(W) PROVE WorkerHome'
  BY <1>20 DEF CloseWorkers, grid
<1>21. ASSUME NEW w \in WorkerIds, RestartOverflow(w) PROVE WorkerHome'
  <2>1. CASE at_visible_cap
    BY <1>21, <2>1 DEF RestartOverflow, control_spawn, control_spawn_refused,
                       split_pane_with_command, spawn_overflow_worker, grid
  <2>2. CASE ~at_visible_cap
    BY <1>21, <2>2 DEF RestartOverflow, control_spawn, control_spawn_refused,
                       split_pane_with_command, grid
  <2> QED
    BY <2>1, <2>2
<1>22. ASSUME NEW w \in WorkerIds, RestartVisible(w) PROVE WorkerHome'
  BY <1>22 DEF RestartVisible, grid, overflow
<1>23. ASSUME NEW r \in respawns, Respawn(r) PROVE WorkerHome'
  <2>1. CASE at_visible_cap
    BY <1>23, <2>1 DEF Respawn, control_spawn, control_spawn_refused,
                       split_pane_with_command, spawn_overflow_worker, grid
  <2>2. CASE ~at_visible_cap
    BY <1>23, <2>2 DEF Respawn, control_spawn, control_spawn_refused,
                       split_pane_with_command, grid
  <2> QED
    BY <2>1, <2>2
<1>24. ASSUME NEW w \in WorkerIds, FocusWorker(w) PROVE WorkerHome'
  BY <1>24 DEF FocusWorker, metadata, overflow
<1>25. ASSUME NEW w \in WorkerIds, promote_worker(w) PROVE WorkerHome'
  BY <1>25 DEF promote_worker, TakeOverflow
<1>26. ASSUME NEW w \in WorkerIds, demote_worker(w) PROVE WorkerHome'
  BY <1>26 DEF demote_worker
<1>27. ASSUME NEW p \in Panes, HoldPane(p) PROVE WorkerHome'
  BY <1>27 DEF HoldPane, grid, metadata, overflow
<1>28. ASSUME NEW p \in Panes, LetGo(p) PROVE WorkerHome'
  BY <1>28 DEF LetGo, drop_pane, grid, metadata, overflow
<1>29. ASSUME NEW p \in Panes, ConfirmCommand(p) PROVE WorkerHome'
  <2>1. CASE items[p] = {}
    BY <1>29, <2>1 DEF ConfirmCommand, start_terminal_in_pane, grid
  <2>2. CASE items[p] # {} /\ at_visible_cap
    BY <1>29, <2>2 DEF ConfirmCommand, start_terminal_in_pane, needs_shell, drop_pane,
                       control_spawn, split_pane_with_command, spawn_overflow_worker, grid
  <2>3. CASE items[p] # {} /\ ~at_visible_cap
    BY <1>29, <2>3 DEF ConfirmCommand, start_terminal_in_pane, needs_shell, drop_pane,
                       control_spawn, split_pane_with_command, grid
  <2> QED
    BY <2>1, <2>2, <2>3
<1>30. ASSUME NEW p \in center \cup held, NEW q \in center \cup held, DropAstray(p, q)
       PROVE  WorkerHome'
  BY <1>30 DEF DropAstray, metadata, overflow
<1>31. CASE UNCHANGED vars
  BY <1>31 DEF vars, grid, shells, metadata, overflow
<1> HIDE DEF Fresh, Unused, Bound, WorkerHome, EmptyIsOwn, running, needs_shell
<1> QED
  BY <1>1, <1>2, <1>3, <1>4, <1>5, <1>6, <1>7, <1>8, <1>9, <1>10, <1>11, <1>12, <1>13,
     <1>14, <1>15, <1>16, <1>17, <1>18, <1>19, <1>20, <1>21, <1>22, <1>23, <1>24, <1>25,
     <1>26, <1>27, <1>28, <1>29, <1>30, <1>31
  DEF Next, GridStep, TaskStep, ControlStep, control_close, control_close_subtree,
      Subtree

-----------------------------------------------------------------------------
(* Focus *)

\* Focus moves to a new tile, to a tile of the grid, or off the tile that goes.
LEMMA NextFocusInGrid == TypeOK /\ WorkerHome /\ FocusInGrid /\ [Next]_vars => FocusInGrid'
<1> SUFFICES ASSUME TypeOK, WorkerHome, FocusInGrid, [Next]_vars PROVE FocusInGrid'
  OBVIOUS
<1> USE IdTypes DEF WorkerHome, FocusInGrid, running, outside, Use
<1>1. CASE SplitTile
  BY <1>1 DEF SplitTile, split_pane_with_command
<1>2. ASSUME NEW p \in Panes, FocusTile(p) PROVE FocusInGrid'
  BY <1>2 DEF FocusTile
<1>3. ASSUME NEW p \in Panes, toggle_magnify(p) PROVE FocusInGrid'
  BY <1>3 DEF toggle_magnify
<1>4. ASSUME NEW p \in Panes, StartShell(p) PROVE FocusInGrid'
  BY <1>4 DEF StartShell, grid
<1>5. ASSUME NEW p \in Panes, StartWorker(p) PROVE FocusInGrid'
  BY <1>5 DEF StartWorker, start_terminal_in_pane, grid
<1>6. CASE DeferredSpawn
  BY <1>6 DEF DeferredSpawn, grid
<1>7. ASSUME NEW s \in pane_spawns, ShellLands(s) PROVE FocusInGrid'
  BY <1>7 DEF ShellLands, SpawnEnds, add_item, grid
<1>8. ASSUME NEW s \in pane_spawns, ShellFails(s) PROVE FocusInGrid'
  BY <1>8 DEF ShellFails, SpawnEnds, grid
<1>9. ASSUME NEW p \in Panes, AddExternal(p) PROVE FocusInGrid'
  BY <1>9 DEF AddExternal, add_item, grid
<1>10. CASE handle_drop
  BY <1>10 DEF handle_drop, adopt_terminal
<1>11. ASSUME NEW p \in Panes, close_tile(p) PROVE FocusInGrid'
  BY <1>11 DEF close_tile, grid
<1>12. ASSUME NEW t \in Terminals, ShellExits(t) PROVE FocusInGrid'
  BY <1>12 DEF ShellExits, grid
<1>13. ASSUME NEW c \in closes, CloseFinishes(c) PROVE FocusInGrid'
  BY <1>13 DEF CloseFinishes, remove_tile, LastTile, Unmagnified, grid
<1>14. CASE GroupCloses
  BY <1>14 DEF GroupCloses, grid
<1>15. ASSUME NEW par \in WorkerIds \cup {NoWorker}, SpawnWorker(par) PROVE FocusInGrid'
  <2>1. CASE at_visible_cap
    BY <1>15, <2>1 DEF SpawnWorker, control_spawn, split_pane_with_command, grid
  <2>2. CASE ~at_visible_cap
    BY <1>15, <2>2 DEF SpawnWorker, control_spawn, split_pane_with_command, grid
  <2> QED
    BY <2>1, <2>2
<1>16. ASSUME NEW s \in overflow_spawns, OverflowLands(s) PROVE FocusInGrid'
  BY <1>16 DEF OverflowLands, grid
<1>17. ASSUME NEW s \in overflow_spawns, OverflowFails(s) PROVE FocusInGrid'
  BY <1>17 DEF OverflowFails, grid
<1>18. ASSUME NEW w \in WorkerIds, NEW st \in ReportStatuses, control_report(w, st)
       PROVE  FocusInGrid'
  BY <1>18 DEF control_report, grid
<1>19. ASSUME NEW w \in WorkerIds, control_pause(w) \/ control_resume(w)
       PROVE  FocusInGrid'
  BY <1>19 DEF control_pause, control_resume, Signal, grid
<1>20. ASSUME NEW W \in SUBSET WorkerIds, CloseWorkers(W) PROVE FocusInGrid'
  BY <1>20 DEF CloseWorkers, grid
<1>21. ASSUME NEW w \in WorkerIds, RestartOverflow(w) PROVE FocusInGrid'
  <2>1. CASE at_visible_cap
    BY <1>21, <2>1 DEF RestartOverflow, control_spawn, control_spawn_refused,
                       split_pane_with_command, grid
  <2>2. CASE ~at_visible_cap
    BY <1>21, <2>2 DEF RestartOverflow, control_spawn, control_spawn_refused,
                       split_pane_with_command, grid
  <2> QED
    BY <2>1, <2>2
<1>22. ASSUME NEW w \in WorkerIds, RestartVisible(w) PROVE FocusInGrid'
  BY <1>22 DEF RestartVisible, grid
<1>23. ASSUME NEW r \in respawns, Respawn(r) PROVE FocusInGrid'
  <2>1. CASE at_visible_cap
    BY <1>23, <2>1 DEF Respawn, control_spawn, control_spawn_refused,
                       split_pane_with_command, grid
  <2>2. CASE ~at_visible_cap
    BY <1>23, <2>2 DEF Respawn, control_spawn, control_spawn_refused,
                       split_pane_with_command, grid
  <2> QED
    BY <2>1, <2>2
<1>24. ASSUME NEW w \in WorkerIds, FocusWorker(w) PROVE FocusInGrid'
  BY <1>24 DEF FocusWorker
<1>25. ASSUME NEW w \in WorkerIds, promote_worker(w) PROVE FocusInGrid'
  BY <1>25 DEF promote_worker
<1>26. ASSUME NEW w \in WorkerIds, demote_worker(w) PROVE FocusInGrid'
  BY <1>26 DEF demote_worker, Unmagnified
<1>27. ASSUME NEW p \in Panes, HoldPane(p) PROVE FocusInGrid'
  BY <1>27 DEF HoldPane, grid
<1>28. ASSUME NEW p \in Panes, LetGo(p) PROVE FocusInGrid'
  BY <1>28 DEF LetGo, drop_pane, grid
<1>29. ASSUME NEW p \in Panes, ConfirmCommand(p) PROVE FocusInGrid'
  <2>1. CASE items[p] = {}
    BY <1>29, <2>1 DEF ConfirmCommand, start_terminal_in_pane, grid
  <2>2. CASE items[p] # {} /\ at_visible_cap
    BY <1>29, <2>2 DEF ConfirmCommand, start_terminal_in_pane, needs_shell, drop_pane,
                       control_spawn, split_pane_with_command, grid
  <2>3. CASE items[p] # {} /\ ~at_visible_cap
    BY <1>29, <2>3 DEF ConfirmCommand, start_terminal_in_pane, needs_shell, drop_pane,
                       control_spawn, split_pane_with_command, grid
  <2> QED
    BY <2>1, <2>2, <2>3
<1>30. ASSUME NEW p \in center \cup held, NEW q \in center \cup held, DropAstray(p, q)
       PROVE  FocusInGrid'
  BY <1>30 DEF DropAstray
<1>31. CASE UNCHANGED vars
  BY <1>31 DEF vars, grid, shells, metadata, overflow
<1> HIDE DEF WorkerHome, FocusInGrid, running
<1> QED
  BY <1>1, <1>2, <1>3, <1>4, <1>5, <1>6, <1>7, <1>8, <1>9, <1>10, <1>11, <1>12, <1>13,
     <1>14, <1>15, <1>16, <1>17, <1>18, <1>19, <1>20, <1>21, <1>22, <1>23, <1>24, <1>25,
     <1>26, <1>27, <1>28, <1>29, <1>30, <1>31
  DEF Next, GridStep, TaskStep, ControlStep, control_close, control_close_subtree,
      Subtree

-----------------------------------------------------------------------------
(* Where a terminal is *)

\* A terminal in a tile or in overflow.
Placed(t) ==
  \/ \E p \in Panes : t \in items[p]
  \/ \E w \in WorkerIds : overflow_view[w] = t

\* Terminals that have not been handed out are nowhere.
TermsFresh ==
  /\ \A p \in Panes : \A t \in items[p] : t < next_term
  /\ \A w \in WorkerIds : overflow_view[w] < next_term
  /\ \A s \in pane_spawns : s.term < next_term
  /\ \A s \in overflow_spawns : s.term < next_term

\* Shells on the way are different and have no place yet.
OnTheWay ==
  /\ \A s1, s2 \in pane_spawns : s1.term = s2.term => s1 = s2
  /\ \A s1, s2 \in overflow_spawns : s1.term = s2.term => s1 = s2
  /\ \A s1 \in pane_spawns, s2 \in overflow_spawns : s1.term # s2.term
  /\ \A s \in pane_spawns : ~Placed(s.term)
  /\ \A s \in overflow_spawns : ~Placed(s.term)

\* Every place of the grid and of overflow has another terminal, only tiles have one, and
\* panes that are held and are no worker's and not the focused one, and a running shell
\* has a place.
OffGrid(p) == p \in held /\ p # active_pane /\ \A w \in WorkerIds : worker_panes[w] # p
Homed ==
  /\ \A p \in Panes : items[p] # {} => p \in center \/ OffGrid(p)
  /\ \A p, q \in center : \A t \in items[p] : t \in items[q] => p = q
  /\ \A p \in center, w \in WorkerIds : overflow_view[w] \notin items[p]
  /\ \A v, w \in WorkerIds :
       overflow_view[v] = overflow_view[w] /\ overflow_view[v] # NoTerm => v = w
  /\ \A t \in alive : Placed(t)

\* What the types say of the terminals.
LEMMA TermTypes ==
  ASSUME TypeOK
  PROVE  /\ next_term \in Int /\ NoTerm < next_term /\ Terminals \subseteq Int
         /\ NoTerm \in Int /\ NoTerm \notin Terminals
         /\ next_term <= MaxTerminals => next_term \in Terminals
         /\ items \in [Panes -> SUBSET Terminals] /\ center \subseteq Panes /\ held \subseteq Panes
         /\ overflow_view \in [WorkerIds -> Terminals \cup {NoTerm}]
         /\ worker_panes \in [WorkerIds -> Panes \cup {NoPane}]
         /\ \A s \in pane_spawns : s.pane \in Panes /\ s.term \in Terminals
         /\ \A s \in overflow_spawns : s.id \in WorkerIds /\ s.term \in Terminals
         /\ \A c \in closes : c.pane \in Panes
         /\ next_pane <= MaxPanes => next_pane \in Panes
BY GroupAssumption
   DEF TypeOK, GroupAssumption, Panes, Terminals, NoTerm, PaneSpawns, OverflowSpawns, Closes

\* Each operation takes its new terminal from the unused ones.
LEMMA NextTermsFresh == TypeOK /\ TermsFresh /\ [Next]_vars => TermsFresh'
<1> SUFFICES ASSUME TypeOK, TermsFresh, [Next]_vars PROVE TermsFresh'
  OBVIOUS
<1> USE TermTypes DEF TermsFresh, outside, Use
<1>1. CASE SplitTile
  BY <1>1 DEF SplitTile, split_pane_with_command, spawn_terminal_into, overflow
<1>2. ASSUME NEW p \in Panes, FocusTile(p) PROVE TermsFresh'
  BY <1>2 DEF FocusTile, spawn_terminal_into, overflow
<1>3. ASSUME NEW p \in Panes, toggle_magnify(p) PROVE TermsFresh'
  BY <1>3 DEF toggle_magnify, shells, overflow
<1>4. ASSUME NEW p \in Panes, StartShell(p) PROVE TermsFresh'
  BY <1>4 DEF StartShell, spawn_terminal_into, overflow
<1>5. ASSUME NEW p \in Panes, StartWorker(p) PROVE TermsFresh'
  BY <1>5 DEF StartWorker, start_terminal_in_pane, spawn_terminal_into, overflow
<1>6. CASE DeferredSpawn
  BY <1>6 DEF DeferredSpawn, spawn_terminal_into, overflow
<1>7. ASSUME NEW s \in pane_spawns, ShellLands(s) PROVE TermsFresh'
  BY <1>7 DEF ShellLands, SpawnEnds, add_item, overflow
<1>8. ASSUME NEW s \in pane_spawns, ShellFails(s) PROVE TermsFresh'
  BY <1>8 DEF ShellFails, SpawnEnds, overflow
<1>9. ASSUME NEW p \in Panes, AddExternal(p) PROVE TermsFresh'
  BY <1>9 DEF AddExternal, add_item, overflow
<1>10. CASE handle_drop
  BY <1>10 DEF handle_drop, adopt_terminal, overflow
<1>11. ASSUME NEW p \in Panes, close_tile(p) PROVE TermsFresh'
  BY <1>11 DEF close_tile, shells, overflow
<1>12. ASSUME NEW t \in Terminals, ShellExits(t) PROVE TermsFresh'
  BY <1>12 DEF ShellExits, overflow
<1>13. ASSUME NEW c \in closes, CloseFinishes(c) PROVE TermsFresh'
  BY <1>13 DEF CloseFinishes, remove_tile, LastTile, overflow
<1>14. CASE GroupCloses
  BY <1>14 DEF GroupCloses, overflow
<1>15. ASSUME NEW par \in WorkerIds \cup {NoWorker}, SpawnWorker(par) PROVE TermsFresh'
  <2>1. CASE at_visible_cap
    BY <1>15, <2>1 DEF SpawnWorker, control_spawn, split_pane_with_command,
                       spawn_overflow_worker
  <2>2. CASE ~at_visible_cap
    BY <1>15, <2>2 DEF SpawnWorker, control_spawn, split_pane_with_command,
                       spawn_terminal_into
  <2> QED
    BY <2>1, <2>2
<1>16. ASSUME NEW s \in overflow_spawns, OverflowLands(s) PROVE TermsFresh'
  BY <1>16 DEF OverflowLands
<1>17. ASSUME NEW s \in overflow_spawns, OverflowFails(s) PROVE TermsFresh'
  BY <1>17 DEF OverflowFails, shells
<1>18. ASSUME NEW w \in WorkerIds, NEW st \in ReportStatuses, control_report(w, st)
       PROVE  TermsFresh'
  BY <1>18 DEF control_report, shells, overflow
<1>19. ASSUME NEW w \in WorkerIds, control_pause(w) \/ control_resume(w)
       PROVE  TermsFresh'
  BY <1>19 DEF control_pause, control_resume, Signal, shells, overflow
<1>20. ASSUME NEW W \in SUBSET WorkerIds, CloseWorkers(W) PROVE TermsFresh'
  BY <1>20 DEF CloseWorkers
<1>21. ASSUME NEW w \in WorkerIds, RestartOverflow(w) PROVE TermsFresh'
  <2>1. CASE at_visible_cap
    BY <1>21, <2>1 DEF RestartOverflow, control_spawn, control_spawn_refused,
                       split_pane_with_command, spawn_overflow_worker
  <2>2. CASE ~at_visible_cap
    BY <1>21, <2>2 DEF RestartOverflow, control_spawn, control_spawn_refused,
                       split_pane_with_command, spawn_terminal_into
  <2> QED
    BY <2>1, <2>2
<1>22. ASSUME NEW w \in WorkerIds, RestartVisible(w) PROVE TermsFresh'
  BY <1>22 DEF RestartVisible, shells, overflow
<1>23. ASSUME NEW r \in respawns, Respawn(r) PROVE TermsFresh'
  <2>1. CASE at_visible_cap
    BY <1>23, <2>1 DEF Respawn, control_spawn, control_spawn_refused,
                       split_pane_with_command, spawn_overflow_worker
  <2>2. CASE ~at_visible_cap
    BY <1>23, <2>2 DEF Respawn, control_spawn, control_spawn_refused,
                       split_pane_with_command, spawn_terminal_into
  <2> QED
    BY <2>1, <2>2
<1>24. ASSUME NEW w \in WorkerIds, FocusWorker(w) PROVE TermsFresh'
  BY <1>24 DEF FocusWorker, shells, overflow
<1>25. ASSUME NEW w \in WorkerIds, promote_worker(w) PROVE TermsFresh'
  BY <1>25 DEF promote_worker, TakeOverflow
<1>26. ASSUME NEW w \in WorkerIds, demote_worker(w) PROVE TermsFresh'
  BY <1>26 DEF demote_worker
<1>27. ASSUME NEW p \in Panes, HoldPane(p) PROVE TermsFresh'
  BY <1>27 DEF HoldPane, shells, overflow
<1>28. ASSUME NEW p \in Panes, LetGo(p) PROVE TermsFresh'
  BY <1>28 DEF LetGo, drop_pane, overflow
<1>29. ASSUME NEW p \in Panes, ConfirmCommand(p) PROVE TermsFresh'
  <2>1. CASE items[p] = {}
    BY <1>29, <2>1 DEF ConfirmCommand, start_terminal_in_pane, spawn_terminal_into
  <2>2. CASE items[p] # {} /\ at_visible_cap
    BY <1>29, <2>2 DEF ConfirmCommand, start_terminal_in_pane, needs_shell, drop_pane,
                       control_spawn, split_pane_with_command, spawn_overflow_worker
  <2>3. CASE items[p] # {} /\ ~at_visible_cap
    BY <1>29, <2>3 DEF ConfirmCommand, start_terminal_in_pane, needs_shell, drop_pane,
                       control_spawn, split_pane_with_command, spawn_terminal_into
  <2> QED
    BY <2>1, <2>2, <2>3
<1>30. ASSUME NEW p \in center \cup held, NEW q \in center \cup held, DropAstray(p, q)
       PROVE  TermsFresh'
  BY <1>30 DEF DropAstray, shells, overflow
<1>31. CASE UNCHANGED vars
  BY <1>31 DEF vars, grid, shells, metadata, overflow
<1> HIDE DEF TermsFresh
<1> QED
  BY <1>1, <1>2, <1>3, <1>4, <1>5, <1>6, <1>7, <1>8, <1>9, <1>10, <1>11, <1>12, <1>13,
     <1>14, <1>15, <1>16, <1>17, <1>18, <1>19, <1>20, <1>21, <1>22, <1>23, <1>24, <1>25,
     <1>26, <1>27, <1>28, <1>29, <1>30, <1>31
  DEF Next, GridStep, TaskStep, ControlStep, control_close, control_close_subtree,
      Subtree

\* A shell on the way lands once, or never.
LEMMA NextOnTheWay == TypeOK /\ TermsFresh /\ OnTheWay /\ [Next]_vars => OnTheWay'
<1> SUFFICES ASSUME TypeOK, TermsFresh, OnTheWay, [Next]_vars PROVE OnTheWay'
  OBVIOUS
<1> USE TermTypes DEF TermsFresh, OnTheWay, Placed, outside, Use
<1>1. CASE SplitTile
  BY <1>1 DEF SplitTile, split_pane_with_command, spawn_terminal_into, overflow
<1>2. ASSUME NEW p \in Panes, FocusTile(p) PROVE OnTheWay'
  BY <1>2 DEF FocusTile, spawn_terminal_into, overflow
<1>3. ASSUME NEW p \in Panes, toggle_magnify(p) PROVE OnTheWay'
  BY <1>3 DEF toggle_magnify, shells, overflow
<1>4. ASSUME NEW p \in Panes, StartShell(p) PROVE OnTheWay'
  BY <1>4 DEF StartShell, spawn_terminal_into, overflow
<1>5. ASSUME NEW p \in Panes, StartWorker(p) PROVE OnTheWay'
  BY <1>5 DEF StartWorker, start_terminal_in_pane, spawn_terminal_into, overflow
<1>6. CASE DeferredSpawn
  BY <1>6 DEF DeferredSpawn, spawn_terminal_into, overflow
<1>7. ASSUME NEW s \in pane_spawns, ShellLands(s) PROVE OnTheWay'
  BY <1>7 DEF ShellLands, SpawnEnds, add_item, overflow
<1>8. ASSUME NEW s \in pane_spawns, ShellFails(s) PROVE OnTheWay'
  BY <1>8 DEF ShellFails, SpawnEnds, overflow
<1>9. ASSUME NEW p \in Panes, AddExternal(p) PROVE OnTheWay'
  BY <1>9 DEF AddExternal, add_item, overflow
<1>10. CASE handle_drop
  BY <1>10 DEF handle_drop, adopt_terminal, overflow
<1>11. ASSUME NEW p \in Panes, close_tile(p) PROVE OnTheWay'
  BY <1>11 DEF close_tile, shells, overflow
<1>12. ASSUME NEW t \in Terminals, ShellExits(t) PROVE OnTheWay'
  BY <1>12 DEF ShellExits, overflow
<1>13. ASSUME NEW c \in closes, CloseFinishes(c) PROVE OnTheWay'
  BY <1>13 DEF CloseFinishes, remove_tile, LastTile, overflow
<1>14. CASE GroupCloses
  BY <1>14 DEF GroupCloses, overflow
<1>15. ASSUME NEW par \in WorkerIds \cup {NoWorker}, SpawnWorker(par) PROVE OnTheWay'
  <2>1. CASE at_visible_cap
    BY <1>15, <2>1 DEF SpawnWorker, control_spawn, split_pane_with_command,
                       spawn_overflow_worker
  <2>2. CASE ~at_visible_cap
    BY <1>15, <2>2 DEF SpawnWorker, control_spawn, split_pane_with_command,
                       spawn_terminal_into
  <2> QED
    BY <2>1, <2>2
<1>16. ASSUME NEW s \in overflow_spawns, OverflowLands(s) PROVE OnTheWay'
  BY <1>16 DEF OverflowLands
<1>17. ASSUME NEW s \in overflow_spawns, OverflowFails(s) PROVE OnTheWay'
  BY <1>17 DEF OverflowFails, shells
<1>18. ASSUME NEW w \in WorkerIds, NEW st \in ReportStatuses, control_report(w, st)
       PROVE  OnTheWay'
  BY <1>18 DEF control_report, shells, overflow
<1>19. ASSUME NEW w \in WorkerIds, control_pause(w) \/ control_resume(w) PROVE OnTheWay'
  BY <1>19 DEF control_pause, control_resume, Signal, shells, overflow
<1>20. ASSUME NEW W \in SUBSET WorkerIds, CloseWorkers(W) PROVE OnTheWay'
  BY <1>20 DEF CloseWorkers
<1>21. ASSUME NEW w \in WorkerIds, RestartOverflow(w) PROVE OnTheWay'
  <2>1. CASE at_visible_cap
    BY <1>21, <2>1 DEF RestartOverflow, control_spawn, control_spawn_refused,
                       split_pane_with_command, spawn_overflow_worker
  <2>2. CASE ~at_visible_cap
    BY <1>21, <2>2 DEF RestartOverflow, control_spawn, control_spawn_refused,
                       split_pane_with_command, spawn_terminal_into
  <2> QED
    BY <2>1, <2>2
<1>22. ASSUME NEW w \in WorkerIds, RestartVisible(w) PROVE OnTheWay'
  BY <1>22 DEF RestartVisible, shells, overflow
<1>23. ASSUME NEW r \in respawns, Respawn(r) PROVE OnTheWay'
  <2>1. CASE at_visible_cap
    BY <1>23, <2>1 DEF Respawn, control_spawn, control_spawn_refused,
                       split_pane_with_command, spawn_overflow_worker
  <2>2. CASE ~at_visible_cap
    BY <1>23, <2>2 DEF Respawn, control_spawn, control_spawn_refused,
                       split_pane_with_command, spawn_terminal_into
  <2> QED
    BY <2>1, <2>2
<1>24. ASSUME NEW w \in WorkerIds, FocusWorker(w) PROVE OnTheWay'
  BY <1>24 DEF FocusWorker, shells, overflow
<1>25. ASSUME NEW w \in WorkerIds, promote_worker(w) PROVE OnTheWay'
  BY <1>25 DEF promote_worker, TakeOverflow
<1>26. ASSUME NEW w \in WorkerIds, demote_worker(w) PROVE OnTheWay'
  BY <1>26 DEF demote_worker
<1>27. ASSUME NEW p \in Panes, HoldPane(p) PROVE OnTheWay'
  BY <1>27 DEF HoldPane, shells, overflow
<1>28. ASSUME NEW p \in Panes, LetGo(p) PROVE OnTheWay'
  BY <1>28 DEF LetGo, drop_pane, overflow
<1>29. ASSUME NEW p \in Panes, ConfirmCommand(p) PROVE OnTheWay'
  <2>1. CASE items[p] = {}
    BY <1>29, <2>1 DEF ConfirmCommand, start_terminal_in_pane, spawn_terminal_into
  <2>2. CASE items[p] # {} /\ at_visible_cap
    BY <1>29, <2>2 DEF ConfirmCommand, start_terminal_in_pane, needs_shell, drop_pane,
                       control_spawn, split_pane_with_command, spawn_overflow_worker
  <2>3. CASE items[p] # {} /\ ~at_visible_cap
    BY <1>29, <2>3 DEF ConfirmCommand, start_terminal_in_pane, needs_shell, drop_pane,
                       control_spawn, split_pane_with_command, spawn_terminal_into
  <2> QED
    BY <2>1, <2>2, <2>3
<1>30. ASSUME NEW p \in center \cup held, NEW q \in center \cup held, DropAstray(p, q)
       PROVE  OnTheWay'
  BY <1>30 DEF DropAstray, shells, overflow
<1>31. CASE UNCHANGED vars
  BY <1>31 DEF vars, grid, shells, metadata, overflow
<1> HIDE DEF TermsFresh, OnTheWay, Placed
<1> QED
  BY <1>1, <1>2, <1>3, <1>4, <1>5, <1>6, <1>7, <1>8, <1>9, <1>10, <1>11, <1>12, <1>13,
     <1>14, <1>15, <1>16, <1>17, <1>18, <1>19, <1>20, <1>21, <1>22, <1>23, <1>24, <1>25,
     <1>26, <1>27, <1>28, <1>29, <1>30, <1>31
  DEF Next, GridStep, TaskStep, ControlStep, control_close, control_close_subtree,
      Subtree

\* A use of a pane outside the grid is never forgotten.
LEMMA StrayedStays == ASSUME TypeOK, [Next]_vars, ~strayed' PROVE ~strayed
<1> SUFFICES ASSUME strayed PROVE FALSE
  OBVIOUS
<1> USE DEF outside, Use
<1>1. CASE UNCHANGED strayed
  BY <1>1
<1>2. ASSUME NEW s \in pane_spawns, ShellLands(s) PROVE FALSE
  BY <1>2 DEF ShellLands
<1>3. ASSUME NEW c \in closes, CloseFinishes(c) PROVE FALSE
  BY <1>3 DEF CloseFinishes
<1>4. ASSUME NEW p \in Panes, ConfirmCommand(p) PROVE FALSE
  BY <1>4 DEF ConfirmCommand
<1>5. ASSUME NEW p \in center \cup held, NEW q \in center \cup held, DropAstray(p, q)
      PROVE  FALSE
  BY <1>5 DEF DropAstray
<1>6. GridStep => \/ UNCHANGED strayed \/ (\E p \in Panes : ConfirmCommand(p))
                  \/ \E p, q \in center \cup held : DropAstray(p, q)
  BY DEF GridStep, SplitTile, DeferredSpawn, handle_drop, GroupCloses, FocusTile,
         toggle_magnify, StartShell, StartWorker, AddExternal, close_tile, HoldPane, LetGo,
         ShellExits
<1>7. TaskStep => \/ UNCHANGED strayed \/ (\E s \in pane_spawns : ShellLands(s))
                  \/ \E c \in closes : CloseFinishes(c)
  BY DEF TaskStep, ShellFails, OverflowLands, OverflowFails, Respawn
<1>8. ControlStep => UNCHANGED strayed
  BY DEF ControlStep, SpawnWorker, control_report, control_pause, control_resume, Signal,
         control_close, control_close_subtree, CloseWorkers, RestartOverflow, RestartVisible,
         FocusWorker, promote_worker, demote_worker
<1>9. UNCHANGED vars => UNCHANGED strayed
  BY DEF vars
<1> QED
  BY <1>1, <1>2, <1>3, <1>4, <1>5, <1>6, <1>7, <1>8, <1>9 DEF Next

\* A terminal that moves leaves the place where it was.
LEMMA NextHomed ==
  /\ TypeOK /\ Fresh /\ Bound /\ OneTerminalPerTile /\ TermsFresh /\ OnTheWay
  /\ (~strayed => Homed) /\ [Next]_vars
  => (~strayed' => Homed')
<1> SUFFICES ASSUME TypeOK, Fresh, Bound, OneTerminalPerTile, TermsFresh, OnTheWay,
                    ~strayed => Homed, [Next]_vars, ~strayed'
             PROVE  Homed'
  OBVIOUS
<1>a. ~strayed
  BY StrayedStays
<1>b. Homed
  BY <1>a
<1>c. /\ next_pane \notin center \cup held /\ active_pane \in Panes
      /\ \A p \in Panes : p = next_pane => items[p] = {}
  BY <1>b, IdTypes DEF Fresh, Homed, OffGrid, TypeOK
<1> USE TermTypes, <1>b, <1>c DEF Homed, OffGrid, Placed, outside, Use
<1>1. CASE SplitTile
  BY <1>1 DEF SplitTile, split_pane_with_command, spawn_terminal_into, overflow
<1>2. ASSUME NEW p \in Panes, FocusTile(p) PROVE Homed'
  BY <1>2 DEF FocusTile, spawn_terminal_into, overflow
<1>3. ASSUME NEW p \in Panes, toggle_magnify(p) PROVE Homed'
  BY <1>3 DEF toggle_magnify, shells, overflow
<1>4. ASSUME NEW p \in Panes, StartShell(p) PROVE Homed'
  BY <1>4 DEF StartShell, spawn_terminal_into, grid, overflow
<1>5. ASSUME NEW p \in Panes, StartWorker(p) PROVE Homed'
  BY <1>5 DEF StartWorker, start_terminal_in_pane, spawn_terminal_into, grid, overflow
<1>6. CASE DeferredSpawn
  BY <1>6 DEF DeferredSpawn, spawn_terminal_into, grid, overflow
<1>7. ASSUME NEW s \in pane_spawns, ShellLands(s) PROVE Homed'
  <2>1. ~Placed(s.term)
    BY IdTypes DEF Fresh, OnTheWay
  <2> QED
    BY <1>7, <2>1 DEF ShellLands, SpawnEnds, add_item, grid, overflow
<1>8. ASSUME NEW s \in pane_spawns, ShellFails(s) PROVE Homed'
  BY <1>8 DEF ShellFails, SpawnEnds, grid, overflow
<1>9. ASSUME NEW p \in Panes, AddExternal(p) PROVE Homed'
  <2>1. ~Placed(next_term)
    BY IdTypes DEF Fresh, TermsFresh
  <2> QED
    BY <1>9, <2>1 DEF AddExternal, add_item, grid, overflow
<1>10. CASE handle_drop
  <2>1. ~Placed(next_term)
    BY IdTypes DEF Fresh, TermsFresh
  <2> QED
    BY <1>10, <2>1 DEF handle_drop, adopt_terminal, overflow
<1>11. ASSUME NEW p \in Panes, close_tile(p) PROVE Homed'
  BY <1>11 DEF close_tile, grid, shells, overflow
<1>12. ASSUME NEW t \in Terminals, ShellExits(t) PROVE Homed'
  BY <1>12 DEF ShellExits, grid, overflow
<1>13. ASSUME NEW c \in closes, CloseFinishes(c) PROVE Homed'
  <2>1. CASE pane_exists(c.pane) /\ c.term \in items[c.pane]
    <3>1. c.pane \in center /\ center \ {c.pane} \subseteq center' /\ UNCHANGED held
      BY <1>13, <2>1 DEF CloseFinishes, remove_tile, grid
    <3>2. /\ items' = [items EXCEPT ![c.pane] = @ \ {c.term}]
          /\ alive' = IF Elsewhere(c.term, c.pane) THEN alive ELSE alive \ {c.term}
          /\ center' \subseteq center /\ UNCHANGED overflow_view
      BY <1>13, <2>1 DEF CloseFinishes, remove_tile, grid, overflow
    <3>3. items[c.pane] = {c.term} \/ UNCHANGED center
      BY <1>13, <2>1 DEF CloseFinishes, grid
    <3>4. \A p \in Panes : items'[p] # {} => (p \in center \/ OffGrid(p))'
      <4>1. \A w \in WorkerIds : worker_panes'[w] \in {NoPane, worker_panes[w]}
        BY <1>13, <2>1 DEF CloseFinishes, remove_tile
      <4>2. active_pane' \in {active_pane} \cup center'
        BY <1>13, <2>1 DEF CloseFinishes, remove_tile, grid
      <4> QED
        BY <3>1, <3>2, <3>3, <4>1, <4>2, Ids
    <3>5. ASSUME NEW t \in alive' PROVE Placed(t)'
      <4>1. CASE t = c.term
        BY <3>2, <4>1 DEF Elsewhere
      <4>2. CASE t # c.term
        BY <3>2, <4>2
      <4> QED
        BY <4>1, <4>2
    <3> QED
      BY <3>2, <3>4, <3>5
  <2>2. CASE ~(pane_exists(c.pane) /\ c.term \in items[c.pane])
    BY <1>13, <2>2 DEF CloseFinishes, grid, overflow
  <2> QED
    BY <2>1, <2>2
<1>14. CASE GroupCloses
  BY <1>14 DEF GroupCloses, grid, overflow
<1>15. ASSUME NEW par \in WorkerIds \cup {NoWorker}, SpawnWorker(par) PROVE Homed'
  <2>1. CASE at_visible_cap
    BY <1>15, <2>1 DEF SpawnWorker, control_spawn, split_pane_with_command,
                       spawn_overflow_worker, grid
  <2>2. CASE ~at_visible_cap
    BY <1>15, <2>2 DEF SpawnWorker, control_spawn, split_pane_with_command,
                       spawn_terminal_into, grid
  <2> QED
    BY <2>1, <2>2
<1>16. ASSUME NEW s \in overflow_spawns, OverflowLands(s) PROVE Homed'
  <2>1. ~Placed(s.term) /\ overflow_view[s.id] = NoTerm
    BY IdTypes DEF Fresh, Unused, OnTheWay
  <2>2. /\ overflow_view' = [overflow_view EXCEPT ![s.id] = s.term]
        /\ alive' = alive \cup {s.term}
        /\ UNCHANGED <<center, items, held, active_pane, worker_panes>>
    BY <1>16 DEF OverflowLands, grid
  <2>3. s.id \in WorkerIds /\ s.term \in Terminals
    OBVIOUS
  <2>4. \A t \in alive' : Placed(t)'
    <3> TAKE t \in alive'
    <3>1. CASE t = s.term
      BY <2>2, <2>3, <3>1
    <3>2. CASE t # s.term
      <4>1. Placed(t)
        BY <2>2, <3>2
      <4>2. ASSUME NEW v \in WorkerIds, overflow_view[v] = t, t = NoTerm PROVE FALSE
        BY <2>2, <3>2, <4>2 DEF TypeOK
      <4> QED
        BY <2>1, <2>2, <2>3, <4>1, <4>2
    <3> QED
      BY <3>1, <3>2
  <2> QED
    BY <2>1, <2>2, <2>3, <2>4
<1>17. ASSUME NEW s \in overflow_spawns, OverflowFails(s) PROVE Homed'
  BY <1>17 DEF OverflowFails, grid, shells
<1>18. ASSUME NEW w \in WorkerIds, NEW st \in ReportStatuses, control_report(w, st)
       PROVE  Homed'
  BY <1>18 DEF control_report, grid, shells, overflow
<1>19. ASSUME NEW w \in WorkerIds, control_pause(w) \/ control_resume(w) PROVE Homed'
  BY <1>19 DEF control_pause, control_resume, Signal, grid, shells, overflow
<1>20. ASSUME NEW W \in SUBSET WorkerIds, CloseWorkers(W) PROVE Homed'
  <2>1. UNCHANGED <<center, active_pane, items, held>>
    BY <1>20 DEF CloseWorkers, grid
  <2>2. \A v \in WorkerIds : /\ worker_panes'[v] \in {worker_panes[v], NoPane}
                            /\ overflow_view'[v] \in {overflow_view[v], NoTerm}
    BY <1>20 DEF CloseWorkers
  <2>3. \A t \in alive' : Placed(t)'
    BY <1>20, <2>1 DEF CloseWorkers, Ended
  <2> QED
    BY <2>1, <2>2, <2>3, Ids
<1>21. ASSUME NEW w \in WorkerIds, RestartOverflow(w) PROVE Homed'
  <2>1. /\ UNCHANGED <<items, held>>
        /\ overflow_view' = [overflow_view EXCEPT ![w] = NoTerm]
        /\ alive' = alive \ Ended({overflow_view[w]})
    BY <1>21 DEF RestartOverflow
  <2>2. \A v \in WorkerIds : overflow_view'[v] \in {overflow_view[v], NoTerm}
    BY <2>1
  <2>3. \A t \in alive' : Placed(t)'
    BY <2>1 DEF Ended
  <2>4. CASE UNCHANGED <<center, active_pane>>
             /\ worker_panes' = [worker_panes EXCEPT ![w] = NoPane]
    <3>1. \A v \in WorkerIds : worker_panes'[v] \in {worker_panes[v], NoPane}
      BY <2>4
    <3>c1. \A q \in Panes : items'[q] # {} => (q \in center \/ OffGrid(q))'
      BY <2>1, <2>2, <2>3, <2>4, <3>1, Ids
    <3>c2. \A q, r \in center' : \A u \in items'[q] : u \in items'[r] => q = r
      BY <2>1, <2>2, <2>3, <2>4, <3>1
    <3>c3. \A q \in center', v \in WorkerIds : overflow_view'[v] \notin items'[q]
      BY <2>1, <2>2, <2>3, <2>4, <3>1
    <3>c4. \A u, v \in WorkerIds :
             overflow_view'[u] = overflow_view'[v] /\ overflow_view'[u] # NoTerm => u = v
      BY <2>1, <2>2, <2>3, <2>4, <3>1
    <3>c5. \A t \in alive' : Placed(t)'
      BY <2>1, <2>2, <2>3, <2>4, <3>1
    <3> QED
      BY <3>c1, <3>c2, <3>c3, <3>c4, <3>c5
  <2>5. CASE /\ next_pane \in Panes /\ center' = center \cup {next_pane}
             /\ active_pane' = next_pane
             /\ worker_panes' =
                  [[worker_panes EXCEPT ![w] = NoPane] EXCEPT ![next_pane] = next_pane]
    <3>1. \A v \in WorkerIds : worker_panes'[v] \in {worker_panes[v], NoPane, next_pane}
      BY <2>5
    <3>c1. \A q \in Panes : items'[q] # {} => (q \in center \/ OffGrid(q))'
      BY <2>1, <2>2, <2>3, <2>5, <3>1, Ids
    <3>c2. \A q, r \in center' : \A u \in items'[q] : u \in items'[r] => q = r
      BY <2>1, <2>2, <2>3, <2>5, <3>1
    <3>c3. \A q \in center', v \in WorkerIds : overflow_view'[v] \notin items'[q]
      BY <2>1, <2>2, <2>3, <2>5, <3>1
    <3>c4. \A u, v \in WorkerIds :
             overflow_view'[u] = overflow_view'[v] /\ overflow_view'[u] # NoTerm => u = v
      BY <2>1, <2>2, <2>3, <2>5, <3>1
    <3>c5. \A t \in alive' : Placed(t)'
      BY <2>1, <2>2, <2>3, <2>5, <3>1
    <3> QED
      BY <3>c1, <3>c2, <3>c3, <3>c4, <3>c5
  <2> QED
    BY <1>21, <2>4, <2>5 DEF RestartOverflow, control_spawn, control_spawn_refused,
                             split_pane_with_command, grid
<1>22. ASSUME NEW w \in WorkerIds, RestartVisible(w) PROVE Homed'
  BY <1>22 DEF RestartVisible, grid, shells, overflow
<1>23. ASSUME NEW r \in respawns, Respawn(r) PROVE Homed'
  <2>1. CASE at_visible_cap
    BY <1>23, <2>1 DEF Respawn, control_spawn, control_spawn_refused,
                       split_pane_with_command, spawn_overflow_worker, grid
  <2>2. CASE ~at_visible_cap
    BY <1>23, <2>2 DEF Respawn, control_spawn, control_spawn_refused,
                       split_pane_with_command, spawn_terminal_into, grid
  <2> QED
    BY <2>1, <2>2
<1>24. ASSUME NEW w \in WorkerIds, FocusWorker(w) PROVE Homed'
  BY <1>24 DEF FocusWorker, shells, overflow
<1>25. ASSUME NEW w \in WorkerIds, promote_worker(w) PROVE Homed'
  BY <1>25 DEF promote_worker, TakeOverflow
<1>26. ASSUME NEW w \in WorkerIds, demote_worker(w) PROVE Homed'
  <2>1. worker_panes[w] \in Panes /\ overflow_view[w] = NoTerm
    BY <1>26 DEF demote_worker, Bound
  <2>2. PICK t \in items[worker_panes[w]] :
          overflow_view' = [overflow_view EXCEPT ![w] = t]
    BY <1>26 DEF demote_worker
  <2>3. items[worker_panes[w]] = {t}
    BY <2>1, <2>2 DEF OneTerminalPerTile
  <2>4. /\ center' = center \ {worker_panes[w]} /\ UNCHANGED <<alive, held>>
        /\ \/ worker_panes[w] \in held \cup {active_pane'} /\ UNCHANGED items
           \/ items' = [items EXCEPT ![worker_panes[w]] = {}]
    BY <1>26 DEF demote_worker
  <2>5. worker_panes[w] \in center
    BY <2>1, <2>2
  <2>6. worker_panes[w] # active_pane'
    BY <1>26, <2>5 DEF demote_worker
  <2>7. \A q \in Panes : items'[q] # {} => (q \in center \/ OffGrid(q))'
    <3>1. /\ worker_panes' = [x \in WorkerIds |-> IF worker_panes[x] = worker_panes[w] THEN NoPane
                                                 ELSE worker_panes[x]]
          /\ active_pane' \in center'
      BY <1>26, <2>4, <2>5 DEF demote_worker
    <3> QED
      BY <2>1, <2>4, <2>6, <3>1, Ids
  <2>8. \A q, r \in center' : \A u \in items'[q] : u \in items'[r] => q = r
    BY <2>1, <2>4
  <2>9. \A q \in center', v \in WorkerIds : overflow_view'[v] \notin items'[q]
    BY <2>1, <2>2, <2>3, <2>4, <2>5
  <2>10. \A u, v \in WorkerIds :
           overflow_view'[u] = overflow_view'[v] /\ overflow_view'[u] # NoTerm => u = v
    BY <2>1, <2>2, <2>5
  <2>11. ASSUME NEW u \in alive' PROVE Placed(u)'
    <3>1. u \in Terminals /\ Placed(u)
      BY <2>4 DEF TypeOK
    <3>2. CASE \E q \in Panes : u \in items[q]
      <4>1. PICK q \in Panes : u \in items[q]
        BY <3>2
      <4>2. CASE q = worker_panes[w]
        BY <2>2, <2>3, <4>1, <4>2
      <4>3. CASE q # worker_panes[w]
        BY <2>1, <2>4, <4>1, <4>3
      <4> QED
        BY <4>2, <4>3
    <3>3. CASE \E v \in WorkerIds : overflow_view[v] = u
      <4>1. PICK v \in WorkerIds : overflow_view[v] = u
        BY <3>3
      <4>2. v # w
        BY <2>1, <3>1, <4>1
      <4> QED
        BY <2>2, <4>1, <4>2
    <3> QED
      BY <3>1, <3>2, <3>3
  <2> QED
    BY <2>7, <2>8, <2>9, <2>10, <2>11
<1>27. ASSUME NEW p \in Panes, HoldPane(p) PROVE Homed'
  BY <1>27 DEF HoldPane, grid, shells, overflow
<1>d. ASSUME NEW p \in Panes, drop_pane(p)
      PROVE  /\ held' = held \ {p} /\ \A q \in Panes : items'[q] \subseteq items[q]
             /\ items'[p] # {} => p \in center
             /\ \A t \in alive' : \/ \E q \in Panes : t \in items'[q]
                                 \/ \E w \in WorkerIds : overflow_view[w] = t
  <2>1. CASE in_use(p)
    BY <1>d, <2>1 DEF drop_pane, in_use
  <2>2. CASE ~in_use(p)
    BY <1>d, <2>2 DEF drop_pane, Elsewhere
  <2> QED
    BY <2>1, <2>2
<1>28. ASSUME NEW p \in Panes, LetGo(p) PROVE Homed'
  <2>1. UNCHANGED <<center, active_pane, overflow_view, worker_panes>> /\ drop_pane(p)
    BY <1>28 DEF LetGo, grid, overflow
  <2>c1. \A q \in Panes : items'[q] # {} => (q \in center \/ OffGrid(q))'
    BY <2>1, <1>d, Ids
  <2>c2. \A q, r \in center' : \A u \in items'[q] : u \in items'[r] => q = r
    BY <2>1, <1>d
  <2>c3. \A q \in center', v \in WorkerIds : overflow_view'[v] \notin items'[q]
    BY <2>1, <1>d
  <2>c4. \A u, v \in WorkerIds :
           overflow_view'[u] = overflow_view'[v] /\ overflow_view'[u] # NoTerm => u = v
    BY <2>1, <1>d
  <2>c5. \A t \in alive' : Placed(t)'
    BY <2>1, <1>d
  <2> QED
    BY <2>c1, <2>c2, <2>c3, <2>c4, <2>c5
<1>29. ASSUME NEW p \in Panes, ConfirmCommand(p) PROVE Homed'
  <2>1. CASE items[p] = {}
    BY <1>29, <2>1 DEF ConfirmCommand, start_terminal_in_pane, grid
  <2>2. CASE items[p] # {} /\ at_visible_cap
    <3>1. UNCHANGED <<center, active_pane, overflow_view, worker_panes>> /\ drop_pane(p)
      BY <1>29, <2>2 DEF ConfirmCommand, start_terminal_in_pane, needs_shell, control_spawn,
                         split_pane_with_command, grid
    <3>c1. \A q \in Panes : items'[q] # {} => (q \in center \/ OffGrid(q))'
      BY <3>1, <1>d, Ids
    <3>c2. \A q, r \in center' : \A u \in items'[q] : u \in items'[r] => q = r
      BY <3>1, <1>d
    <3>c3. \A q \in center', v \in WorkerIds : overflow_view'[v] \notin items'[q]
      BY <3>1, <1>d
    <3>c4. \A u, v \in WorkerIds :
             overflow_view'[u] = overflow_view'[v] /\ overflow_view'[u] # NoTerm => u = v
      BY <3>1, <1>d
    <3>c5. \A t \in alive' : Placed(t)'
      BY <3>1, <1>d
    <3> QED
      BY <3>c1, <3>c2, <3>c3, <3>c4, <3>c5
  <2>3. CASE items[p] # {} /\ ~at_visible_cap
    <3>1. /\ next_pane \in Panes /\ center' = center \cup {next_pane} /\ active_pane' = next_pane
          /\ worker_panes' = [worker_panes EXCEPT ![next_pane] = next_pane]
          /\ UNCHANGED overflow_view /\ drop_pane(p)
      BY <1>29, <2>3 DEF ConfirmCommand, start_terminal_in_pane, needs_shell, control_spawn,
                         split_pane_with_command
    <3>c1. \A q \in Panes : items'[q] # {} => (q \in center \/ OffGrid(q))'
      BY <3>1, <1>d, Ids
    <3>c2. \A q, r \in center' : \A u \in items'[q] : u \in items'[r] => q = r
      BY <3>1, <1>d
    <3>c3. \A q \in center', v \in WorkerIds : overflow_view'[v] \notin items'[q]
      BY <3>1, <1>d
    <3>c4. \A u, v \in WorkerIds :
             overflow_view'[u] = overflow_view'[v] /\ overflow_view'[u] # NoTerm => u = v
      BY <3>1, <1>d
    <3>c5. \A t \in alive' : Placed(t)'
      BY <3>1, <1>d
    <3> QED
      BY <3>c1, <3>c2, <3>c3, <3>c4, <3>c5
  <2> QED
    BY <2>1, <2>2, <2>3
<1>30. ASSUME NEW p \in center \cup held, NEW q \in center \cup held, DropAstray(p, q)
       PROVE  Homed'
  BY <1>30 DEF DropAstray, shells, overflow
<1>31. CASE UNCHANGED vars
  BY <1>31 DEF vars, grid, shells, metadata, overflow
<1> HIDE DEF Homed, Placed
<1> QED
  BY <1>1, <1>2, <1>3, <1>4, <1>5, <1>6, <1>7, <1>8, <1>9, <1>10, <1>11, <1>12, <1>13,
     <1>14, <1>15, <1>16, <1>17, <1>18, <1>19, <1>20, <1>21, <1>22, <1>23, <1>24, <1>25,
     <1>26, <1>27, <1>28, <1>29, <1>30, <1>31
  DEF Next, GridStep, TaskStep, ControlStep, control_close, control_close_subtree,
      Subtree

-----------------------------------------------------------------------------
(* The theorems *)

\* The inductive invariant.
IInv ==
  /\ TypeOK /\ OneTerminalPerTile
  /\ Fresh /\ Bound /\ EmptyIsOwn /\ WorkerHome /\ FocusInGrid
  /\ TermsFresh /\ OnTheWay /\ (~strayed => Homed)

LEMMA InitIInv == Init => IInv
<1> SUFFICES ASSUME Init PROVE IInv
  OBVIOUS
<1>1. TypeOK
  BY InitTypeOK
<1>2. OneTerminalPerTile /\ EmptyIsOwn /\ WorkerHome /\ FocusInGrid /\ Bound
  BY <1>1, IdTypes
     DEF Init, OneTerminalPerTile, EmptyIsOwn, WorkerHome, FocusInGrid, Bound
<1>3. PICK saved \in [1 .. RestoredOverflow -> WorkerIds \cup {NoWorker}] :
        overflow_spawns = {[id |-> MaxPanes + k, term |-> k + 1, parent |-> saved[k]] :
                             k \in 1 .. RestoredOverflow}
  BY DEF Init
<1>4. \A s \in overflow_spawns : \E k \in 1 .. RestoredOverflow :
        /\ s = [id |-> MaxPanes + k, term |-> k + 1, parent |-> saved[k]]
        /\ s.id = MaxPanes + k /\ s.term = k + 1
  BY <1>3
<1>5. \A s1, s2 \in overflow_spawns : s1.id = s2.id \/ s1.term = s2.term => s1 = s2
  BY <1>4, GroupAssumption DEF GroupAssumption
<1>6. \A s \in overflow_spawns : /\ s.id \notin Panes /\ s.id < next_overflow_id
                                 /\ s.id \in WorkerIds
                                 /\ 1 < s.term /\ s.term < next_term
  BY <1>4, GroupAssumption
     DEF Init, Restored, GroupAssumption, Panes, WorkerIds, OverflowBase
<1>7. Fresh
  <2>1. \A p \in center \cup held \cup {active_pane} : p < next_pane
    BY GroupAssumption DEF Init, Restored, GroupAssumption
  <2>2. \A w \in WorkerIds : Unused(w) /\ worker_panes[w] < next_pane
    BY IdTypes, <1>1 DEF Init, Unused
  <2> QED
    BY <1>5, <1>6, <2>1, <2>2, Ids DEF Fresh
<1>8. \A p \in Panes : items[p] = {}
  BY DEF Init
<1>9. \A w \in WorkerIds : overflow_view[w] = NoTerm
  BY DEF Init
<1>10. \A s \in pane_spawns : s = [pane |-> active_pane, term |-> 1] /\ next_term > 1
  BY GroupAssumption DEF Init, Restored, GroupAssumption
<1>11. TermsFresh
  BY <1>1, <1>6, <1>8, <1>9, <1>10, TermTypes DEF TermsFresh
<1>12. \A s \in pane_spawns \cup overflow_spawns : s.term # NoTerm
  BY <1>1, TermTypes
<1>13. OnTheWay
  BY <1>5, <1>6, <1>8, <1>9, <1>10, <1>12 DEF OnTheWay, Placed
<1>14. Homed
  <2>1. alive = {}
    BY DEF Init
  <2> QED
    BY <1>1, <1>8, <1>9, <2>1, TermTypes DEF Homed
<1> QED
  BY <1>1, <1>2, <1>7, <1>11, <1>13, <1>14 DEF IInv

LEMMA NextIInv == IInv /\ [Next]_vars => IInv'
BY NextTypeOK, NextOneTerminal, NextFresh, NextBound, NextEmptyIsOwn, NextWorkerHome,
   NextFocusInGrid, NextTermsFresh, NextOnTheWay, NextHomed DEF IInv

\* The strengthened invariant holds of every group.
THEOREM Inductive == Spec => []IInv
BY InitIInv, NextIInv, PTL DEF Spec

\* In an open group a worker is on the grid or in overflow, never both, in a tile of the
\* grid that is nobody else's, whatever was promoted, demoted, restarted or closed.
THEOREM WorkersHaveOneHome == Spec => []WorkerHome
<1>1. IInv => WorkerHome
  BY DEF IInv
<1> QED
  BY <1>1, Inductive, PTL

\* Focus and magnification stay on tiles of the grid until the group closes.
THEOREM FocusStaysInGrid == Spec => []FocusInGrid
<1>1. IInv => FocusInGrid
  BY DEF IInv
<1> QED
  BY <1>1, Inductive, PTL

\* No terminal is duplicated or stranded until a pane outside the grid is used: each one
\* is in at most one tile of the grid or overflow entry, and every running shell is in
\* one, or in a pane that a dialog or a drag holds.
THEOREM TerminalsHaveOneHome == Spec => []OneHome
<1>1. IInv => OneHome
  <2> SUFFICES ASSUME IInv, ~strayed PROVE OneHome
    BY DEF OneHome
  <2> USE DEF IInv, Homed, OffGrid
  <2>1. ASSUME NEW t \in Terminals, NEW h1 \in Homes(t), NEW h2 \in Homes(t)
        PROVE  h1 = h2
    <3>1. \A h \in Homes(t) :
            \/ h \in center /\ t \in items[h]
            \/ \E w \in WorkerIds : h = MaxPanes + w /\ overflow_view[w] = t
      BY DEF Homes
    <3>2. t # NoTerm
      BY TermTypes
    <3> QED
      BY <2>1, <3>1, <3>2
  <2>2. \A t \in alive : Homes(t) # {} \/ \E p \in held : t \in items[p]
    BY DEF Homes, Placed
  <2> QED
    BY <2>1, <2>2 DEF OneHome
<1> QED
  BY <1>1, Inductive, PTL

(***************************************************************************)
(* Mission Control shows every worker of a terminal group, however deep    *)
(* workers spawn workers and whichever of them are closed, restarted,      *)
(* promoted or demoted.                                                    *)
(*                                                                         *)
(* control_tree reaches a worker from a root along parents, so it would    *)
(* miss workers that are each other's ancestors.  There are none because a *)
(* worker's id is handed out after its parent's: Ranked says so with a     *)
(* rank for every id, Parents says that nobody waits for an id that has    *)
(* not been handed out.  Both end when somebody names a parent too soon,   *)
(* a caller of control_spawn or the layout that was restored: foretold.    *)
(***************************************************************************)

-----------------------------------------------------------------------------
(* Parents are older *)

\* The id has been handed out.
Old(w) == IF w \in Panes THEN w < next_pane ELSE w < next_overflow_id

\* Only such an id is a parent, of a worker or of one that is to be spawned again.
Parents ==
  /\ \A w \in WorkerIds : ~Old(w) => parent[w] = NoWorker
  /\ \A w \in WorkerIds : parent[w] # NoWorker => Old(parent[w])
  /\ \A s \in overflow_spawns : s.parent # NoWorker => Old(s.parent)
  /\ \A c \in closes : c.parent # NoWorker => Old(c.parent)
  /\ \A r \in respawns : r.parent # NoWorker => Old(r.parent)

\* f gives every worker, registered or on its way to overflow, a rank above its parent's.
IsRank(f) ==
  /\ f \in [WorkerIds -> Nat]
  /\ \A w \in WorkerIds : parent[w] # NoWorker => f[parent[w]] < f[w]
  /\ \A s \in overflow_spawns : s.parent # NoWorker => f[s.parent] < f[s.id]

\* Parents come before children in some order, so the chain of parents ends.
Ranked == \E f : IsRank(f)

\* What the types say of parents.
LEMMA ParentTypes ==
  ASSUME TypeOK
  PROVE  /\ parent \in [WorkerIds -> WorkerIds \cup {NoWorker}] /\ NoWorker \notin WorkerIds
         /\ \A s \in overflow_spawns : s.id \in WorkerIds /\ s.parent \in WorkerIds \cup {NoWorker}
         /\ \A c \in closes : c.parent \in WorkerIds \cup {NoWorker}
         /\ \A r \in respawns : r.parent \in WorkerIds \cup {NoWorker}
BY Ids DEF TypeOK, OverflowSpawns, Closes, Respawns

\* Whoever is named a parent and does not set foretold has been handed out.
LEMMA NamedIsOld ==
  ASSUME TypeOK, NEW par \in WorkerIds \cup {NoWorker}, Name(par), ~foretold'
  PROVE  par # NoWorker => Old(par)
<1>1. Issued(par, next_pane, next_overflow_id)
  BY DEF Name
<1>2. \A n \in Int : OverflowBase <= n => n \notin Panes
  BY GroupAssumption DEF GroupAssumption, OverflowBase, Panes
<1> QED
  BY <1>1, <1>2, IdTypes, GroupAssumption
  DEF Issued, Old, NoWorker, OverflowBase, Panes, GroupAssumption, TypeOK

\* foretold is never reset.
LEMMA ForetoldStays == ASSUME TypeOK, [Next]_vars, ~foretold' PROVE ~foretold
<1> SUFFICES ASSUME foretold PROVE FALSE
  OBVIOUS
<1> USE DEF outside
<1>1. CASE UNCHANGED foretold
  BY <1>1
<1>2. ASSUME NEW par \in WorkerIds \cup {NoWorker}, SpawnWorker(par) PROVE FALSE
  BY <1>2 DEF SpawnWorker, Name
<1>3. GridStep => UNCHANGED foretold
  BY DEF GridStep, SplitTile, DeferredSpawn, handle_drop, GroupCloses, FocusTile,
         toggle_magnify, StartShell, StartWorker, AddExternal, close_tile, HoldPane, LetGo,
         ShellExits, ConfirmCommand, DropAstray
<1>4. TaskStep => UNCHANGED foretold
  BY DEF TaskStep, ShellLands, ShellFails, OverflowLands, OverflowFails, CloseFinishes, Respawn
<1>5. ControlStep => \/ UNCHANGED foretold
                     \/ \E par \in WorkerIds \cup {NoWorker} : SpawnWorker(par)
  BY DEF ControlStep, control_report, control_pause, control_resume, Signal,
         control_close, control_close_subtree, CloseWorkers, RestartOverflow, RestartVisible,
         FocusWorker, promote_worker, demote_worker
<1>6. UNCHANGED vars => UNCHANGED foretold
  BY DEF vars
<1> QED
  BY <1>1, <1>2, <1>3, <1>4, <1>5, <1>6 DEF Next

\* Workers are spawned for ids that have been handed out, and spawned again for the same
\* parent.
LEMMA NextParents ==
  TypeOK /\ Fresh /\ (~foretold => Parents) /\ [Next]_vars => (~foretold' => Parents')
<1> SUFFICES ASSUME TypeOK, Fresh, ~foretold => Parents, [Next]_vars, ~foretold' PROVE Parents'
  OBVIOUS
<1>a. Parents
  BY ForetoldStays
<1> USE IdTypes, ParentTypes, <1>a DEF Parents, Old
<1>1. CASE SplitTile
  BY <1>1 DEF SplitTile, split_pane_with_command, metadata, overflow, tasks
<1>2. ASSUME NEW p \in Panes, FocusTile(p) PROVE Parents'
  BY <1>2 DEF FocusTile, metadata, overflow, tasks
<1>3. ASSUME NEW p \in Panes, toggle_magnify(p) PROVE Parents'
  BY <1>3 DEF toggle_magnify, metadata, overflow, tasks
<1>4. ASSUME NEW p \in Panes, StartShell(p) PROVE Parents'
  BY <1>4 DEF StartShell, grid, metadata, overflow, tasks
<1>5. ASSUME NEW p \in Panes, StartWorker(p) PROVE Parents'
  BY <1>5 DEF StartWorker, start_terminal_in_pane, grid, overflow, tasks
<1>6. CASE DeferredSpawn
  BY <1>6 DEF DeferredSpawn, metadata, overflow, tasks
<1>7. ASSUME NEW s \in pane_spawns, ShellLands(s) PROVE Parents'
  BY <1>7 DEF ShellLands, SpawnEnds, add_item, metadata, overflow, tasks
<1>8. ASSUME NEW s \in pane_spawns, ShellFails(s) PROVE Parents'
  BY <1>8 DEF ShellFails, SpawnEnds, metadata, overflow, tasks
<1>9. ASSUME NEW p \in Panes, AddExternal(p) PROVE Parents'
  BY <1>9 DEF AddExternal, add_item, metadata, overflow, tasks
<1>10. CASE handle_drop
  BY <1>10 DEF handle_drop, adopt_terminal, metadata, overflow, tasks
<1>11. ASSUME NEW p \in Panes, close_tile(p) PROVE Parents'
  BY <1>11 DEF close_tile, CloseTasks, metadata, overflow
<1>12. ASSUME NEW t \in Terminals, ShellExits(t) PROVE Parents'
  BY <1>12 DEF ShellExits, CloseTasks, metadata, overflow
<1>13. ASSUME NEW c \in closes, CloseFinishes(c) PROVE Parents'
  BY <1>13 DEF CloseFinishes, overflow
<1>14. CASE GroupCloses
  BY <1>14 DEF GroupCloses, metadata, overflow, tasks
<1>15. ASSUME NEW par \in WorkerIds \cup {NoWorker}, SpawnWorker(par) PROVE Parents'
  <2>0. par # NoWorker => Old(par)
    BY <1>15, NamedIsOld DEF SpawnWorker
  <2>1. CASE at_visible_cap
    BY <1>15, <2>0, <2>1 DEF SpawnWorker, control_spawn,
                       control_spawn_refused,
                       split_pane_with_command, recorded_parent,
                       spawn_overflow_worker, grid, shells,
                       overflow, metadata, tasks
  <2>2. CASE ~at_visible_cap
    BY <1>15, <2>0, <2>2 DEF SpawnWorker, control_spawn,
                       control_spawn_refused,
                       split_pane_with_command, recorded_parent,
                       spawn_overflow_worker, grid, shells,
                       overflow, metadata, tasks
  <2> QED
    BY <2>1, <2>2
<1>16. ASSUME NEW s \in overflow_spawns, OverflowLands(s) PROVE Parents'
  BY <1>16 DEF OverflowLands, tasks, Fresh
<1>17. ASSUME NEW s \in overflow_spawns, OverflowFails(s) PROVE Parents'
  BY <1>17 DEF OverflowFails, shells, tasks
<1>18. ASSUME NEW w \in WorkerIds, NEW st \in ReportStatuses, control_report(w, st)
       PROVE  Parents'
  BY <1>18 DEF control_report, overflow, tasks
<1>19. ASSUME NEW w \in WorkerIds, control_pause(w) \/ control_resume(w) PROVE Parents'
  BY <1>19 DEF control_pause, control_resume, Signal, overflow, tasks
<1>20. ASSUME NEW W \in SUBSET WorkerIds, CloseWorkers(W) PROVE Parents'
  BY <1>20 DEF CloseWorkers, CloseTasks
<1>21. ASSUME NEW w \in WorkerIds, RestartOverflow(w) PROVE Parents'
  <2>1. CASE at_visible_cap
    BY <1>21, <2>1 DEF RestartOverflow, control_spawn,
                       control_spawn_refused,
                       split_pane_with_command, recorded_parent,
                       spawn_overflow_worker, grid, shells,
                       overflow, metadata, tasks
  <2>2. CASE ~at_visible_cap
    BY <1>21, <2>2 DEF RestartOverflow, control_spawn,
                       control_spawn_refused,
                       split_pane_with_command, recorded_parent,
                       spawn_overflow_worker, grid, shells,
                       overflow, metadata, tasks
  <2> QED
    BY <2>1, <2>2
<1>22. ASSUME NEW w \in WorkerIds, RestartVisible(w) PROVE Parents'
  BY <1>22 DEF RestartVisible, CloseTasks, overflow
<1>23. ASSUME NEW r \in respawns, Respawn(r) PROVE Parents'
  <2>1. CASE at_visible_cap
    BY <1>23, <2>1 DEF Respawn, control_spawn,
                       control_spawn_refused,
                       split_pane_with_command, recorded_parent,
                       spawn_overflow_worker, grid, shells,
                       overflow, metadata, tasks
  <2>2. CASE ~at_visible_cap
    BY <1>23, <2>2 DEF Respawn, control_spawn,
                       control_spawn_refused,
                       split_pane_with_command, recorded_parent,
                       spawn_overflow_worker, grid, shells,
                       overflow, metadata, tasks
  <2> QED
    BY <2>1, <2>2
<1>24. ASSUME NEW w \in WorkerIds, FocusWorker(w) PROVE Parents'
  BY <1>24 DEF FocusWorker, metadata, overflow, tasks
<1>25. ASSUME NEW w \in WorkerIds, promote_worker(w) PROVE Parents'
  BY <1>25 DEF promote_worker, tasks
<1>26. ASSUME NEW w \in WorkerIds, demote_worker(w) PROVE Parents'
  BY <1>26 DEF demote_worker, tasks
<1>27. ASSUME NEW p \in Panes, HoldPane(p) PROVE Parents'
  BY <1>27 DEF HoldPane, metadata, overflow, tasks
<1>28. ASSUME NEW p \in Panes, LetGo(p) PROVE Parents'
  BY <1>28 DEF LetGo, metadata, overflow, tasks
<1>29. ASSUME NEW p \in Panes, ConfirmCommand(p) PROVE Parents'
  <2>1. CASE start_terminal_in_pane(p) /\ UNCHANGED <<overflow_spawns, next_pane, next_overflow_id>>
    BY <1>29, <2>1 DEF ConfirmCommand, start_terminal_in_pane, tasks
  <2>2. CASE control_spawn(NoWorker, status, worker_panes, told)
    BY <1>29, <2>2 DEF ConfirmCommand, control_spawn, split_pane_with_command, recorded_parent,
                       spawn_overflow_worker, tasks
  <2> QED
    BY <1>29, <2>1, <2>2 DEF ConfirmCommand
<1>30. ASSUME NEW p \in center \cup held, NEW q \in center \cup held, DropAstray(p, q)
       PROVE  Parents'
  BY <1>30 DEF DropAstray, metadata, overflow, tasks
<1>31. CASE UNCHANGED vars
  BY <1>31 DEF vars, metadata, overflow, tasks
<1> HIDE DEF Parents, Old
<1> QED
  BY <1>1, <1>2, <1>3, <1>4, <1>5, <1>6, <1>7, <1>8, <1>9, <1>10, <1>11, <1>12, <1>13,
     <1>14, <1>15, <1>16, <1>17, <1>18, <1>19, <1>20, <1>21, <1>22, <1>23, <1>24, <1>25,
     <1>26, <1>27, <1>28, <1>29, <1>30, <1>31
  DEF Next, GridStep, TaskStep, ControlStep, control_close, control_close_subtree,
      Subtree

\* Without a new child the ranks stay.
LEMMA RankKept ==
  ASSUME TypeOK, Ranked, overflow_spawns' \subseteq overflow_spawns,
         \A w \in WorkerIds : \/ parent'[w] \in {parent[w], NoWorker}
                            \/ \E s \in overflow_spawns : s.id = w /\ s.parent = parent'[w]
  PROVE  Ranked'
<1>1. PICK f : IsRank(f)
  BY DEF Ranked
<1>2. IsRank(f)'
  BY <1>1 DEF IsRank
<1> QED
  BY <1>2 DEF Ranked

\* A new tile is nobody's parent yet, so it can be ranked above its own.
LEMMA RankedPane ==
  ASSUME TypeOK, Parents, Ranked, next_pane \in Panes,
         NEW par \in WorkerIds \cup {NoWorker}, par # NoWorker => Old(par),
         parent' = [parent EXCEPT ![next_pane] = par], UNCHANGED overflow_spawns, Fresh
  PROVE  Ranked'
<1> USE IdTypes, ParentTypes
<1>1. PICK f : IsRank(f)
  BY DEF Ranked
<1>2. PICK n \in Nat : par # NoWorker => f[par] < n
  <2>1. CASE par = NoWorker
    BY <2>1
  <2>2. CASE par \in WorkerIds
    <3>1. f[par] \in Nat /\ f[par] + 1 \in Nat /\ f[par] < f[par] + 1
      BY <1>1, <2>2 DEF IsRank
    <3> QED
      BY <3>1
  <2> QED
    BY <2>1, <2>2
<1>3. PICK g : g = [f EXCEPT ![next_pane] = n]
  OBVIOUS
<1>4. ~Old(next_pane) /\ par # next_pane /\ next_pane \in WorkerIds
  BY DEF Old
<1>5. /\ g \in [WorkerIds -> Nat] /\ g[next_pane] = n
      /\ \A w \in WorkerIds \ {next_pane} : g[w] = f[w]
  BY <1>1, <1>4, <1>3 DEF IsRank
<1>6. /\ \A w \in WorkerIds : parent[w] # next_pane
      /\ \A s \in overflow_spawns : s.parent # next_pane /\ s.id # next_pane
  BY <1>4 DEF Parents, Fresh
<1>7. ASSUME NEW w \in WorkerIds, parent'[w] # NoWorker PROVE g[parent'[w]] < g[w]
  <2>1. CASE w = next_pane
    BY <1>2, <1>4, <1>5, <1>7, <2>1
  <2>2. CASE w # next_pane
    BY <1>1, <1>5, <1>6, <1>7, <2>2 DEF IsRank
  <2> QED
    BY <2>1, <2>2
<1>8. ASSUME NEW s \in overflow_spawns', s.parent # NoWorker PROVE g[s.parent] < g[s.id]
  BY <1>1, <1>5, <1>6, <1>8 DEF IsRank
<1>9. IsRank(g)'
  BY <1>5, <1>7, <1>8 DEF IsRank
<1> QED
  BY <1>9 DEF Ranked

\* So can a new overflow id.
LEMMA RankedOverflow ==
  ASSUME TypeOK, Fresh, Parents, Ranked, next_overflow_id \in WorkerIds \ Panes,
         NEW par \in WorkerIds \cup {NoWorker}, par # NoWorker => Old(par),
         NEW t, UNCHANGED parent,
         overflow_spawns' = overflow_spawns
           \cup {[id |-> next_overflow_id, term |-> t, parent |-> par]}
  PROVE  Ranked'
<1> USE IdTypes, ParentTypes
<1>1. PICK f : IsRank(f)
  BY DEF Ranked
<1>2. PICK n \in Nat : par # NoWorker => f[par] < n
  <2>1. CASE par = NoWorker
    BY <2>1
  <2>2. CASE par \in WorkerIds
    <3>1. f[par] \in Nat /\ f[par] + 1 \in Nat /\ f[par] < f[par] + 1
      BY <1>1, <2>2 DEF IsRank
    <3> QED
      BY <3>1
  <2> QED
    BY <2>1, <2>2
<1>3. PICK g : g = [f EXCEPT ![next_overflow_id] = n]
  OBVIOUS
<1> DEFINE id == next_overflow_id
           new == [id |-> next_overflow_id, term |-> t, parent |-> par]
<1>4. ~Old(id) /\ par # id
  BY DEF Old
<1>5. /\ g \in [WorkerIds -> Nat] /\ g[id] = n
      /\ \A w \in WorkerIds \ {id} : g[w] = f[w]
  BY <1>1, <1>3 DEF IsRank
<1>6. /\ \A w \in WorkerIds : parent[w] # id
      /\ \A s \in overflow_spawns : s.parent # id /\ s.id # id
      /\ parent[id] = NoWorker
  BY <1>4 DEF Parents, Fresh
<1>7. ASSUME NEW w \in WorkerIds, parent'[w] # NoWorker PROVE g[parent'[w]] < g[w]
  BY <1>1, <1>5, <1>6, <1>7 DEF IsRank
<1>8. ASSUME NEW s \in overflow_spawns', s.parent # NoWorker PROVE g[s.parent] < g[s.id]
  <2>1. CASE s \in overflow_spawns
    BY <1>1, <1>5, <1>6, <1>8, <2>1 DEF IsRank
  <2>2. CASE s = new
    BY <1>2, <1>4, <1>5, <1>8, <2>2
  <2> QED
    BY <2>1, <2>2
<1>9. IsRank(g)'
  BY <1>5, <1>7, <1>8 DEF IsRank
<1> QED
  BY <1>9 DEF Ranked

\* Every operation that gives a worker a parent is one of the above, and the launcher and
\* demotion only take parents away.
LEMMA NextRanked ==
  TypeOK /\ Fresh /\ (~foretold => Parents /\ Ranked) /\ [Next]_vars => (~foretold' => Ranked')
<1> SUFFICES ASSUME TypeOK, Fresh, ~foretold => Parents /\ Ranked, [Next]_vars, ~foretold'
             PROVE  Ranked'
  OBVIOUS
<1>a. Parents /\ Ranked
  BY ForetoldStays
<1> USE <1>a
<1>0. /\ \A w \in WorkerIds : /\ parent[w] \in WorkerIds \cup {NoWorker}
                             /\ parent[w] # NoWorker => Old(parent[w])
      /\ \A r \in respawns : /\ r.parent \in WorkerIds \cup {NoWorker}
                            /\ r.parent # NoWorker => Old(r.parent)
  BY ParentTypes DEF Parents
<1>1. CASE SplitTile
  BY <1>1, RankKept, ParentTypes DEF SplitTile, metadata, overflow
<1>2. ASSUME NEW p \in Panes, FocusTile(p) PROVE Ranked'
  BY <1>2, RankKept, ParentTypes DEF FocusTile, metadata, overflow
<1>3. ASSUME NEW p \in Panes, toggle_magnify(p) PROVE Ranked'
  BY <1>3, RankKept, ParentTypes DEF toggle_magnify, metadata, overflow
<1>4. ASSUME NEW p \in Panes, StartShell(p) PROVE Ranked'
  BY <1>4, RankKept, ParentTypes DEF StartShell, metadata, overflow
<1>5. ASSUME NEW p \in Panes, StartWorker(p) PROVE Ranked'
  BY <1>5, RankKept, ParentTypes DEF StartWorker, start_terminal_in_pane, overflow
<1>6. CASE DeferredSpawn
  BY <1>6, RankKept, ParentTypes DEF DeferredSpawn, metadata, overflow
<1>7. ASSUME NEW s \in pane_spawns, ShellLands(s) PROVE Ranked'
  BY <1>7, RankKept, ParentTypes DEF ShellLands, SpawnEnds, metadata, overflow
<1>8. ASSUME NEW s \in pane_spawns, ShellFails(s) PROVE Ranked'
  BY <1>8, RankKept, ParentTypes DEF ShellFails, SpawnEnds, metadata, overflow
<1>9. ASSUME NEW p \in Panes, AddExternal(p) PROVE Ranked'
  BY <1>9, RankKept, ParentTypes DEF AddExternal, metadata, overflow
<1>10. CASE handle_drop
  BY <1>10, RankKept, ParentTypes DEF handle_drop, metadata, overflow
<1>11. ASSUME NEW p \in Panes, close_tile(p) PROVE Ranked'
  BY <1>11, RankKept, ParentTypes DEF close_tile, metadata, overflow
<1>12. ASSUME NEW t \in Terminals, ShellExits(t) PROVE Ranked'
  BY <1>12, RankKept, ParentTypes DEF ShellExits, metadata, overflow
<1>13. ASSUME NEW c \in closes, CloseFinishes(c) PROVE Ranked'
  BY <1>13, RankKept, ParentTypes DEF CloseFinishes, overflow
<1>14. CASE GroupCloses
  BY <1>14, RankKept, ParentTypes DEF GroupCloses, metadata, overflow
<1>15. ASSUME NEW par \in WorkerIds \cup {NoWorker}, SpawnWorker(par) PROVE Ranked'
  <2>0. par # NoWorker => Old(par)
    BY <1>15, NamedIsOld DEF SpawnWorker
  <2>1. CASE UNCHANGED parent /\ overflow_spawns' \subseteq overflow_spawns
    BY <2>1, RankKept
  <2>2. CASE next_pane \in Panes /\ UNCHANGED overflow_spawns
             /\ parent' = [parent EXCEPT ![next_pane] = par]
    BY <2>0, <2>2, RankedPane
  <2>3. CASE /\ UNCHANGED parent /\ next_overflow_id \in WorkerIds \ Panes
             /\ \E t \in Terminals : overflow_spawns' = overflow_spawns
                  \cup {[id |-> next_overflow_id, term |-> t, parent |-> par]}
    BY <2>0, <2>3, RankedOverflow
  <2> QED
    BY <1>15, <2>1, <2>2, <2>3, IdTypes, TermTypes
    DEF SpawnWorker, control_spawn, control_spawn_refused, split_pane_with_command,
        spawn_terminal_into, spawn_overflow_worker, recorded_parent
<1>16. ASSUME NEW s \in overflow_spawns, OverflowLands(s) PROVE Ranked'
  BY <1>16, RankKept, ParentTypes DEF OverflowLands
<1>17. ASSUME NEW s \in overflow_spawns, OverflowFails(s) PROVE Ranked'
  BY <1>17, RankKept, ParentTypes DEF OverflowFails
<1>18. ASSUME NEW w \in WorkerIds, NEW st \in ReportStatuses, control_report(w, st)
       PROVE  Ranked'
  BY <1>18, RankKept, ParentTypes DEF control_report, overflow
<1>19. ASSUME NEW w \in WorkerIds, control_pause(w) \/ control_resume(w) PROVE Ranked'
  BY <1>19, RankKept, ParentTypes DEF control_pause, control_resume, Signal, overflow
<1>20. ASSUME NEW W \in SUBSET WorkerIds, CloseWorkers(W) PROVE Ranked'
  BY <1>20, RankKept, ParentTypes DEF CloseWorkers
<1>21. ASSUME NEW w \in WorkerIds, RestartOverflow(w) PROVE Ranked'
  <2>0. PICK par \in WorkerIds \cup {NoWorker} : par = parent[w]
    BY ParentTypes
  <2>p. par # NoWorker => Old(par)
    BY <1>0, <2>0
  <2>1. CASE UNCHANGED parent /\ overflow_spawns' \subseteq overflow_spawns
    BY <2>1, RankKept
  <2>2. CASE next_pane \in Panes /\ UNCHANGED overflow_spawns
             /\ parent' = [parent EXCEPT ![next_pane] = par]
    BY <2>p, <2>2, RankedPane
  <2>3. CASE /\ UNCHANGED parent /\ next_overflow_id \in WorkerIds \ Panes
             /\ \E t \in Terminals : overflow_spawns' = overflow_spawns
                  \cup {[id |-> next_overflow_id, term |-> t, parent |-> par]}
    BY <2>p, <2>3, RankedOverflow
  <2> QED
    BY <1>21, <2>0, <2>1, <2>2, <2>3, IdTypes, TermTypes
    DEF RestartOverflow, control_spawn, control_spawn_refused, split_pane_with_command,
        spawn_terminal_into, spawn_overflow_worker, recorded_parent
<1>22. ASSUME NEW w \in WorkerIds, RestartVisible(w) PROVE Ranked'
  BY <1>22, RankKept, ParentTypes DEF RestartVisible, overflow
<1>23. ASSUME NEW r \in respawns, Respawn(r) PROVE Ranked'
  <2>0. PICK par \in WorkerIds \cup {NoWorker} : par = r.parent
    BY ParentTypes
  <2>p. par # NoWorker => Old(par)
    BY <1>0, <2>0
  <2>1. CASE UNCHANGED parent /\ overflow_spawns' \subseteq overflow_spawns
    BY <2>1, RankKept
  <2>2. CASE next_pane \in Panes /\ UNCHANGED overflow_spawns
             /\ parent' = [parent EXCEPT ![next_pane] = par]
    BY <2>p, <2>2, RankedPane
  <2>3. CASE /\ UNCHANGED parent /\ next_overflow_id \in WorkerIds \ Panes
             /\ \E t \in Terminals : overflow_spawns' = overflow_spawns
                  \cup {[id |-> next_overflow_id, term |-> t, parent |-> par]}
    BY <2>p, <2>3, RankedOverflow
  <2> QED
    BY <1>23, <2>0, <2>1, <2>2, <2>3, IdTypes, TermTypes
    DEF Respawn, control_spawn, control_spawn_refused, split_pane_with_command,
        spawn_terminal_into, spawn_overflow_worker, recorded_parent
<1>24. ASSUME NEW w \in WorkerIds, FocusWorker(w) PROVE Ranked'
  BY <1>24, RankKept, ParentTypes DEF FocusWorker, metadata, overflow
<1>25. ASSUME NEW w \in WorkerIds, promote_worker(w) PROVE Ranked'
  BY <1>25, RankKept, ParentTypes DEF promote_worker
<1>26. ASSUME NEW w \in WorkerIds, demote_worker(w) PROVE Ranked'
  BY <1>26, RankKept, ParentTypes DEF demote_worker
<1>27. ASSUME NEW p \in Panes, HoldPane(p) PROVE Ranked'
  BY <1>27, RankKept, ParentTypes DEF HoldPane, metadata, overflow
<1>28. ASSUME NEW p \in Panes, LetGo(p) PROVE Ranked'
  BY <1>28, RankKept, ParentTypes DEF LetGo, metadata, overflow
<1>29. ASSUME NEW p \in Panes, ConfirmCommand(p) PROVE Ranked'
  <2>1. CASE start_terminal_in_pane(p) /\ UNCHANGED overflow_spawns
    BY <2>1, RankKept, ParentTypes DEF start_terminal_in_pane
  <2>2. CASE next_pane \in Panes /\ UNCHANGED overflow_spawns
             /\ parent' = [parent EXCEPT ![next_pane] = NoWorker]
    BY <2>2, RankKept, ParentTypes
  <2>3. CASE /\ UNCHANGED parent /\ next_overflow_id \in WorkerIds \ Panes
             /\ \E t \in Terminals : overflow_spawns' = overflow_spawns
                  \cup {[id |-> next_overflow_id, term |-> t, parent |-> NoWorker]}
    BY <2>3, RankedOverflow
  <2> QED
    BY <1>29, <2>1, <2>2, <2>3, IdTypes, TermTypes
    DEF ConfirmCommand, control_spawn, split_pane_with_command,
        spawn_terminal_into, spawn_overflow_worker, recorded_parent
<1>30. ASSUME NEW p \in center \cup held, NEW q \in center \cup held, DropAstray(p, q)
       PROVE  Ranked'
  BY <1>30, RankKept, ParentTypes DEF DropAstray, metadata, overflow
<1>31. CASE UNCHANGED vars
  BY <1>31, RankKept, ParentTypes DEF vars, metadata, overflow
<1> QED
  BY <1>1, <1>2, <1>3, <1>4, <1>5, <1>6, <1>7, <1>8, <1>9, <1>10, <1>11, <1>12, <1>13,
     <1>14, <1>15, <1>16, <1>17, <1>18, <1>19, <1>20, <1>21, <1>22, <1>23, <1>24, <1>25,
     <1>26, <1>27, <1>28, <1>29, <1>30, <1>31
  DEF Next, GridStep, TaskStep, ControlStep, control_close, control_close_subtree,
      Subtree

\* A non-empty set of naturals has a least member.
LEMMA Least ==
  ASSUME NEW S \in SUBSET Nat, S # {}
  PROVE  \E n \in S : \A m \in S : ~(m < n)
<1> DEFINE R == {ss \in Nat \X Nat : ss[1] < ss[2]}
<1>1. IsWellFoundedOn(R, Nat)
  BY NatLessThanWellFounded DEF OpToRel
<1>2. \E x \in S : \A y \in S : ~(<<y, x>> \in R)
  <2> HIDE DEF R
  <2> QED
    BY <1>1, WFMin
<1> QED
  BY <1>2

\* Of the workers that a set closed under children leaves out, the one of least rank would
\* have its parent in the set, or be a root: nothing is left out.
LEMMA RankedTree == TypeOK /\ (~foretold => Ranked) => TreeShowsAll
<1> SUFFICES ASSUME TypeOK, ~foretold => Ranked, ~foretold, NEW S \in SUBSET Listed,
                    {w \in Listed : ListedParent(w) \notin Listed} \subseteq S,
                    \A w \in Listed : ListedParent(w) \in S => w \in S,
                    NEW u \in Listed, u \notin S
             PROVE  FALSE
  BY DEF TreeShowsAll, control_tree
<1>1. PICK f : IsRank(f)
  BY DEF Ranked
<1>2. Listed \subseteq WorkerIds /\ NoWorker \notin Listed
  BY IdTypes, ParentTypes DEF Listed, TypeOK
<1> DEFINE T == Listed \ S
           Rk == {f[w] : w \in T}
<1>3. Rk \in SUBSET Nat /\ Rk # {}
  BY <1>1, <1>2 DEF IsRank
<1>4. PICK n \in Rk : \A m \in Rk : ~(m < n)
  <2> HIDE DEF Rk
  <2> QED
    BY <1>3, Least
<1>5. PICK w \in T : \A v \in T : ~(f[v] < f[w])
  BY <1>4
<1>6. ListedParent(w) \in Listed /\ ListedParent(w) \notin S
  BY <1>5
<1>7. parent[w] \in T /\ parent[w] # NoWorker
  BY <1>2, <1>6 DEF ListedParent
<1>8. f[parent[w]] < f[w]
  BY <1>1, <1>2, <1>5, <1>7 DEF IsRank
<1> QED
  BY <1>5, <1>7, <1>8

\* Mission Control shows every worker after any sequence of spawns, closes, restarts,
\* promotions and demotions of a new or a restored group, whatever parents are named,
\* living or not, as long as each is named after its id was handed out.
THEOREM TreeShowsWorkers == Spec => []TreeShowsAll
<1>1. Init => (~foretold => Parents /\ Ranked)
  <2> SUFFICES ASSUME Init, ~foretold PROVE Parents /\ Ranked
    OBVIOUS
  <2>0. TypeOK
    BY InitTypeOK
  <2>1. parent = [w \in WorkerIds |-> NoWorker] /\ closes = {} /\ respawns = {}
    BY DEF Init
  <2>2. PICK saved \in [1 .. RestoredOverflow -> WorkerIds \cup {NoWorker}] :
          /\ overflow_spawns = {[id |-> MaxPanes + k, term |-> k + 1, parent |-> saved[k]] :
                                  k \in 1 .. RestoredOverflow}
          /\ \A k \in 1 .. RestoredOverflow : Issued(saved[k], next_pane, MaxPanes + k)
    BY DEF Init
  <2>3. next_overflow_id = OverflowBase + RestoredOverflow /\ next_pane \in 1 .. MaxPanes + 1
    BY <2>0 DEF Init, TypeOK
  <2>4. \A s \in overflow_spawns : /\ s.parent # NoWorker => Old(s.parent) /\ s.parent < s.id
                                   /\ s.parent \in WorkerIds \cup {NoWorker} /\ s.id \in WorkerIds
    <3> SUFFICES ASSUME NEW k \in 1 .. RestoredOverflow
                 PROVE  /\ saved[k] # NoWorker => Old(saved[k]) /\ saved[k] < MaxPanes + k
                        /\ saved[k] \in WorkerIds \cup {NoWorker} /\ MaxPanes + k \in WorkerIds
      BY <2>2
    <3> QED
      BY <2>2, <2>3, GroupAssumption
      DEF Issued, Old, NoWorker, OverflowBase, Panes, WorkerIds, GroupAssumption
  <2>5. Parents
    BY <2>1, <2>4 DEF Parents
  <2>6. WorkerIds \subseteq Nat
    BY GroupAssumption DEF WorkerIds, GroupAssumption
  <2>7. IsRank([w \in WorkerIds |-> w])
    BY <2>1, <2>4, <2>6 DEF IsRank
  <2> QED
    BY <2>5, <2>7 DEF Ranked
<1>2. IInv /\ (~foretold => Parents /\ Ranked) /\ [Next]_vars
      => (~foretold => Parents /\ Ranked)'
  BY NextParents, NextRanked DEF IInv
<1>3. IInv /\ (~foretold => Parents /\ Ranked) => TreeShowsAll
  BY RankedTree DEF IInv
<1> QED
  BY <1>1, <1>2, <1>3, Inductive, PTL DEF Spec

=============================================================================

--------------------------- MODULE TerminalGroup ---------------------------
(***************************************************************************)
(* A terminal group (crates/terminal_group): a grid of tiles, each with at *)
(* most one terminal, some of them supervised workers, and an overflow set *)
(* of workers past the visible cap.  Every handler runs on the foreground  *)
(* thread and is one action; starting a shell, closing a tile and          *)
(* respawning a restarted worker finish in later ticks and interleave with *)
(* everything else.                                                        *)
(*                                                                         *)
(* The grid is the SET of its panes: where a tile sits is the business of  *)
(* module TileTree, so "the first pane" is any pane here.  Commands,       *)
(* summaries, titles, directories and geometry are abstracted; the split   *)
(* guard may refuse any split.                                             *)
(*                                                                         *)
(* The dialog for a custom command and a drag hold panes of their own      *)
(* accord: a pane can leave the grid and still be used through them.       *)
(***************************************************************************)
EXTENDS Integers, FiniteSets

CONSTANTS
  MaxTiles,          \* TerminalWorkspaceSettings.max_tiles, the visible cap
  ReportStatuses,    \* what a worker may report about itself
  RestoredTiles,     \* tiles of the restored layout; 0 for a new group
  RestoredOverflow,  \* overflow workers of the restored layout
  MaxPanes,          \* bound on panes ever created
  MaxOverflow,       \* bound on overflow ids ever handed out
  MaxTerminals,      \* bound on shells ever started or dragged in
  MaxExternal,       \* bound on items that land from outside the group
  MaxRestarts,       \* bound on restarts of visible workers in flight
  MaxHeld,           \* bound on panes a dialog or a drag holds at a time
  Nested             \* whether workers are spawned under a parent

Panes == 1 .. MaxPanes
\* OVERFLOW_ID_BASE: overflow ids never meet pane ids.
OverflowBase == MaxPanes + 1
WorkerIds == 1 .. MaxPanes + MaxOverflow
Terminals == 1 .. MaxTerminals
NoPane == 0
NoWorker == 0
NoTerm == 0
Finished == -1
Statuses == {"starting", "working", "paused", "failed"} \cup ReportStatuses
NoStatus == "none"

ASSUME GroupAssumption ==
  /\ MaxTiles \in Nat \ {0}
  /\ MaxPanes \in Nat \ {0}
  /\ MaxOverflow \in Nat /\ MaxTerminals \in Nat /\ MaxExternal \in Nat
  /\ RestoredTiles \in 0 .. MaxTiles /\ RestoredTiles <= MaxPanes
  /\ RestoredOverflow \in 0 .. MaxOverflow
  /\ RestoredTiles > 0 => RestoredOverflow < MaxTerminals
  /\ RestoredTiles = 0 => RestoredOverflow = 0
  /\ NoStatus \notin ReportStatuses
  /\ MaxRestarts \in Nat /\ MaxHeld \in Nat /\ Nested \in BOOLEAN

VARIABLES
  center, active_pane, magnified_pane,
  items,             \* the terminals of each pane
  spawning,          \* panes with a shell on the way
  pane_spawns,       \* tasks of spawn_terminal_into in flight
  worker_id,         \* RDG_WORKER_ID as exported in each terminal's shell
  alive,             \* terminals whose shell process runs
  status, parent,    \* worker_metadata; NoStatus: no entry
  worker_panes,      \* worker_panes; NoPane: no entry
  overflow_view,     \* overflow_workers: the terminal; NoTerm: no entry
  overflow_status,   \* overflow_workers: the status in its copy of the metadata
  overflow_spawns,   \* tasks of spawn_overflow_worker in flight
  closes,            \* tasks of close_all_items in flight
  respawns,          \* control_restart continuations whose close is done
  told,              \* the last status the event stream gave; NoStatus: none, or closed
  deferred,          \* spawn_remaining_tiles: 0 ready, the shell awaited, or Finished
  failed,            \* spawn_remaining_tiles: tiles given up
  group,             \* "open", "closing" (CloseItem emitted), "closed"
  next_pane, next_overflow_id, next_term, external,
  held,              \* panes of an open CustomCommandModal, a drag or its target
  strayed,           \* history: a pane outside the grid was used
  foretold           \* history: a parent was named before its id was handed out

grid == <<center, active_pane, magnified_pane>>
shells == <<items, spawning, pane_spawns, worker_id, alive>>
metadata == <<status, parent>>
overflow == <<overflow_view, overflow_status, overflow_spawns>>
tasks == <<closes, respawns>>
restore == <<deferred, failed>>
outside == <<held, strayed, foretold>>
vars == <<grid, shells, metadata, worker_panes, overflow, tasks, told, restore,
          group, next_pane, next_overflow_id, next_term, external, outside>>

PaneSpawns == [pane : Panes, term : Terminals]
OverflowSpawns ==
  [id : WorkerIds, term : Terminals, parent : WorkerIds \cup {NoWorker}]
Closes == [pane : Panes, term : Terminals, respawn : WorkerIds \cup {NoWorker},
           parent : WorkerIds \cup {NoWorker}]
Respawns == [id : WorkerIds, parent : WorkerIds \cup {NoWorker}]

TypeOK ==
  /\ center \in SUBSET Panes
  /\ active_pane \in Panes /\ magnified_pane \in Panes \cup {NoPane}
  /\ items \in [Panes -> SUBSET Terminals]
  /\ spawning \in SUBSET Panes
  /\ pane_spawns \in SUBSET PaneSpawns
  /\ worker_id \in [Terminals -> WorkerIds \cup {NoWorker}]
  /\ alive \in SUBSET Terminals
  /\ status \in [WorkerIds -> Statuses \cup {NoStatus}]
  /\ parent \in [WorkerIds -> WorkerIds \cup {NoWorker}]
  /\ worker_panes \in [WorkerIds -> Panes \cup {NoPane}]
  /\ overflow_view \in [WorkerIds -> Terminals \cup {NoTerm}]
  /\ overflow_status \in [WorkerIds -> Statuses \cup {NoStatus}]
  /\ overflow_spawns \in SUBSET OverflowSpawns
  /\ closes \in SUBSET Closes
  /\ respawns \in SUBSET Respawns
  /\ told \in [WorkerIds -> Statuses \cup {NoStatus}]
  /\ deferred \in Terminals \cup {0, Finished}
  /\ failed \in SUBSET Panes
  /\ group \in {"open", "closing", "closed"}
  /\ next_pane \in 1 .. MaxPanes + 1
  /\ next_overflow_id \in OverflowBase .. OverflowBase + MaxOverflow
  /\ next_term \in 1 .. MaxTerminals + 1
  /\ external \in 0 .. MaxExternal
  /\ held \in SUBSET Panes /\ strayed \in BOOLEAN /\ foretold \in BOOLEAN

-----------------------------------------------------------------------------
(* Initial states *)

Restored == RestoredTiles > 0

\* Worker ids up to these have been handed out, or w is no worker.
Issued(w, panes, ids) == w \in {NoWorker} \cup (1 .. panes - 1) \cup (OverflowBase .. ids - 1)

\* `build`, followed by `restore_layout` when a layout was loaded: the tiles come
\* back empty, the focused one starts at once, the others wait for
\* spawn_remaining_tiles, and every saved overflow worker is spawned again under
\* a new id but with the parent id that was saved.
Init ==
  /\ center = 1 .. (IF Restored THEN RestoredTiles ELSE 1)
  /\ active_pane \in center
  /\ magnified_pane \in {NoPane} \cup (IF Restored THEN {active_pane} ELSE {})
  /\ items = [p \in Panes |-> {}]
  /\ spawning = IF Restored THEN {active_pane} ELSE {}
  /\ pane_spawns = IF Restored THEN {[pane |-> active_pane, term |-> 1]} ELSE {}
  /\ next_pane = IF Restored THEN RestoredTiles + 1 ELSE 2
  /\ \E saved \in [1 .. RestoredOverflow -> WorkerIds \cup {NoWorker}] :
       /\ overflow_spawns = {[id |-> MaxPanes + k, term |-> k + 1, parent |-> saved[k]] :
                               k \in 1 .. RestoredOverflow}
       /\ foretold = \E k \in 1 .. RestoredOverflow : ~Issued(saved[k], next_pane, MaxPanes + k)
  /\ worker_id = [t \in Terminals |->
                    IF t \in 2 .. RestoredOverflow + 1 THEN MaxPanes + t - 1 ELSE NoWorker]
  /\ alive = {}
  /\ status = [w \in WorkerIds |-> NoStatus]
  /\ parent = [w \in WorkerIds |-> NoWorker]
  /\ worker_panes = [w \in WorkerIds |-> NoPane]
  /\ overflow_view = [w \in WorkerIds |-> NoTerm]
  /\ overflow_status = [w \in WorkerIds |-> NoStatus]
  /\ closes = {} /\ respawns = {}
  /\ told = [w \in WorkerIds |-> NoStatus]
  /\ deferred = IF Restored THEN 0 ELSE Finished
  /\ failed = {}
  /\ group = "open"
  /\ next_overflow_id = OverflowBase + RestoredOverflow
  /\ next_term = IF Restored THEN RestoredOverflow + 2 ELSE 1
  /\ external = 0
  /\ held = {} /\ strayed = FALSE

-----------------------------------------------------------------------------
(* Helpers *)

\* The group entity exists: the handlers and tasks of a closed one are gone.
running == group # "closed"

\* Somebody holds a handle to pane p: the tree, the focus, a worker's entry, or a
\* dialog or a drag.  A pane nobody holds is dropped and its items with it.
in_use(p) ==
  running /\ (p \in center \cup {active_pane} \/ \E w \in WorkerIds : worker_panes[w] = p)
pane_exists(p) == in_use(p) \/ p \in held

\* Terminal t has a view besides the one in pane p, so its shell outlives that one.
Elsewhere(t, p) ==
  (\E q \in Panes \ {p} : t \in items[q]) \/ (\E w \in WorkerIds : overflow_view[w] = t)

\* The shells among T that end when their overflow views go.
Ended(T) == {t \in T : \A p \in Panes : t \notin items[p]}

\* Pane p is used; the histories note a pane outside the grid, and a parent that is
\* named too soon.
Use(p) ==
  \/ p \in center /\ UNCHANGED strayed
  \/ p \notin center /\ strayed' = TRUE
Name(par) ==
  \/ Issued(par, next_pane, next_overflow_id) /\ UNCHANGED foretold
  \/ ~Issued(par, next_pane, next_overflow_id) /\ foretold' = TRUE

LastTile == \E q \in center : center = {q}

\* Mutant: off by one.
past_visible_cap == Cardinality(center) > MaxTiles
at_visible_cap == Cardinality(center) >= MaxTiles

\* The early return of start_terminal_in_pane, spawn_if_empty and
\* spawn_remaining_tiles: the tile is empty and no shell is on the way.
\* Mutant: without the `spawning` check.
empty_tile(p) == items[p] = {}
needs_shell(p) == items[p] = {} /\ p \notin spawning

\* worker_init_command_for: the RDG_WORKER_ID of worker w spawned under par.
\* Mutant: the parent's id.
parent_init_command(w, par) == par
worker_init_command(w, par) == w

\* WorkerEvent::Spawned seen by a watcher whose view is tl.  Mutant: not emitted.
NotTold(tl, w) == tl
Spawned(tl, w) == [tl EXCEPT ![w] = "starting"]

\* What remains of magnification when p leaves the grid.  Mutant: it is kept.
StillMagnified(p) == magnified_pane
Unmagnified(p) == IF magnified_pane = p THEN NoPane ELSE magnified_pane

\* The workers whose tile is p.  Mutant: promoted workers, whose id is not their
\* tile's, are not looked for.
OwnId(p) == {w \in WorkerIds : worker_panes[w] = p /\ w = p}
WorkersOf(p) == {w \in WorkerIds : worker_panes[w] = p}

\* A promotion takes w out of the overflow set.  Mutant: it stays there as well.
LeaveOverflow(w) == overflow_view
TakeOverflow(w) == [overflow_view EXCEPT ![w] = NoTerm]

\* terminal_for_worker
Resolve(w) ==
  IF overflow_view[w] # NoTerm THEN overflow_view[w]
  ELSE IF worker_panes[w] # NoPane /\ items[worker_panes[w]] # {}
       THEN CHOOSE t \in items[worker_panes[w]] : TRUE
       ELSE NoTerm

\* spawn_terminal_into: a shell for pane p, with w as its RDG_WORKER_ID.
spawn_terminal_into(p, w) ==
  /\ next_term <= MaxTerminals
  /\ spawning' = spawning \cup {p}
  /\ pane_spawns' = pane_spawns \cup {[pane |-> p, term |-> next_term]}
  /\ worker_id' = [worker_id EXCEPT ![next_term] = w]
  /\ next_term' = next_term + 1

\* start_terminal_in_pane with a command: pane p, empty and without a shell on the way,
\* becomes a worker, whether it is in the grid or not.
start_terminal_in_pane(p) ==
  /\ needs_shell(p)
  /\ status' = [status EXCEPT ![p] = "starting"]
  /\ parent' = [parent EXCEPT ![p] = NoWorker]
  /\ worker_panes' = [worker_panes EXCEPT ![p] = p]
  /\ told' = Spawned(told, p)
  /\ spawn_terminal_into(p, worker_init_command(p, NoWorker))

\* split_pane_with_command, past the cap and the guard: a focused new tile with
\* a shell on the way.
split_pane_with_command(w) ==
  /\ ~at_visible_cap
  /\ next_pane <= MaxPanes
  /\ center' = center \cup {next_pane}
  /\ active_pane' = next_pane
  /\ magnified_pane' = NoPane
  /\ next_pane' = next_pane + 1
  /\ spawn_terminal_into(next_pane, w)

spawn_overflow_worker(par) ==
  /\ next_overflow_id < OverflowBase + MaxOverflow /\ next_term <= MaxTerminals
  /\ overflow_spawns' = overflow_spawns
       \cup {[id |-> next_overflow_id, term |-> next_term, parent |-> par]}
  /\ worker_id' = [worker_id EXCEPT ![next_term] = worker_init_command(next_overflow_id, par)]
  /\ next_overflow_id' = next_overflow_id + 1
  /\ next_term' = next_term + 1

\* The parent recorded for a new worker.  Mutant: the worker itself.
own_parent(w, par) == w
recorded_parent(w, par) == par

\* control_spawn with the maps as the calling handler has left them: st, wp and tl
\* stand for worker_metadata's statuses, worker_panes and the event stream.
control_spawn(par, st, wp, tl) ==
  \/ /\ split_pane_with_command(worker_init_command(next_pane, par))
     /\ status' = [st EXCEPT ![next_pane] = "starting"]
     /\ parent' = [parent EXCEPT ![next_pane] = recorded_parent(next_pane, par)]
     /\ worker_panes' = [wp EXCEPT ![next_pane] = next_pane]
     /\ told' = Spawned(tl, next_pane)
     /\ UNCHANGED <<overflow_spawns, next_overflow_id>>
  \/ /\ at_visible_cap
     /\ spawn_overflow_worker(par)
     /\ status' = st /\ worker_panes' = wp /\ told' = tl
     /\ UNCHANGED <<grid, spawning, pane_spawns, parent, next_pane>>

\* The split guard refuses and control_spawn returns None.
control_spawn_refused(st, wp, tl) ==
  /\ ~at_visible_cap
  /\ status' = st /\ worker_panes' = wp /\ told' = tl
  /\ UNCHANGED <<grid, spawning, pane_spawns, worker_id, parent,
                 overflow_spawns, next_pane, next_overflow_id, next_term>>

\* Pane::add_item and enforce_single_terminal (TG-1), which the AddItem event
\* runs in the same tick: the surplus terminal gets a tile of its own, cap or no cap.
\* Mutant: the surplus stays as a second tab.
add_item_as_tab(p, t) ==
  /\ items' = [items EXCEPT ![p] = @ \cup {t}]
  /\ UNCHANGED <<grid, next_pane>>
add_item(p, t) ==
  \/ /\ items[p] = {}
     /\ items' = [items EXCEPT ![p] = {t}]
     /\ UNCHANGED <<grid, next_pane>>
  \/ /\ items[p] # {} /\ next_pane <= MaxPanes
     /\ items' = [items EXCEPT ![next_pane] = {t}]
     /\ center' = center \cup {next_pane}
     /\ active_pane' = next_pane
     /\ next_pane' = next_pane + 1
     /\ UNCHANGED magnified_pane

-----------------------------------------------------------------------------
(* The grid *)

\* split, split_pane, split_tile and the pane's Split event.
SplitTile ==
  /\ running
  /\ split_pane_with_command(NoWorker)
  /\ UNCHANGED <<items, alive, metadata, worker_panes, overflow, tasks, told, restore,
                 group, next_overflow_id, external, outside>>

\* A tile gains focus: focus_in_direction, focus_next, swap_in_direction, a drop, a
\* click, and the pane's Focus event, which drags magnification along and in a
\* restored group starts the shell of an empty tile (spawn_if_empty).
FocusTile(p) ==
  /\ running
  /\ p \in center
  /\ active_pane' = p
  /\ magnified_pane' = IF magnified_pane = NoPane THEN NoPane ELSE p
  /\ IF Restored /\ needs_shell(p)
     THEN spawn_terminal_into(p, NoWorker)
     ELSE UNCHANGED <<spawning, pane_spawns, worker_id, next_term>>
  /\ UNCHANGED <<center, items, alive, metadata, worker_panes, overflow, tasks, told, restore,
                 group, next_pane, next_overflow_id, external, outside>>

toggle_magnify(p) ==
  /\ running
  /\ p \in center \cup {active_pane}
  /\ magnified_pane' = IF magnified_pane = p THEN NoPane ELSE p
  /\ active_pane' = p
  /\ UNCHANGED <<center, shells, metadata, worker_panes, overflow, tasks, told, restore,
                 group, next_pane, next_overflow_id, next_term, external, outside>>

\* The launcher of the empty group, which is drawn for the grid's tile: a plain shell
\* (start_terminal_in_pane without a command) or an agent.
StartShell(p) ==
  /\ running
  /\ p \in center /\ needs_shell(p)
  /\ spawn_terminal_into(p, NoWorker)
  /\ UNCHANGED <<grid, items, alive, metadata, worker_panes, overflow, tasks, told, restore,
                 group, next_pane, next_overflow_id, external, outside>>

StartWorker(p) ==
  /\ running
  /\ p \in center
  /\ start_terminal_in_pane(p)
  /\ UNCHANGED <<grid, items, alive, overflow, tasks, restore, group, next_pane,
                 next_overflow_id, external, outside>>

\* spawn_remaining_tiles takes its next tile, or ends.
DeferredSpawn ==
  LET waiting == {p \in center : needs_shell(p) /\ p \notin failed}
  IN  /\ running
      /\ deferred = 0
      /\ \/ /\ \E p \in waiting : spawn_terminal_into(p, NoWorker)
            /\ deferred' = next_term
         \/ /\ waiting = {}
            /\ deferred' = Finished
            /\ UNCHANGED <<spawning, pane_spawns, worker_id, next_term>>
      /\ UNCHANGED <<grid, items, alive, metadata, worker_panes, overflow, tasks, told,
                     failed, group, next_pane, next_overflow_id, external, outside>>

\* The end of a spawn_terminal_into task: the in-flight mark goes whatever happened,
\* and spawn_remaining_tiles moves on when it was waiting for this one.
\* Mutant: an error ends the loop's wait without resuming it.
SpawnEndsStuck(s, ok) ==
  /\ pane_spawns' = pane_spawns \ {s}
  /\ spawning' = spawning \ {s.pane}
  /\ deferred' = IF deferred = s.term /\ ok THEN 0 ELSE deferred
  /\ UNCHANGED <<failed, worker_id, metadata, worker_panes, overflow, tasks, told, group,
                 next_overflow_id, next_term, external>>
SpawnEnds(s, ok) ==
  /\ pane_spawns' = pane_spawns \ {s}
  /\ spawning' = spawning \ {s.pane}
  /\ deferred' = IF deferred = s.term THEN 0 ELSE deferred
  /\ failed' = IF deferred = s.term /\ ~ok THEN failed \cup {s.pane} ELSE failed
  /\ UNCHANGED <<worker_id, metadata, worker_panes, overflow, tasks, told, group,
                 next_overflow_id, next_term, external>>

ShellLands(s) ==
  /\ running
  /\ pane_exists(s.pane)
  /\ SpawnEnds(s, TRUE)
  /\ alive' = alive \cup {s.term}
  /\ add_item(s.pane, s.term)
  /\ Use(s.pane)
  /\ UNCHANGED <<held, foretold>>

\* The shell could not be created, or the pane is gone and the weak handle fails.
ShellFails(s) ==
  /\ running
  /\ SpawnEnds(s, FALSE)
  /\ UNCHANGED <<grid, items, alive, next_pane, outside>>

\* An item dragged or opened into tile p from outside the group.
AddExternal(p) ==
  /\ running
  /\ p \in center
  /\ external < MaxExternal /\ next_term <= MaxTerminals
  /\ external' = external + 1
  /\ next_term' = next_term + 1
  /\ alive' = alive \cup {next_term}
  /\ add_item(p, next_term)
  /\ UNCHANGED <<spawning, pane_spawns, worker_id, metadata, worker_panes, overflow,
                 tasks, told, restore, group, next_overflow_id, outside>>

\* adopt_terminal: terminal t gets a focused tile of its own.
adopt_terminal(t) ==
  /\ next_pane <= MaxPanes
  /\ items' = [items EXCEPT ![next_pane] = {t}]
  /\ center' = center \cup {next_pane}
  /\ active_pane' = next_pane
  /\ next_pane' = next_pane + 1

\* A terminal tab is dropped on the grid and the guard, which does not count tiles,
\* lets it in.  The deferred move runs before anything else does.
handle_drop ==
  /\ running
  /\ external < MaxExternal /\ next_term <= MaxTerminals
  /\ external' = external + 1
  /\ next_term' = next_term + 1
  /\ alive' = alive \cup {next_term}
  /\ adopt_terminal(next_term)
  /\ UNCHANGED <<magnified_pane, spawning, pane_spawns, worker_id, metadata, worker_panes,
                 overflow, tasks, told, restore, group, next_overflow_id, outside>>

-----------------------------------------------------------------------------
(* Closing *)

\* close_all_items: nothing to do for an empty pane.  w is the worker to respawn
\* under par afterwards, if any.
CloseTasks(p, w, par) ==
  {[pane |-> p, term |-> t, respawn |-> w, parent |-> par] : t \in items[p]}

close_tile(p) ==
  /\ running
  /\ p \in center \cup {active_pane} /\ items[p] # {}
  /\ closes' = closes \cup CloseTasks(p, NoWorker, NoWorker)
  /\ UNCHANGED <<grid, shells, metadata, worker_panes, overflow, respawns, told, restore,
                 group, next_pane, next_overflow_id, next_term, external, outside>>

\* register_task_finished for a terminal without a task: the shell has exited.  A clean
\* exit, or one after keyboard input, is CloseTerminal, on which every pane that shows
\* the terminal closes the item; otherwise the tab stays.  Nobody listens to an
\* overflow view.
ShellExits(t) ==
  /\ running
  /\ t \in alive
  /\ alive' = alive \ {t}
  /\ closes' \in {closes, closes \cup UNION {CloseTasks(p, NoWorker, NoWorker) :
                                p \in {q \in Panes : pane_exists(q) /\ t \in items[q]}}}
  /\ UNCHANGED <<grid, items, spawning, pane_spawns, worker_id, metadata, worker_panes,
                 overflow, respawns, told, restore, group, next_pane, next_overflow_id,
                 next_term, external, outside>>

\* Mutant: the emptied tile stays, worker and all.
leave_tile(p) == UNCHANGED <<grid, spawning, status, worker_panes, told, group>>
\* remove_tile: with one tile in the grid, whatever the pane, the group asks to be
\* closed.  The entry under the pane's own id goes first, so Closed is only emitted for
\* a worker whose id is not the pane's; one worker whose tile it is goes next.
remove_tile(p) ==
  \/ /\ LastTile
     /\ group' = "closing"
     /\ UNCHANGED <<grid, spawning, status, worker_panes, told>>
  \/ /\ ~LastTile
     /\ magnified_pane' = Unmagnified(p)
     /\ spawning' = spawning \ {p}
     /\ \E found \in IF WorkersOf(p) = {} THEN {p} ELSE WorkersOf(p) :
          LET gone == {p, found}
          IN /\ worker_panes' = [w \in WorkerIds |-> IF w \in gone THEN NoPane
                                                   ELSE worker_panes[w]]
             /\ status' = [w \in WorkerIds |-> IF w \in gone THEN NoStatus ELSE status[w]]
             /\ told' = [w \in WorkerIds |->
                 IF w \in gone \ {p} /\ status[w] # NoStatus THEN NoStatus ELSE told[w]]
     /\ center' = center \ {p}
     /\ active_pane' \in IF p \in center THEN center \ {p} ELSE {active_pane}
     /\ UNCHANGED group

\* The task of Pane::close_items (workspace/src/pane.rs) ends: the item goes and its
\* shell with it, the pane, once empty, sends Remove and the group removes the tile,
\* and a restart waiting for the close continues.  A pane that was dropped has no items.
CloseFinishes(c) ==
  /\ running
  /\ closes' = closes \ {c}
  /\ respawns' = IF c.respawn = NoWorker THEN respawns
                 ELSE respawns \cup {[id |-> c.respawn, parent |-> c.parent]}
  /\ IF pane_exists(c.pane) /\ c.term \in items[c.pane]
     THEN /\ items' = [items EXCEPT ![c.pane] = @ \ {c.term}]
          /\ alive' = IF Elsewhere(c.term, c.pane) THEN alive ELSE alive \ {c.term}
          /\ Use(c.pane)
          /\ IF items[c.pane] = {c.term} THEN remove_tile(c.pane)
             ELSE UNCHANGED <<grid, spawning, status, worker_panes, told, group>>
     ELSE UNCHANGED <<grid, items, spawning, alive, status, worker_panes, told, group, strayed>>
  /\ UNCHANGED <<pane_spawns, worker_id, parent, overflow, restore, next_pane,
                 next_overflow_id, next_term, external, held, foretold>>

\* The workspace acts on CloseItem: everything the group holds is dropped, and a dialog
\* or a drag keeps what it holds.
GroupCloses ==
  /\ group = "closing"
  /\ group' = "closed"
  /\ alive' = alive \cap UNION {items[p] : p \in held}
  /\ UNCHANGED <<grid, items, spawning, pane_spawns, worker_id, metadata, worker_panes,
                 overflow, tasks, told, restore, next_pane, next_overflow_id, next_term,
                 external, outside>>

-----------------------------------------------------------------------------
(* Panes a dialog or a drag holds: they may leave the grid meanwhile *)

\* prompt_custom_command opens the dialog for a tile or the focused pane; a drag takes
\* up a tile; a move of the drag resolves its target.
HoldPane(p) ==
  /\ running
  /\ p \in (center \cup {active_pane}) \ held
  /\ Cardinality(held) < MaxHeld
  /\ held' = held \cup {p}
  /\ UNCHANGED <<grid, shells, metadata, worker_panes, overflow, tasks, told, restore,
                 group, next_pane, next_overflow_id, next_term, external, strayed, foretold>>

\* The handle goes, and with the last one the pane and what it shows.
drop_pane(p) ==
  /\ held' = held \ {p}
  /\ items' = IF in_use(p) THEN items ELSE [items EXCEPT ![p] = {}]
  /\ alive' = IF in_use(p) THEN alive
              ELSE {t \in alive : t \in items[p] => Elsewhere(t, p)}

\* The dialog is dismissed or confirmed in vain (a shell is on the way, the guard
\* refuses); the drag is cancelled or its drop refused.
LetGo(p) ==
  /\ p \in held
  /\ drop_pane(p)
  /\ UNCHANGED <<grid, spawning, pane_spawns, worker_id, metadata, worker_panes, overflow,
                 tasks, told, restore, group, next_pane, next_overflow_id, next_term, external,
                 strayed, foretold>>

\* CustomCommandModal::confirm: the command runs in the dialog's pane if that is empty,
\* and beside it (spawn_agent_beside) if not.  Nothing asks whether the pane is still a
\* tile.
ConfirmCommand(p) ==
  /\ running
  /\ p \in held
  /\ \/ /\ start_terminal_in_pane(p)
        /\ held' = held \ {p}
        /\ Use(p)
        /\ UNCHANGED <<grid, items, alive, overflow_spawns, next_pane, next_overflow_id>>
     \/ /\ items[p] # {}
        /\ control_spawn(NoWorker, status, worker_panes, told)
        /\ drop_pane(p)
        /\ UNCHANGED strayed
  /\ UNCHANGED <<overflow_view, overflow_status, tasks, restore, group, external, foretold>>

\* apply_drop of pane p on pane q when one of them is not, or no longer, a tile: a swap
\* in a grid of several tiles puts one in the other's place, and an edge of the only
\* tile lets p in.  (A drop with two tiles of the grid is FocusTile here; that the only
\* tile dropped beside a closed one appears twice is shown in TileTree.)
DropAstray(p, q) ==
  /\ running
  /\ {p, q} \subseteq center \cup held /\ ~({p, q} \subseteq center)
  /\ \/ /\ p # q
        /\ center' = IF LastTile THEN center
                     ELSE {IF x = p THEN q ELSE IF x = q THEN p ELSE x : x \in center}
     \/ /\ p # q /\ (LastTile \/ p \in center)
        /\ center' = center \cup {p}
     \/ /\ LastTile \/ p \in center
        /\ UNCHANGED center
  /\ active_pane' = p
  /\ held' = held \ {p, q}
  /\ strayed' = TRUE
  /\ UNCHANGED <<magnified_pane, shells, metadata, worker_panes, overflow, tasks, told, restore,
                 group, next_pane, next_overflow_id, next_term, external, foretold>>

-----------------------------------------------------------------------------
(* The control plane and Mission Control *)

\* control_spawn and spawn_agent_beside.  The parent id is the caller's word.
SpawnWorker(par) ==
  /\ running
  /\ control_spawn(par, status, worker_panes, told)
  /\ Name(par)
  /\ UNCHANGED <<items, alive, overflow_view, overflow_status, tasks, restore, group, external,
                 held, strayed>>

OverflowLands(s) ==
  /\ running
  /\ overflow_spawns' = overflow_spawns \ {s}
  /\ LET st == IF status[s.id] = NoStatus THEN "starting" ELSE status[s.id]
     IN  /\ status' = [status EXCEPT ![s.id] = st]
         /\ overflow_status' = [overflow_status EXCEPT ![s.id] = st]
  /\ parent' = [parent EXCEPT ![s.id] = IF status[s.id] = NoStatus THEN s.parent ELSE @]
  /\ overflow_view' = [overflow_view EXCEPT ![s.id] = s.term]
  /\ alive' = alive \cup {s.term}
  /\ told' = Spawned(told, s.id)
  /\ UNCHANGED <<grid, items, spawning, pane_spawns, worker_id, worker_panes, tasks,
                 restore, group, next_pane, next_overflow_id, next_term, external, outside>>

OverflowFails(s) ==
  /\ running
  /\ overflow_spawns' = overflow_spawns \ {s}
  /\ status' = [status EXCEPT ![s.id] = IF @ = NoStatus THEN NoStatus ELSE "failed"]
  /\ told' = [told EXCEPT ![s.id] = "failed"]
  /\ UNCHANGED <<grid, shells, parent, worker_panes, overflow_view, overflow_status, tasks,
                 restore, group, next_pane, next_overflow_id, next_term, external, outside>>

control_report(w, st) ==
  /\ running
  /\ status[w] # NoStatus
  /\ status' = [status EXCEPT ![w] = st]
  /\ told' = [told EXCEPT ![w] = st]
  /\ UNCHANGED <<grid, shells, parent, worker_panes, overflow, tasks, restore, group,
                 next_pane, next_overflow_id, next_term, external, outside>>

\* control_pause and control_resume, when the signal reaches a process.
Signal(w, st) ==
  /\ running
  /\ Resolve(w) \in alive
  /\ status' = [status EXCEPT ![w] = IF @ = NoStatus THEN NoStatus ELSE st]
  /\ UNCHANGED <<grid, shells, parent, worker_panes, overflow, tasks, told, restore, group,
                 next_pane, next_overflow_id, next_term, external, outside>>

control_pause(w) == Signal(w, "paused")
control_resume(w) == Signal(w, "working")

\* control_close of every worker of W that exists: an overflow view is dropped with
\* its shell, a visible one closes its tile.
CloseWorkers(W) ==
  LET off == {w \in W : overflow_view[w] # NoTerm}
      on  == {w \in W \ off : worker_panes[w] # NoPane}
  IN  /\ running
      /\ off \cup on # {}
      /\ overflow_view' = [w \in WorkerIds |-> IF w \in off THEN NoTerm ELSE overflow_view[w]]
      /\ overflow_status' =
           [w \in WorkerIds |-> IF w \in off THEN NoStatus ELSE overflow_status[w]]
      /\ alive' = alive \ Ended({overflow_view[w] : w \in off})
      /\ status' = [w \in WorkerIds |-> IF w \in off \cup on THEN NoStatus ELSE status[w]]
      /\ worker_panes' =
           [w \in WorkerIds |-> IF w \in off \cup on THEN NoPane ELSE worker_panes[w]]
      /\ told' = [w \in WorkerIds |-> IF w \in off \cup on THEN NoStatus ELSE told[w]]
      /\ closes' = closes \cup
           UNION {CloseTasks(worker_panes[w], NoWorker, NoWorker) : w \in on}
      /\ UNCHANGED <<grid, items, spawning, pane_spawns, worker_id, parent, overflow_spawns,
                     respawns, restore, group, next_pane, next_overflow_id, next_term,
                     external, outside>>

control_close(w) == CloseWorkers({w})

\* The worklist of control_close_subtree: the least set with the root and every
\* child of a member.
Subtree(root) ==
  LET Closed(S) == \A w \in WorkerIds : status[w] # NoStatus /\ parent[w] \in S => w \in S
  IN  {w \in WorkerIds : \A S \in SUBSET WorkerIds : root \in S /\ Closed(S) => w \in S}

control_close_subtree(root) == CloseWorkers(Subtree(root))

\* control_restart of an overflow worker: close, then spawn in the same tick.
RestartOverflow(w) ==
  /\ running
  /\ status[w] # NoStatus /\ overflow_view[w] # NoTerm
  /\ overflow_view' = [overflow_view EXCEPT ![w] = NoTerm]
  /\ overflow_status' = [overflow_status EXCEPT ![w] = NoStatus]
  /\ alive' = alive \ Ended({overflow_view[w]})
  /\ LET st == [status EXCEPT ![w] = NoStatus]
         wp == [worker_panes EXCEPT ![w] = NoPane]
         tl == [told EXCEPT ![w] = NoStatus]
     IN  control_spawn(parent[w], st, wp, tl) \/ control_spawn_refused(st, wp, tl)
  /\ UNCHANGED <<items, tasks, restore, group, external, outside>>

\* control_restart of a visible worker: the respawn waits for the tile to close,
\* or for nothing when the tile is still empty.
RestartVisible(w) ==
  /\ running
  /\ Cardinality(respawns) + Cardinality({c \in closes : c.respawn # NoWorker}) < MaxRestarts
  /\ status[w] # NoStatus /\ overflow_view[w] = NoTerm /\ worker_panes[w] # NoPane
  /\ status' = [status EXCEPT ![w] = NoStatus]
  /\ told' = [told EXCEPT ![w] = NoStatus]
  /\ closes' = closes \cup CloseTasks(worker_panes[w], w, parent[w])
  /\ respawns' = IF items[worker_panes[w]] = {}
                 THEN respawns \cup {[id |-> w, parent |-> parent[w]]} ELSE respawns
  /\ UNCHANGED <<grid, shells, parent, worker_panes, overflow, restore, group, next_pane,
                 next_overflow_id, next_term, external, outside>>

\* The continuation of control_restart.
Respawn(r) ==
  /\ running
  /\ respawns' = respawns \ {r}
  /\ \/ control_spawn(r.parent, status, worker_panes, told)
     \/ control_spawn_refused(status, worker_panes, told)
  /\ UNCHANGED <<items, alive, overflow_view, overflow_status, closes, restore, group, external,
                 outside>>

\* Mutant: the tile's existence is not checked.
FocusWorkerUnchecked(w) ==
  /\ running
  /\ overflow_view[w] = NoTerm
  /\ active_pane' = worker_panes[w]
  /\ UNCHANGED <<center, magnified_pane, shells, metadata, worker_panes, overflow, tasks,
                 told, restore, group, next_pane, next_overflow_id, next_term, external, outside>>
\* control_focus of a visible worker.
FocusWorker(w) ==
  /\ running
  /\ overflow_view[w] = NoTerm /\ worker_panes[w] # NoPane
  /\ active_pane' = worker_panes[w]
  /\ UNCHANGED <<center, magnified_pane, shells, metadata, worker_panes, overflow, tasks,
                 told, restore, group, next_pane, next_overflow_id, next_term, external, outside>>

\* control_focus of an overflow worker: its terminal moves into a new tile, and the
\* metadata becomes the overflow copy.
promote_worker(w) ==
  /\ running
  /\ overflow_view[w] # NoTerm /\ ~at_visible_cap /\ next_pane <= MaxPanes
  /\ overflow_view' = TakeOverflow(w)
  /\ overflow_status' = [overflow_status EXCEPT ![w] = NoStatus]
  /\ center' = center \cup {next_pane}
  /\ items' = [items EXCEPT ![next_pane] = {overflow_view[w]}]
  /\ worker_panes' = [worker_panes EXCEPT ![w] = next_pane]
  /\ status' = [status EXCEPT ![w] = overflow_status[w]]
  /\ told' = [told EXCEPT ![w] = "working"]
  /\ active_pane' = next_pane
  /\ next_pane' = next_pane + 1
  /\ UNCHANGED <<magnified_pane, spawning, pane_spawns, worker_id, alive, parent,
                 overflow_spawns, tasks, restore, group, next_overflow_id, next_term, external,
                 outside>>

\* demote_worker and remove_tile_from_tree: the terminal moves into the overflow
\* set under the same id and its tile is dropped, unless somebody holds it.
demote_worker(w) ==
  LET p  == worker_panes[w]
      st == IF status[w] = NoStatus THEN "working" ELSE status[w]
  IN  /\ running
      /\ Cardinality(center) > 1 /\ p # NoPane
      /\ \E t \in items[p] : overflow_view' = [overflow_view EXCEPT ![w] = t]
      /\ overflow_status' = [overflow_status EXCEPT ![w] = st]
      /\ status' = [status EXCEPT ![p] = NoStatus, ![w] = st]
      /\ parent' = [parent EXCEPT ![w] = IF status[w] = NoStatus THEN NoWorker ELSE @]
      /\ worker_panes' = [x \in WorkerIds |-> IF worker_panes[x] = p THEN NoPane
                                              ELSE worker_panes[x]]
      /\ spawning' = spawning \ {p}
      /\ center' = center \ {p}
      /\ active_pane' \in IF p \in center THEN center \ {p} ELSE {active_pane}
      /\ items' = IF p \in held \cup {active_pane'} THEN items ELSE [items EXCEPT ![p] = {}]
      /\ magnified_pane' = Unmagnified(p)
      /\ told' = [told EXCEPT ![w] = "working"]
      /\ UNCHANGED <<pane_spawns, worker_id, alive, overflow_spawns, tasks, restore, group,
                     next_pane, next_overflow_id, next_term, external, outside>>

-----------------------------------------------------------------------------
GridStep ==
  \/ SplitTile \/ DeferredSpawn \/ handle_drop \/ GroupCloses
  \/ \E p \in Panes :
       \/ FocusTile(p) \/ toggle_magnify(p) \/ StartShell(p) \/ StartWorker(p)
       \/ AddExternal(p) \/ close_tile(p)
       \/ HoldPane(p) \/ LetGo(p) \/ ConfirmCommand(p)
  \/ \E p, q \in center \cup held : DropAstray(p, q)
  \/ \E t \in Terminals : ShellExits(t)

\* Tasks that finish in a later tick.
TaskStep ==
  \/ \E s \in pane_spawns : ShellLands(s) \/ ShellFails(s)
  \/ \E s \in overflow_spawns : OverflowLands(s) \/ OverflowFails(s)
  \/ \E c \in closes : CloseFinishes(c)
  \/ \E r \in respawns : Respawn(r)

ControlStep ==
  \/ \E par \in {NoWorker} \cup (IF Nested THEN WorkerIds ELSE {}) : SpawnWorker(par)
  \/ \E w \in WorkerIds :
       \/ \E st \in ReportStatuses : control_report(w, st)
       \/ control_pause(w) \/ control_resume(w)
       \/ control_close(w) \/ control_close_subtree(w)
       \/ RestartOverflow(w) \/ RestartVisible(w)
       \/ FocusWorker(w) \/ promote_worker(w) \/ demote_worker(w)

Next == GridStep \/ TaskStep \/ ControlStep

Spec == Init /\ [][Next]_vars

\* The executor runs every task that is ready: shells that were asked for start or
\* fail, closes finish, the deferred loop goes on.  Nobody has to act.
Fairness ==
  /\ WF_vars(DeferredSpawn)
  /\ \A t \in Terminals :
       /\ WF_vars(\E s \in pane_spawns : s.term = t /\ (ShellLands(s) \/ ShellFails(s)))
       /\ WF_vars(\E c \in closes : c.term = t /\ CloseFinishes(c))

FairSpec == Spec /\ Fairness

-----------------------------------------------------------------------------
(* Properties *)

\* TG-1: a tile holds at most one terminal, whatever lands in it while its own
\* shell is still starting.
OneTerminalPerTile == \A p \in Panes : \A t, u \in items[p] : t = u

\* Until a pane outside the grid is used (DropAstray, a late ConfirmCommand, a shell or
\* a close that reaches a pane a dialog still holds), every terminal has one home: a tile
\* of the grid or an overflow entry, at most one of them, and a running shell has one,
\* or is shown in a pane that somebody holds.  Promotion, demotion and closing neither
\* duplicate a PTY nor strand it.
Homes(t) == {p \in center : t \in items[p]}
              \cup {MaxPanes + w : w \in {x \in WorkerIds : overflow_view[x] = t}}
OneHome ==
  ~strayed =>
    /\ \A t \in Terminals : \A h1, h2 \in Homes(t) : h1 = h2
    /\ \A t \in alive : Homes(t) # {} \/ \E p \in held : t \in items[p]
    /\ \A p \in Panes : items[p] # {} => p \in center \cup held

\* A worker is on the grid or in overflow, never both, its tile is in the grid and
\* nobody else's: the control plane resolves a listed id to one place, until a pane
\* outside the grid is used.  (In a closing group the launcher of the emptied last tile
\* can start a second worker there.)
WorkerHome ==
  group = "open" /\ ~strayed =>
    /\ \A w \in WorkerIds : overflow_view[w] # NoTerm => worker_panes[w] = NoPane
    /\ \A w \in WorkerIds : worker_panes[w] \in center \cup {NoPane}
    /\ \A v, w \in WorkerIds :
         worker_panes[v] = worker_panes[w] /\ worker_panes[v] # NoPane => v = w
    /\ \A w \in WorkerIds :
         status[w] # NoStatus => worker_panes[w] # NoPane \/ overflow_view[w] # NoTerm
    /\ \A w \in WorkerIds : overflow_view[w] # NoTerm => status[w] # NoStatus

\* A worker id never resolves to the shell of another worker: what is sent to w is
\* not typed into the terminal that carries somebody else's RDG_WORKER_ID.
NeverForeign ==
  group = "open" => \A w \in WorkerIds :
    Resolve(w) # NoTerm => worker_id[Resolve(w)] \in {w, NoWorker}

\* No more than max_tiles tiles, by splitting, spawning, promoting, restarting or
\* restoring.  (What comes from outside, and a stale tile dropped beside the only one,
\* are let in whatever the cap.)
CapHolds == external = 0 /\ ~strayed => Cardinality(center) <= MaxTiles

\* A tile never has two shells on the way, nor one while it holds a terminal: the
\* comment on `spawning`, against focus, launcher and deferred spawns racing.
OneShellPerTile ==
  /\ \A s1, s2 \in pane_spawns : s1.pane = s2.pane => s1 = s2
  /\ \A s \in pane_spawns : s.pane \in spawning /\ items[s.pane] = {}

\* A registered worker keeps its terminal: moves between grid and overflow never
\* exchange it, and only a group that is closing or closed loses it (until a pane outside
\* the grid is used).
KeepsTerminal ==
  [][~strayed' => \A w \in WorkerIds :
       status[w] # NoStatus /\ status'[w] # NoStatus /\ Resolve(w) # NoTerm
         => \/ Resolve(w)' = Resolve(w)
            \/ Resolve(w)' = NoTerm /\ group' # "open"]_vars

\* Focus and magnification stay on tiles of the grid, however tiles come and go, until
\* the group closes or a pane outside the grid is used.
FocusInGrid ==
  group = "open" /\ ~strayed =>
    /\ active_pane \in center
    /\ magnified_pane \in center \cup {NoPane}

\* Whatever is supervised has been announced on the event stream, and not retracted.
WorkersAnnounced == \A w \in WorkerIds : status[w] # NoStatus => told[w] # NoStatus

\* control_list: workers on the grid, bare tiles, overflow workers.
Listed ==
  {w \in WorkerIds : worker_panes[w] # NoPane \/ overflow_view[w] # NoTerm}
    \cup {p \in center : \A w \in WorkerIds : worker_panes[w] # p}
ListedParent(w) == IF status[w] = NoStatus THEN NoWorker ELSE parent[w]

\* control_tree: a worker hangs below its parent when that is listed, else it is a root.
control_tree ==
  LET Roots == {w \in Listed : ListedParent(w) \notin Listed}
      Closed(S) == \A w \in Listed : ListedParent(w) \in S => w \in S
  IN  {w \in Listed : \A S \in SUBSET Listed : Roots \subseteq S /\ Closed(S) => w \in S}

\* Mission Control shows every worker, whatever parents are named, as long as no parent
\* is named before its id is handed out: an ancestry then never closes into a ring.
TreeShowsAll == ~foretold => control_tree = Listed

\* The loop that starts the shells of a restored grid comes to an end.
DeferredFinishes == <>(deferred = Finished \/ group # "open" \/ next_term > MaxTerminals)

-----------------------------------------------------------------------------
(* What the documentation or a comment says and the code does not do *)

\* product/ROADMAP.md: "No orphaned PTYs/workers on close, quit, or crash".  A running
\* shell that was started for a worker is that worker's terminal, or is being closed.
NoOrphanedWorker ==
  \A t \in alive : worker_id[t] # NoWorker
    => Resolve(worker_id[t]) = t \/ \E c \in closes : c.term = t

\* docs/src/terminal.md: "Open Mission Control to see every worker as a tree".
EveryWorkerInTree == control_tree = Listed
=============================================================================

# Verification of rdg: terminal groups, remote connections, text buffers

rdg is a fork of the Zed editor. What it adds to Zed is the *terminal group*
(`crates/terminal_group`): a tab that holds a grid of terminals, some of them
supervised agents ("workers") that a user or another agent starts, watches, pauses,
moves and closes through a control plane. This directory holds TLA+ models of that
group, of the tree its grid is built from (`crates/workspace/src/pane_group.rs`), of
the single-value channel the application's tasks use to wait for changes
(`crates/watch`), and of the parts of the editor on which remote work and
collaboration rest: the connection to a remote host (`crates/remote`) and the
replicated text buffer (`crates/text`).

| module | what it is | used by |
| --- | --- | --- |
| `Watch` | the channel: versions, wakers, futures | `MCWatch.cfg`, `WatchProofs` |
| `WatchProofs` | TLAPS proofs about `Watch` | |
| `TerminalGroup` | tiles, shells, workers, overflow, tasks in flight, dialogs and drags | `MCGroup.cfg`, `MCGroupRestored.cfg`, `GroupOrphan.cfg`, `GroupRestoredTree.cfg` |
| `TerminalGroupProofs` | TLAPS proofs: types, the event stream, where workers, terminals and the focus are, Mission Control's tree | |
| `TerminalGroupShells` | TLAPS proofs: shells per tile, the cap, whose shell answers | |
| `TileTree` | the tree of tiles: splits, moves, sizes, drags | `MCTile.cfg` |
| `TileOrder` | abstract: the reading order of the tiles | implemented by `TileTree` |
| `RemoteChannel` | messages between the editor and a remote server | `MCChannel.cfg`, `ChannelSecondDrop.cfg` |
| `RemoteChannelProofs` | TLAPS proofs: types, ids, answers | |
| `RemoteChannelDelivery` | TLAPS proofs: what reaches the other end, and how often | |
| `RemoteClient` | the states of a remote connection, its tasks, the pool | `MCClient.cfg`, `ClientSilence.cfg` |
| `RemoteClientProofs` | TLAPS proofs: the pool, heartbeats, the end of a client | |
| `TextBuffer` | replicas of a text: edits, undo, deferred operations | `MCText.cfg`, `MCTextUndo.cfg` |
| `TextBufferReplicas` | TLAPS proofs: a version stands for a set of operations; the queue, visibility, undo stacks | |
| `TextBufferConvergence` | TLAPS proofs: one order of all characters; same operations, same text | |
| `MCWatch`, `MCTerminalGroup`, `MCTileTree`, `MCRemoteChannel`, `MCRemoteClient`, `MCTextBuffer` | instances for TLC | |

`PROJECT.json` maps every definition to the lines it models and lists the runs, the
mutants that each property must catch, the findings, the hazards and the theorems.

## 1. Inventory

### Watch channel (`crates/watch/src/watch.rs`)

*State*: one `State` behind an `RwLock` in an `Arc`: the value, a wrapping `version`,
`closed`, a map of wakers with ever-growing ids; per receiver the version it has seen;
per pending `Changed` future the id of its waker.
*Operations*: `send`, `Sender::receiver`, clone, `borrow`, `changed().await`, `recv`,
dropping a sender, a receiver or a pending future.
*Hard*: `send` takes the wakers with the lock held and calls them without it; a future
is polled spuriously, cancelled, or dropped at any moment; the version wraps.
*Correct if* a change or the end of the channel always reaches a waiting task, no waker
outlives its future, and a receiver can tell whether it missed something.

### Terminal group (`crates/terminal_group/src/terminal_group.rs`)

*State*: the tree of panes (`center`), the active and the magnified pane, `spawning`
(panes with a shell on the way), `worker_metadata` and `worker_panes` by worker id,
`overflow_workers` (workers with a terminal and no tile), `next_overflow_id`, the task
that starts the shells of a restored grid. A worker's id is its pane's id, or an id above
`OVERFLOW_ID_BASE` when it started in overflow; it never changes while it lives.
*Operations*: splitting, starting a shell or a command in an empty tile, focus, swap,
equalize, magnify, close; `control_spawn`, `_send`, `_report`, `_pause`, `_resume`,
`_close`, `_close_subtree`, `_restart`, `_focus` (which promotes), `_demote`, `_list`,
`_tree`; adopting a terminal from another pane; restoring a layout; moving a group to a
window of its own and back.
*Interaction*: panes send Focus, Split, AddItem and Remove events to the group; the
terminal view asks its pane to close when the shell exits; the group asks the workspace
to close its tab; the control plane (`crates/rdg/src/rdg/open_listener.rs`) calls the
`control_*` operations and forwards `WorkerEvent`s to `watch` connections.
*Hard*: everything runs on one thread, but starting a shell, closing the items of a pane
and the second half of a restart are tasks that end in a later tick, and every other
operation may happen in between. The command dialog and a drag hold panes for as long as
the user takes, and the tile may be gone when they act.
*Correct if* a tile has one terminal (TG-1 in the code), a terminal one home, a worker
one place; a worker's id leads to its own shell; the visible cap holds; whatever is
supervised was announced and what ended is told; focus never leaves the grid.

### Tile tree (`crates/workspace/src/pane_group.rs`)

*State*: members (pane or axis), a flex per member of an axis.
*Operations*: `split`, `remove`, `swap`, `move_to_border`, `resize`, `reset_pane_sizes`,
and the group's `restore_sibling_sizes` and `apply_drop`.
*Hard*: recursion with collapsing axes; indices that shift while sizes are rebuilt;
drags that last longer than the tiles they refer to.
*Correct if* no tile is lost or doubled, every axis has at least two members whose sizes
add up, and an operation moves and resizes only the tiles it is about.

### Remote channel (`ChannelClient` in `crates/remote/src/remote_client.rs`)

*State*, at each end: the next message id, the id received last, the buffer of envelopes
not acknowledged yet, the requests and streams that wait for an answer, the queues of the
transport in use, whether the peer has said hello.
*Operations*: `send`, `request`, `request_stream`, answering, one turn of the handling
loop, `reconnect` with `resync`, dropping a stream.
*Interaction*: carries everything between the editor and the remote server, the operations
of text buffers among them; `RemoteClient` starts and replaces the transport.
*Hard*: a connection can drop with messages in both directions on the way, again during a
resync; acknowledgements refer to ids in an order the wire need not keep; answers come
late, twice, or to nobody.
*Correct if* nothing given to it is lost, an answer resolves the request it is for, and
both ends catch up once the connection stays.

### Remote client and connection pool (same file)

*State*: the client's `State`; the tasks of `new`, `reconnect`, `monitor` and `heartbeat`;
the pool's entry for the host; which connections were killed.
*Operations*: opening, connecting through the pool, the reconnect attempts, heartbeat
results, the end of a proxy, the debugging commands, the end of the project.
*Interaction*: windows of the same host share a connection through the pool, each with a
proxy of its own; a kill by one ends the proxies of the others.
*Hard*: four tasks act on one state that each takes and puts back; results arrive after
the client has moved on; timeouts race answers; two windows reconnect at once.
*Correct if* at most one live connection per host is used, a reconnect ends, its end is
told once and is final, and a dead or silent server is noticed.

### Text buffer (`crates/text`, `crates/clock`)

*State*, at each replica: the fragments in order with their deletions and visibility, the
version vector, the Lamport clock, the undo map, the queue of deferred operations, the
stacks of transactions, those who wait for a version or an edit.
*Operations*: `edit`, transactions, `undo`, `undo_transaction`, `redo`, `apply_ops`,
`wait_for_edits`, `wait_for_version`, `give_up_waiting`.
*Interaction*: operations travel through the project's channel, `RemoteChannel` for a
remote project, which repeats and reorders them after a lost connection.
*Hard*: operations arrive in any order, twice, and before what they depend on; each names
places in a version the replica has left behind; undos meet deletions of the same text.
*Correct if* replicas with the same operations have the same text, whatever the order;
no operation is skipped or forgotten; undo and redo do what they say.

### Other parts

* **Split guard** (`split_guard.rs`): decides from sizes whether a split is usable, turns
  it or refuses it. Pure. *Correct if* what it accepts fits the minimum.
* **Drop zones** (`drag.rs`): from a pointer position to a zone. Pure.
* **Persistence** (`persistence.rs`, `serialize`, `restore_layout`): saves the tree, focus
  and overflow commands on `UpdateTab`; a layout with too many tiles, a newer version or a
  malformed tree is discarded. *Correct if* what is saved is what is restored.
* **Control plane**: one request, one operation; `watch` streams events.
* **Agent discovery**, **tile header**: no state.
* **The rest of the editor** (ropes, editor, language servers, debugger, the
  collaboration server's rpc, database, worktree, extensions, gpui, vim, settings, UI):
  inherited from Zed. `PROJECT.json` lists these parts with the reason each is left out.

## 2. Plan

1. *(done)* `Watch` with its proofs: the smallest component with real concurrency.
2. *(done)* `TerminalGroup`: all operations that change workers, tiles or shells.
3. *(done)* `TileTree` and its abstract specification `TileOrder`.
4. *(done)* `TerminalGroupProofs` and `TerminalGroupShells`: every safety property of the
   group's runs as a theorem.
5. *(done)* `RemoteChannel`: lost connections, resync and what reaches the other end.
6. *(done)* `RemoteClient`: the connection's states, its tasks and the pool.
7. *(done)* `TextBuffer`: convergence, undo, deferred operations.
8. *(done)* `RemoteChannelProofs`, `RemoteChannelDelivery` and `RemoteClientProofs`: every
   safety property of their runs as a theorem, for any number of messages, drops, clients,
   attempts and beats. `TextBufferReplicas` and `TextBufferConvergence`: every safety
   property of the text buffer's runs, for any number of replicas, operations and
   characters.
9. `SplitGuard`: `resolve_split` over integers, with theorems on what it accepts.
10. `GroupPersistence`: saving on `UpdateTab`, crash, validation, restore; the set of
    workers that a restart brings back against the set that was running.
11. `ControlPlane`: a watch connection next to the group: list, then events, with the
    group closing or being detached in between.
12. Detach and reattach of a group (`detach_group`, `reattach`), as actions that hand the
    group from one workspace to another.

## 3. The models

### Watch

One action per critical section. `Send` replaces the value and takes the wakers with the
lock held; each `Wake` calls one of them outside it; `SendReturns` ends it. `SendUnobserved`
is the path on which `Arc::get_mut` succeeds. `PollReady`, `PollClosed` and `PollPending`
are the three outcomes of `Changed::poll`; `CancelChanged` and `DropReceiver` run
`Drop for Changed`. Wakers are pairs of id and receiver; a waker's effect is that the
receiver's task is scheduled. The version counts modulo a constant, as `wrapping_add`
does; `unseen` is a history variable that counts the sends a receiver has not looked at.

### TerminalGroup

Each foreground handler is one action with everything it does before it yields; each task
that ends later is an element of a set (`pane_spawns`, `overflow_spawns`, `closes`,
`respawns`) with an action that ends it. The end of a shell start is `ShellLands` or
`ShellFails`; the latter also stands for a tile that is gone. `add_item` includes
`enforce_single_terminal`, which the AddItem event runs in the same tick. A close task
removes the item, then the emptied tile (`remove_tile`); the last tile asks for the group
to close, and `GroupCloses` is the workspace doing so. `told` is what a watcher that has
followed `WorkerEvent`s believes.

Abstractions: the grid is a set, so "the first pane" and "beside the active pane" are any
pane (positions are `TileTree`'s subject); the split guard may refuse any split; a shell's
environment is the one value `RDG_WORKER_ID`; commands, summaries, titles and directories
are left out; `control_send` changes nothing in the group and is the operator `Resolve`,
the terminal it would write to. Attempts that the code refuses without a trace (a
promotion at the cap, a report for an unknown worker) are stuttering steps.

`held` is the set of panes that a command dialog or a drag holds. A held pane keeps what it
shows after its tile has left the grid (`pane_exists`, `drop_pane`); `ConfirmCommand` starts
the command in it, in the grid or not, and `DropAstray` is a drop of, or on, a pane that is
no tile. The launcher of the empty group (`StartShell`, `StartWorker`) is drawn for a tile
of the grid; the function it shares with the dialog, `start_terminal_in_pane`, has no such
guard. Two history variables say when the code has left the ground its bookkeeping is made
for: `strayed`, when a pane outside the grid was used by a command, a drop, a shell or a
close, and `foretold`, when a worker was given a parent id that had not been handed out (a
caller of the control plane names any parent, a saved layout brings its own). A shell that
exits closes its tab, or leaves it when it failed without keyboard input.

A restored group starts as `restore_layout` leaves it: tiles empty, the focused one
starting, the deferred loop ready, overflow workers starting again with new ids and the
*saved* parent ids.

### TileTree and TileOrder

Members are records; a flex is kept as the member's share of its axis in integers
(`Unit` for the whole axis), which is what painting uses of it, so "sizes add up" is an
exact statement where the code compares floats with a tolerance. `resize` moves one divider
of one axis by `Step`, the common effect of `PaneAxis::resize` and a divider drag (a drag
that pushes on through siblings at their least size is one such step for each), or makes an
axis equal, as a double click on a divider does. A drag carries the dragged pane, which may
belong to another group (`Foreign`: nothing in `on_drop` compares groups); the target is
what the last move resolved. Tiles may close under a drag. `Astray` says when a drop needs a
pane in the tree that is not there, and the history variable `misdropped` that it happened.
`TileOrder` is the abstract promise: a sequence of tiles without repetition that changes by
inserting one, deleting one, exchanging two or moving one; the refinement maps it to the
panes in reading order. It holds up to the first such drop.

The module uses recursive operators over trees and is for TLC only.

### RemoteChannel

Both ends run the same code and share one set of actions. An envelope is its id, kind,
`responding_to` and `ack_id`. `receive` is one turn of the handling loop, split by what the
envelope is; the common part (`take`, `record`) pops the buffer by `ack_id` and stores
`max_received`. The wire of each direction is a FIFO that is emptied by `disconnect`;
`reconnect` is the new transport together with the flush that `resync` sends in the same
poll. Because the loop waits for the requester to take a response, the resend that follows
the answer is part of `receive_flushed`. Requests and streams are one set of records;
handlers are entries of `serving` that answer in any order. `posted`, `heard` and
`answered` are history variables.

Payloads are kinds only. Hellos and the flush are neither buffered nor recorded, as in the
code. The application of both ends starts after the hello of the peer. A consumer that keeps
its stream is assumed to poll it: one that does not would stop the handling loop.

### RemoteClient

The connection is the one of ssh (`SshRemoteConnection`): killing it sets a flag for good,
which is what `has_been_killed` answers, and each window has its own proxy over it. Docker and
wsl connections go through the same pool and answer otherwise (`transport/docker.rs:663`,
`:721`, `:765`: killed means "no proxy", true until the first `start_proxy`, and a
`start_proxy` kills the proxy of another window; `transport/wsl.rs:515`: never killed). They
are not modelled, and `OneConnection` is not claimed for them: over docker a window that asks
the pool between another's attempt and its `start_proxy` is given a second connection.

A client is one record: its `State`, where its `new` or reconnect task is, its proxy, its
monitor and its heartbeat task with the task's own counter. Transformations of the record
keep the code's names (`set_state`, `reconnect`, `handle_heartbeat_result`); taking a state
drops what the state owns. The pool holds one entry, for the one host; connections have
identities, reused when nobody refers to them any more. The server and the network are
three actions: something arrives, the proxy ends, everything falls silent. Faults are
counted, except those that follow from a kill.

`ReconnectFailed` is set and replaced in one update and is no state of the model.
"Released" is a client its project has let go of; its processes last 50 ms longer. That the
project's was the last handle is an assumption: the agent server, context server and dap
stores hold the client too and are taken to go with their project. The activity channel
closes together with the proxy's end, where the code closes it just before the exit status is
known.

### TextBuffer

A fragment is one character with its timestamp, offset, deletions and cached visibility.
The code's runs of characters split where an edit needs it; splitting changes neither
order nor visibility, except in one place, where it decides on which side of deleted text
the second range of an edit inserts: there the model allows both (`LeftGap`). Locators only
encode the order of the sequence. `apply_remote_edit` and `apply_undo` are operators on a
sequence; `apply_ops` is the fold of the code's loop followed by `flush_deferred_ops`.
`ops` holds every operation made; `Receive` hands a replica one or two of them, in any
order, again or for the first time. That is what a channel with resends may do, and it is
stronger than what `RemoteChannel` shows to happen; it also covers the collaboration
server, which is not modelled.

Whether two transactions are grouped depends on the time between them, so `edit` and
`EndTransaction` choose how many are. Nested transactions change only the depth and are left
out, as are edits whose ranges touch (`edit_non_coalesce`; `edit` merges them) and the
saturation of an undo count at 2^32 - 1.

## 4. Runs

| run | shows |
| --- | --- |
| `watch` | no lost wake-up, no leaked waker, missed updates are noticed across the wrap of the version, and (fair) a waiting task is told |
| `group` | splits, spawns under any parent a caller names, restarts, promotion, demotion, subtree closes, shell exits, a terminal from outside, and a dialog or a drag that outlives its tile: no worker id leads to another worker's shell, and a pane never keeps two terminals; until a pane outside the grid is used, one home per terminal, one place per worker, a worker keeps its terminal, focus stays in the grid, the cap holds (also until something comes from outside); until a parent is named too soon, Mission Control shows every worker |
| `group_restored` | a restored grid: types, announcements, one shell per tile, and (fair) the deferred loop ends |
| `tile` | up to three tiles in every shape, with a resize and a drag under which tiles may close: implements `TileOrder` until a drop uses a pane that is gone, axes stay well formed, a split moves nobody else, a swap exchanges two places |
| `channel` | requests, streams and messages across a lost connection: nothing is lost, copies are bounded, answers fit their requests, and (fair) both ends catch up |
| `client` | two windows of a host: one connection, the pool's assertion, heartbeat and state agree, the end is told once and is final, and (fair) reconnects end and missed beats lead to one |
| `text` | three replicas edit concurrently, operations arrive in any order and again: same operations, same text; the order of characters agrees at all times; waits end |
| `text_undo` | two replicas with transactions, undo and redo: visibility is what deletions and undos say, versions have no gaps, nothing applicable stays deferred, the stacks mean what they say |

Four runs expect a violation and show where the code differs from what a document or a
comment says; `PROJECT.json` quotes the lines.

| run | what happens |
| --- | --- |
| `group_orphan` | a worker closed while its shell starts leaves a shell nobody supervises |
| `group_restored_tree` | a restored overflow worker gets the id that was saved as its parent, is its own parent and does not appear in Mission Control |
| `client_silence` | a ping answered in time stops the heartbeat: the keepalive timer is not armed again until something else arrives, and a server that falls silent then is never noticed |
| `channel_second_drop` | a connection that drops again before the resync is complete: an envelope with a higher id has arrived and is acknowledged, the lower ones are let go and lost |

**Seen while modelling.** These follow from the code as it stands, and no run claims them.
Two contradict what the repository says:

* the command dialog keeps its pane, and confirming it after the tile has closed
  (`terminal_group.rs:2344`) registers a worker, whose shell then runs, in a pane that is in
  no grid. The comment on `worker_panes` (`terminal_group.rs:576`) has "the visible pane the
  worker currently lives in". `WorkerHome` without `~strayed` is violated then.
* a drop uses the target of the last move without asking whether it is still in the tree.
  After the target closed, the only tile left is shown twice, and a swap puts the closed pane
  in the tile's place; a dragged tile that closed comes back in place of the one it is
  dropped on. `product/terminal-workspace-prd.md:402` (E9) has "if it no longer exists, the
  drop falls back to the nearest valid region or cancels". `ImplementsOrder` without
  `misdropped'` is violated in five steps. E8, the line before, is about a source tile whose
  process exits; when its tab closes with the process, the tile closes too.

About the others the documents are silent or vague:

* a status reported for a worker in overflow is undone by its promotion, which copies the
  older one;
* the end of an ordinary worker's shell removes the worker without a `Closed` event;
* a terminal dropped on a full grid joins it past the cap (which is
  why `CapHolds` has `external = 0`), and so does a stale tile dropped beside the only one when the cap is
  one; `docs/src/terminal.md:380` speaks of the limit for spawned workers;
* a caller of the control plane that names an id as parent before it is handed out makes a
  ring like the one in `group_restored_tree`;
* a tile of another group can be dropped on this one and is then in both;
* the end of a stream can overtake a resent chunk, and the consumer sees a short stream;
* during a resync new messages overtake the buffered ones;
* a proxy that dies after the resync was answered and before the client is Connected is
  noticed by nobody: the monitor's reconnect is refused and the heartbeat stops;
* `handle_heartbeat_result` unwraps a state that `shutdown_processes` has taken, if the
  client is still held elsewhere in the 50 ms before its tasks are dropped.

**Bounds.** Panes, overflow ids and terminals are bounded over a whole behaviour
(`MaxPanes`, `MaxOverflow`, `MaxTerminals`), so an id is never used twice, as in the code.
`group` has two visible tiles, three panes, one overflow id, two shells, one of which may come
from outside, one restart and one held pane: the least with which a worker is demoted, its
place taken and promoted beside another at the cap, and a dialog, or one end of a drag,
outlives its tile. Checked once besides: three shells without held panes (473,000 states)
and a restored group with a saved overflow worker, two overflow ids and three shells (267,000
states); what is lost by the smaller bounds the theorems of section 5 cover. `group_restored`
has two restored tiles, an overflow id, three shells and a restart.

`tile` has three tiles, which give every drop between nested axes and every split next to a
sibling of another size; one drag is enough, since `ImplementsOrder` and the sizes are about
single steps and a drag starts from every tree (without that bound the run has 842,000
states and passes in over five minutes). The watch run has two receivers and a version that
wraps after a few sends.

`channel` has one send at each end, a stream of one chunk and one lost connection, at any
point; with two lost connections `NothingLost` fails, which is the finding. Two sends per
end exceed a few minutes; a stream of three chunks without the request was checked once
(723,000 states). `client` has two windows, one fault on top of what follows from it, two
beats, two attempts (a first and a retry) and enough connection ids that one is always
unused. `text` has three replicas with one operation each, of one or two ranges, on an
empty text; `text_undo` two replicas, one with three operations (edit, undo, redo or
edits), the other with one and a transaction around it. Larger instances checked once: three
replicas over a text of one character (52,000 states), two replicas with edits of two ranges
over it (105,000). Quotas per replica are the definitions of `MCTextBuffer`.

**View.** The run `group` identifies states that differ only in the wording of a status, what
watchers were told, or data of ids and terminals that are gone (`Structure` in
`MCTerminalGroup`), which no guard reads in a group that was not restored and no property of
the run mentions. It also identifies all states in which a pane outside the grid was used, and
all others in which a parent was named too soon (`InGrid`); both conditions, once true, stay
true. `OneHome`, `WorkerHome`, `FocusInGrid`, `CapHolds` and `KeepsTerminal` say nothing of
the former and `TreeShowsAll` nothing of the latter; `OneTerminalPerTile` and `NeverForeign`
are proved without condition. On parents nothing depends but which workers a subtree close
closes. The other runs have no view.

**Deadlock** is not checked for the group, where a closed group does nothing more, nor for
the watch channel, the remote channel, the client and the buffer, which may fall silent when
there is nothing left to do. It is checked for the tree.

**Fairness.** `Watch`: a send in progress finishes, and a task that was woken is polled
(the executor runs what is ready). `TerminalGroup`: tasks that were started end (the PTY
library answers or fails) and the deferred loop is resumed when what it awaits has ended.
Nobody is assumed to send, click, cancel or close. `DeferredFinishes` makes an exception
for behaviours that have used up `MaxTerminals`, where the loop is cut off by the bound.
`RemoteChannel`: tasks that are ready run, handlers answer, and the client reconnects.
`RemoteClient`: tasks run and timers expire, an attempt of the pool ends, a proxy whose
connection was killed dies; nothing is assumed about answers. `TextBuffer`: every operation
reaches every replica some day. This is an assumption on the environment: the channel
resends what one lost connection dropped but can lose messages with a second
(`channel_second_drop`), and of the request for missing operations, `SynchronizeBuffers`,
this repository has the handler (`buffer_store.rs:1276`) and nobody who sends it. It is
written as "again and again everything made
so far has been delivered", which says the same as weak fairness of first deliveries.

## 5. Proofs

`WatchProofs` proves, for any finite or infinite set of receivers and values, any number of
waker ids and any width of the version counter, that `Spec` implies `TypeOK`,
`NoLostWakeup`, `NoLeakedWaker` and `UpdateIsNoticed`. The only assumption is
`WatchAssumption` on the constants.

None of the three safety properties is inductive alone. The inductive invariant
`IInv == TypeOK /\ Parked /\ Counted` adds

* `Parked`: a registered waker belongs to a parked future that remembers its id and has
  nothing to report; the waker of a parked future that is not scheduled is registered or
  among those the send in progress has taken; wakers are in a sender's hands only while it
  is sending. From it follow both that a change cannot be missed and that a registered
  waker has an owner. It has to speak of the interval between taking the wakers and
  calling them, which is where the properties could fail.
* `Counted`: the channel's version is the version a receiver has seen plus the sends it
  has missed, modulo the counter's width. Clones copy both sides of the equation.

The lemmas `Mod...` supply the modular arithmetic: two residues differ when their distance
is positive and below the modulus.

`TerminalGroupProofs` proves, from `GroupAssumption` on the constants, what holds of a group with any cap, any number of panes, overflow ids, shells,
restarts, held panes and drops from outside, new or restored. Types, `OneTerminalPerTile` and
`WorkersAnnounced` are inductive over the types alone. `WorkerHome`, `FocusInGrid` and
`OneHome` are not, and they carry a condition, `~strayed`: they hold until a command, a drop, a
shell or a close uses a pane that has left the grid, which the code does not prevent (section
4). Panes that dialogs and drags merely hold are inside the theorems.
`IInv` adds

* `Fresh`: ids not handed out yet, and the ids of workers on their way to overflow, are in
  no table, so a new worker never takes over an entry. This is where pane ids and
  `OVERFLOW_ID_BASE` must not meet.
* `Bound`: a worker in overflow, or in a tile that is not its own, has lost the tile with
  its id. Pane ids double as worker ids, and without it a demoted worker could sit beside
  a tile that answers to the same id.
* `EmptyIsOwn`: a tile whose worker has another id is never empty while the group is open.
  The launcher of an empty tile registers a worker under the tile's id without looking for
  one that is already there; this is why it finds none, also after `strayed`. It fails for the last tile of a
  closing group, which is why `WorkerHome` speaks of open groups.
* `TermsFresh` and `OnTheWay`: new terminals, and those on the way, are nowhere yet;
  `Homed` is `OneHome` with its parts told apart; a pane outside the grid that still shows
  something is one that is held, and neither focused nor a worker's (`OffGrid`).

Each part has its lemma `Next...` with one step per operation. `FocusInGrid` needs
`WorkerHome` because focusing a worker focuses the tile recorded for it.

`TerminalGroupShells` extends that invariant to `ShellInv` with

* `Starting`: a shell is on the way only to a tile that has been made, and, as long as
  nothing came from outside the group (`external = 0`), to one tile at a time. The theorem
  `TilesStartOneShell` carries that condition: a terminal dropped on a tile whose shell is
  starting makes that shell open a tile of its own.
* `CapHolds` itself. It needs `Starting`, because a landing shell adds a tile exactly when it
  finds its own occupied. The condition under which `GridStaysWithinCap` promises the cap,
  nothing from outside and no pane outside the grid used, is part of the property; section 4
  says what happens without.
* `Named`: whatever stands where a worker's id leads carries that id or none. It has to
  follow a shell from its start, through overflow and back, for `ShellsAreNeverForeign`,
  which needs no condition.

`WorkersKeepTerminals` proves the action property `KeepsTerminal` (which has `~strayed'` as
its condition) from `IInv`, with one step per operation: promotion, demotion and restart move a worker, never its terminal.

`TreeShowsWorkers` of `TerminalGroupProofs` proves `TreeShowsAll` for every group, new or
restored with whatever saved parents, and for any parents callers name. Its condition,
`~foretold`, is part of the property: no parent was named before its id was handed out.
Without it the statement is false (`group_restored_tree`). `Parents` says that the id of every
parent was handed out; `Ranked`, that some function on workers grows from parent to child. A restart gives the worker the same
parent again and a worker that ends leaves its children their recorded parent, so the rank
of an id cannot be the id: it exists, and each step says how to extend it. The well-founded
order of the ranks then shows that following parents ends at a root.

`RemoteClientProofs` proves `EntryKept`, `OneConnection`, `BeatsAgree`, `ToldOnce` and the
action property `FinalIsFinal` for any finite set of windows of an ssh host, from an assumption on the
constants that there are more than twice as many connection ids as windows, and one more:
then one is always unused, as in the code, where a connection is an object of its own. The
inductive invariant is `IInv == TypeOK /\ Sound(client[c]) for every c /\ EntryKept /\
Held`. `Sound` is what one client guarantees alone: which tasks exist in which state, what
the heartbeat task may assume, that the end was told when the state says so. `Held` ties
the clients to each other: a connection that a client holds and nobody has killed is the
one in the pool. Because `Sound` speaks of one record, a step of another client cannot
disturb it, and most of the proof is about transformations of one record.

`RemoteChannelProofs` proves the types and `AnswersFit` for any number of messages, streams
and lost connections. `IInv` adds `Marked` (exactly the answers name what they answer),
`Connected` (nothing on a wire that is down), `Greeted` (an end has given out an id before
it serves a request, because the first thing it takes is a hello or a flush), `Numbered`
(every id anywhere was given out by its end) and `Named`: there is a function from ids to
kinds with which all envelopes, requests and handlers agree. The last is what makes a late
answer harmless; the hello's id 0 is its one exception, and the proof shows that the Ack for
it can meet a flush with id 0 at most, for which an Ack is the right answer.

`RemoteChannelDelivery` proves `CopiesBounded` without any condition and
`drops <= 1 => NothingLost`. The condition is necessary: `channel_second_drop` loses a
message with a second drop. Steps are first reduced to six shapes (`Moves`): posting,
greeting, acknowledging, taking, resending and nothing. On these rest

* `Apart` and `Flushes`: hellos and flushes are never mistaken for messages, and a flush is
  the first envelope of its connection.
* `BeforeDrop`: while no connection was lost, wires are in the order of ids, so that the
  last id received covers all before it (`CoveredAcks`), and what is let go was heard.
* `AfterDrop`: after the drop ids arrive out of order and acknowledgements are *not* covered
  any more. What saves the messages is the order of events: the server answers the flush
  before it takes anything else, with acknowledgements from before the drop, and the client
  resends on that answer before it takes anything behind it. `Ready` describes the wire
  until the server has flushed, `Promised` until the client has resent; from then on all
  messages are on a wire (`Delivering`) and the buffers do not matter.
* `Bounded`: a message was heard or is on a wire at most once per lost connection, and once
  more when its sender has nothing left to resend (`Owes`). It counts places in sequences,
  and needs that buffers are in the order of ids (`KeptInOrder`), so that one resend adds one
  copy.

These parts were checked with TLC on the run's instance, `Bounded` also with two drops
(622,000 states), before they were proved.

`TextBufferReplicas` and `TextBufferConvergence` prove all seven safety properties of the
text buffer, for any set of replicas that contains `LOCAL`, any number of operations, ranges
and characters, with operations delivered in any order, any number of times. The only
assumptions are `ReplicasAssumption` and `BoundsAssumption`, which give the constants their
types.

`IInv` of `TextBufferReplicas` says that a version vector, which cannot show a gap, may
nevertheless stand for the set of operations it names (`Seen`):

* `OpsOK` and `Cut`: an operation is later than all its replica knew, a replica knows what
  it made before, and a version that names an operation covers what the operation depends
  on. This is why one number per replica is enough.
* `BufOK`: the fragments of a replica have exactly the characters of the operations its
  version names (`TextOK`), the undo map is the union of their counts, and visibility is
  current. It is shown for `Applied`, then for `apply_or_defer` (`Step`), for a run of
  operations, for the drained queue and so for `apply_ops`.
* `QueueOK`: nothing in the queue could be applied. It needs the order of the queue: what an
  operation depends on is never behind it (`StillUnmet`, `LateUnmet`), so one pass is enough.
* `HistOK`, with `Own` and `Bounded`: an edit is on one stack only, and an undo of it can
  only come from its own replica, so the parity of its count changes with the stack.

From it follow `TypeOK`, `Causal`, `VisibleAgrees`, `QueueIsLate` and `StacksAgree`.

`OrderAgrees` and `Converge` need more, because replicas place the same text by different
scans over different fragments. `Agree` of `TextBufferConvergence` says that there *are* an
order `L` of all characters ever made and a set `G` of all deletions with which every
replica's fragments agree (`BufPlaced`); neither is a variable of the model. What makes it
inductive is `Settled`, which says of every edit made so far

* `Anchor`: a character stands behind the text that was before its range in the version of
  the edit, and between the two there is only text of later operations or of the edit itself;
* `Bridge`: text that the edit did not know and that stands before a character of it is held
  off by a character that the edit knew or inserted, earlier than that text. Without it the
  scan of `apply_remote_edit`, which stops at the first fragment that is not later, could
  stop at different places for replicas that have applied different operations.

`RemotePlaced` shows from these that the scan ends where `L` has the character, whatever
else the replica has applied; `LocalJoin`, that a local edit extends `L`, so that the places
from before are kept (`Continues`). `Deleted` says that an edit takes the characters whose
rank in its version is in one of its ranges and that its version showed: a replica finds the
same ones by full offsets and `was_visible` (`RemoteDelsAre`), and its maker by visible
offsets (`LocalRanges`). Replicas with the same version then have the same characters at
the same ranks (`SamePlaces`), with the same deletions and counts.

Both gaps of `LeftGap` and `RightGap` are covered: replicas converge however the code's
runs of characters are split. Inductions over indices, and over the fold of a batch, are
done by least counterexample (`Least`, `UpTo`, `FoldRuns`), since the library's induction
rules cannot be instantiated.

**Model-checked only**: liveness under fairness (`ChangeIsDelivered`, `DeferredFinishes`,
`AllHeard`, `ReconnectSettles`, `BeatsLeadOn`, `Settles`), which the prover does not
handle; and everything about `TileTree` (`FlexesInBounds`, the action properties and the
refinement of `TileOrder`), whose operators are recursive over trees, so that every
statement about them is an induction over data. `Agree` is proved only: it speaks of an
order and deletions that exist, and TLC checks what follows from it, `OrderAgrees` and
`Converge`.

## 6. Not modelled

Of the terminal group: what happens in detail after a pane outside the grid was used (the
model goes on, and `NeverForeign`, `OneTerminalPerTile`, the event stream and the shells per
tile are proved for it, but a group into which a foreign pane was dropped is not followed in
the other group); detaching to another window and back, which changes only the
`detached` mark, its origin and the workspace the group is bound to; saving layouts; the
control plane's connections; the geometry of the split guard and of drop zones; rendering.
What these do to the modelled state is either enumerated (any direction, any zone, any
refusal) or absent, as said above.

Of the remote connection: the inside of the ssh transport, docker and wsl connections
altogether, uploading the server binary,
the proxy's own side, malformed envelopes and requests without a handler. Of the text
buffer: anchors, branches, `fast_forward`, locators, ropes, and the operations that
forget, merge or push transactions without an edit.

The rest of the editor is inherited from Zed and is mostly I/O with external processes, or
state spaces far beyond what can be explored; `PROJECT.json` says so part by part.

------------------------------ MODULE TileTree ------------------------------
(***************************************************************************)
(* The tree of tiles of a terminal group: workspace::PaneGroup with the    *)
(* operations terminal_group applies to it.  A member is a pane or an axis *)
(* of members; a flex is kept as the member's share of its axis, in        *)
(* Unit-ths (flex = share * n / Unit for n members).                       *)
(*                                                                         *)
(* A drag lives across many events: the pane it carries and the target the *)
(* last move resolved may have left the tree when it is dropped, or the    *)
(* pane may belong to another group altogether.                            *)
(***************************************************************************)
EXTENDS Integers, SequencesExt

CONSTANTS
  Unit,          \* the whole of an axis; divisible as often as tiles are split
  Step,          \* the grain of a resize
  MaxPanes,      \* bound on panes ever created
  MaxTiles,      \* bound on tiles at once
  MaxResizes,    \* bound on resizes
  MaxDrags       \* bound on drags

ASSUME TreeAssumption ==
  /\ Unit \in Nat \ {0} /\ Step \in 1 .. Unit
  /\ MaxPanes \in Nat \ {0} /\ MaxTiles \in Nat \ {0}
  /\ MaxResizes \in Nat /\ MaxDrags \in Nat

VARIABLES
  root, active_pane,
  dragged,       \* the DraggedTile's pane; NoPane: no drag
  drop_target,   \* <<pane, zone>>, or NoTarget
  next_pane, resizes, drags,
  misdropped     \* history: a drop used a pane that was not in the tree

vars == <<root, active_pane, dragged, drop_target, next_pane, resizes, drags, misdropped>>

Foreign == MaxPanes + 1   \* a tile of another group
Panes == 1 .. Foreign
NoPane == 0
NoTarget == <<>>
Directions == {"Left", "Right", "Up", "Down"}
AxisOf(d) == IF d \in {"Left", "Right"} THEN "Horizontal" ELSE "Vertical"
increasing(d) == d \in {"Right", "Down"}
Zones == {<<"Swap">>} \cup {<<k, d>> : k \in {"Edge", "Outer"}, d \in Directions}

-----------------------------------------------------------------------------
(* Members *)

Pane(p) == [pane |-> p]
IsPane(m) == "pane" \in DOMAIN m
Equal(n) == [i \in 1 .. n |-> Unit \div n]

\* PaneAxis::new: all flexes are 1.
PaneAxis(axis, members) ==
  [axis |-> axis, members |-> members, shares |-> Equal(Len(members))]

\* collect_panes: the panes in reading order.
RECURSIVE collect_panes(_)
collect_panes(m) ==
  IF IsPane(m) THEN <<m.pane>>
  ELSE FlattenSeq([i \in DOMAIN m.members |-> collect_panes(m.members[i])])

RECURSIVE contains_pane(_, _)
contains_pane(m, p) ==
  IF IsPane(m) THEN m.pane = p
  ELSE \E i \in DOMAIN m.members : contains_pane(m.members[i], p)
first_pane(m) == collect_panes(m)[1]
Holder(ax, p) == SelectInSeq(ax.members, LAMBDA m : contains_pane(m, p))

\* Member::new_axis
new_axis(old, new, d) ==
  PaneAxis(AxisOf(d), IF increasing(d) THEN <<Pane(old), Pane(new)>>
                                       ELSE <<Pane(new), Pane(old)>>)

\* PaneAxis::insert_pane equalizes the axis.
insert_pane(ax, i, p) == PaneAxis(ax.axis, InsertAt(ax.members, i, Pane(p)))

RECURSIVE axis_split(_, _, _, _)
axis_split(ax, old, new, d) ==
  LET i == Holder(ax, old)
      m == ax.members[i]
  IN  IF ~IsPane(m) THEN [ax EXCEPT !.members[i] = axis_split(m, old, new, d)]
      ELSE IF AxisOf(d) = ax.axis
           THEN insert_pane(ax, IF increasing(d) THEN i + 1 ELSE i, new)
           ELSE [ax EXCEPT !.members[i] = new_axis(old, new, d)]

\* PaneGroup::split: a pane that is not found means the first one.
split(m, old, new, d) ==
  LET at == IF contains_pane(m, old) THEN old ELSE first_pane(m)
  IN  IF IsPane(m) THEN new_axis(at, new, d) ELSE axis_split(m, at, new, d)

\* The end of PaneAxis::remove.  Mutant: an axis of one is kept.
kept(ax) == ax
collapsed(ax) == IF Len(ax.members) = 1 THEN ax.members[1] ELSE ax

RECURSIVE axis_remove(_, _)
axis_remove(ax, p) ==
  LET i == Holder(ax, p)
      m == ax.members[i]
  IN  collapsed(IF IsPane(m) THEN PaneAxis(ax.axis, RemoveAt(ax.members, i))
                ELSE [ax EXCEPT !.members[i] = axis_remove(m, p)])

\* PaneGroup::remove: a root pane is left alone whatever is asked for; otherwise a
\* pane that is not in the tree is an error.
remove_fails(m, p) == ~IsPane(m) /\ ~contains_pane(m, p)
remove(m, p) == IF IsPane(m) THEN m ELSE axis_remove(m, p)

\* PaneAxis::reset_pane_sizes
RECURSIVE reset_pane_sizes(_)
reset_pane_sizes(m) ==
  IF IsPane(m) THEN m
  ELSE PaneAxis(m.axis, [i \in DOMAIN m.members |-> reset_pane_sizes(m.members[i])])

RECURSIVE axis_swap(_, _, _)
axis_swap(m, from, to) ==
  IF IsPane(m)
  THEN CASE m.pane = from -> Pane(to) [] m.pane = to -> Pane(from) [] OTHER -> m
  ELSE [m EXCEPT !.members = [i \in DOMAIN m.members |-> axis_swap(m.members[i], from, to)]]

\* PaneGroup::swap leaves a root pane alone.  Mutant: the sizes are reset.
swap_and_reset(m, from, to) ==
  IF IsPane(m) THEN m ELSE reset_pane_sizes(axis_swap(m, from, to))
swap(m, from, to) == IF IsPane(m) THEN m ELSE axis_swap(m, from, to)

\* find_pane_at_border: the pane that already spans that border, if any.
find_pane_at_border(m, d) ==
  IF IsPane(m) THEN m.pane
  ELSE LET e == IF increasing(d) THEN m.members[Len(m.members)] ELSE m.members[1]
       IN  IF m.axis = AxisOf(d) /\ IsPane(e) THEN e.pane ELSE NoPane

at_border(m, p, d) ==
  LET i == IF increasing(d) THEN Len(m.members) + 1 ELSE 1
      members == IF increasing(d) THEN <<m, Pane(p)>> ELSE <<Pane(p), m>>
  IN  IF ~IsPane(m) /\ m.axis = AxisOf(d) THEN insert_pane(m, i, p)
      ELSE PaneAxis(AxisOf(d), members)

\* PaneGroup::move_to_border, when it does not fail.  Mutant: the pane is not taken
\* from where it was.
copy_to_border(m, p, d) ==
  IF IsPane(m) \/ find_pane_at_border(m, d) = p THEN m ELSE at_border(m, p, d)
move_to_border(m, p, d) ==
  IF IsPane(m) \/ find_pane_at_border(m, d) = p THEN m ELSE at_border(remove(m, p), p, d)

-----------------------------------------------------------------------------
(* Sizes *)

index_in_axis(ax, p) == SelectInSeq(ax.members, LAMBDA m : m = Pane(p))

\* The axis that holds pane p itself.
RECURSIVE parent_axis(_, _)
parent_axis(ax, p) ==
  IF index_in_axis(ax, p) # 0 THEN ax ELSE parent_axis(ax.members[Holder(ax, p)], p)

RECURSIVE with_shares(_, _, _)
with_shares(ax, p, shares) ==
  IF index_in_axis(ax, p) # 0 THEN [ax EXCEPT !.shares = shares]
  ELSE [ax EXCEPT !.members[Holder(ax, p)] = with_shares(@, p, shares)]

\* restore_sibling_sizes, for the tree m that splitting pane p of tree old into p and
\* new has given: the siblings get the shares they had, in order, and p and new half of
\* p's each.  Nothing to repair when p was the root or the split is perpendicular.
\* Mutant: insert_pane's equal sizes stay.
not_restored(m, p, new, old) == m
restore_sibling_sizes(m, p, new, old) ==
  IF IsPane(old) THEN m
  ELSE LET before == parent_axis(old, p)
           after  == parent_axis(m, new)
           s      == index_in_axis(before, p)
           pair   == {index_in_axis(after, p), index_in_axis(after, new)}
           others == RemoveAt(before.shares, s)
           nth(i) == Cardinality({j \in 1 .. i : j \notin pair})
       IN  IF 0 \in pair \/ Len(after.members) # Len(before.members) + 1 THEN m
           ELSE with_shares(m, new, [i \in DOMAIN after.members |->
                  IF i \in pair THEN before.shares[s] \div 2 ELSE others[nth(i)]])

\* The tree with a divider moved by Step, what PaneAxis::resize and the divider's
\* compute_resize do to the flexes (compute_resize goes on with the next divider when a
\* member is at its least: a resize for each), or with one axis equal again, by a
\* double click on a divider.
RECURSIVE resized(_)
resized(m) ==
  IF IsPane(m) THEN {}
  ELSE {[m EXCEPT !.shares[i] = @ + d, !.shares[i + 1] = @ - d] :
          i \in 1 .. Len(m.members) - 1, d \in {-Step, Step}}
       \cup {[m EXCEPT !.shares = Equal(Len(m.members))]}
       \cup UNION {{[m EXCEPT !.members[i] = x] : x \in resized(m.members[i])} :
                     i \in DOMAIN m.members}

-----------------------------------------------------------------------------
(* Operations of the group *)

leaves == collect_panes(root)
drag == <<dragged, drop_target, drags>>

Init ==
  /\ root = Pane(1) /\ active_pane = 1
  /\ dragged = NoPane /\ drop_target = NoTarget
  /\ next_pane = 2 /\ resizes = 0 /\ drags = 0 /\ misdropped = FALSE

NewTile ==
  /\ Len(leaves) < MaxTiles /\ next_pane <= MaxPanes
  /\ next_pane' = next_pane + 1
  /\ active_pane' = next_pane
  /\ UNCHANGED <<dragged, resizes, drags, misdropped>>

\* split_pane_with_command: the guard may have turned the direction.
SplitTile(p, d) ==
  /\ contains_pane(root, p)
  /\ NewTile
  /\ root' = restore_sibling_sizes(split(root, p, next_pane, d), p, next_pane, root)
  /\ UNCHANGED drop_target

\* promote_worker: beside the active pane.
promote_worker ==
  /\ NewTile
  /\ root' = split(root, active_pane, next_pane, "Right")
  /\ UNCHANGED drop_target

\* adopt_terminal: beside the tile the pointer was over, if it is still there; the
\* guard may turn the direction.
adopt_terminal ==
  LET over == drop_target # NoTarget /\ contains_pane(root, drop_target[1])
  IN  /\ NewTile
      /\ \E d \in {"Right", "Down"} :
           root' = split(root, IF over THEN drop_target[1] ELSE active_pane, next_pane, d)
      /\ drop_target' = NoTarget

\* enforce_single_terminal beside the tile a second terminal landed in.
PlaceSurplus(p) ==
  /\ contains_pane(root, p)
  /\ NewTile
  /\ root' = split(root, p, next_pane, "Right")
  /\ UNCHANGED drop_target

\* remove_tile and remove_tile_from_tree: focus goes to the pane that asked, if it is
\* in the grid, or to the first.
CloseTile(p) ==
  /\ contains_pane(root, p) /\ ~IsPane(root)
  /\ root' = remove(root, p)
  /\ active_pane' \in ToSet(collect_panes(root'))
  /\ UNCHANGED <<drag, next_pane, resizes, misdropped>>

\* focus_in_direction, focus_next, a click.
FocusTile(p) ==
  /\ contains_pane(root, p)
  /\ active_pane' = p
  /\ UNCHANGED <<root, drag, next_pane, resizes, misdropped>>

swap_in_direction(p) ==
  /\ contains_pane(root, p) /\ contains_pane(root, active_pane) /\ p # active_pane
  /\ root' = swap(root, active_pane, p)
  /\ UNCHANGED <<active_pane, drag, next_pane, resizes, misdropped>>

equalize ==
  /\ root' = reset_pane_sizes(root)
  /\ UNCHANGED <<active_pane, drag, next_pane, resizes, misdropped>>

RECURSIVE positive(_)
positive(m) == IsPane(m) \/ (/\ \A i \in DOMAIN m.shares : m.shares[i] > 0
                             /\ \A i \in DOMAIN m.members : positive(m.members[i]))

resize ==
  /\ resizes < MaxResizes
  /\ root' \in {m \in resized(root) : positive(m)}
  /\ resizes' = resizes + 1
  /\ UNCHANGED <<active_pane, drag, next_pane, misdropped>>

\* The header of a tile is dragged, of this group or of another.
DragStart(p) ==
  /\ dragged = NoPane /\ drags < MaxDrags
  /\ contains_pane(root, p) \/ p = Foreign
  /\ dragged' = p /\ drags' = drags + 1
  /\ UNCHANGED <<root, active_pane, drop_target, next_pane, resizes, misdropped>>

\* on_drag_move: resolve_drop_target finds a tile and a zone, or nothing (group_bounds is
\* None for a single tile).
DragMove(t) ==
  /\ dragged # NoPane
  /\ t # NoTarget => ~IsPane(root) /\ contains_pane(root, t[1])
  /\ drop_target' = t
  /\ UNCHANGED <<root, active_pane, dragged, next_pane, resizes, drags, misdropped>>

\* Escape clears the target; a release outside the group leaves what the last move
\* resolved.
DragCancel ==
  /\ dragged # NoPane
  /\ dragged' = NoPane
  /\ drop_target' \in {drop_target, NoTarget}
  /\ UNCHANGED <<root, active_pane, next_pane, resizes, drags, misdropped>>

\* The tree after dropping p on tile q in the given zone.  (The guard may turn the
\* direction of an edge; the turned drop is that of another zone.)
dropped(p, q, zone) ==
  CASE zone[1] = "Swap" -> swap(root, p, q)
    [] zone[1] = "Edge" -> split(remove(root, p), q, p, zone[2])
    [] zone[1] = "Outer" -> move_to_border(root, p, zone[2])

\* What only a tree that holds the dragged pane p and its target q bears: neither on_drop
\* nor apply_drop asks for it.
Astray(p, q, zone) ==
  \/ ~contains_pane(root, p)
  \/ /\ ~contains_pane(root, q)
     /\ zone[1] = "Swap" \/ (zone[1] = "Edge" /\ IsPane(root))

\* on_drop and apply_drop: a drop on itself and one whose pane is not found by
\* `remove` change nothing.
Drop ==
  LET p == dragged
      q == drop_target[1]
      zone == drop_target[2]
      refused == \/ p = q /\ zone[1] # "Outer"
                 \/ zone[1] # "Swap" /\ remove_fails(root, p)
  IN  /\ dragged # NoPane
      /\ dragged' = NoPane /\ drop_target' = NoTarget
      /\ \/ /\ drop_target = NoTarget
            /\ UNCHANGED <<root, active_pane, misdropped>>
         \/ /\ drop_target # NoTarget /\ refused
            /\ UNCHANGED <<root, active_pane, misdropped>>
         \/ /\ drop_target # NoTarget /\ ~refused
            /\ root' = dropped(p, q, zone)
            /\ active_pane' = p
            /\ misdropped' = (misdropped \/ Astray(p, q, zone))
      /\ UNCHANGED <<next_pane, resizes, drags>>

Next ==
  \/ promote_worker \/ adopt_terminal \/ equalize \/ resize \/ DragCancel \/ Drop
  \/ \E p \in Panes :
       \/ \E d \in Directions : SplitTile(p, d)
       \/ PlaceSurplus(p) \/ CloseTile(p) \/ FocusTile(p) \/ swap_in_direction(p)
       \/ DragStart(p)
  \/ \E t \in {NoTarget} \cup (Panes \X Zones) : DragMove(t)

Spec == Init /\ [][Next]_vars

-----------------------------------------------------------------------------
(* Properties *)

\* No sequence of splits, closes, resizes and drops leaves an axis with one
\* member, or with sizes that do not add up to the whole axis: flex_values_in_bounds, which
\* a debug assertion demands before every divider drag.
RECURSIVE InBounds(_)
InBounds(m) ==
  IsPane(m) \/ /\ Len(m.members) > 1 /\ Len(m.shares) = Len(m.members)
               /\ FoldSeq(LAMBDA a, b : a + b, 0, m.shares) = Unit
               /\ \A i \in DOMAIN m.members : InBounds(m.members[i])
FlexesInBounds == InBounds(root) /\ positive(root)

\* The rectangle of pane p when member m fills the box.
RECURSIVE rect(_, _, _)
rect(m, p, box) ==
  IF IsPane(m) THEN box
  ELSE LET i == Holder(m, p)
           before == FoldSeq(LAMBDA a, b : a + b, 0, SubSeq(m.shares, 1, i - 1))
           sub == IF m.axis = "Horizontal"
                  THEN [box EXCEPT !.x = @ + (box.w * before) \div Unit,
                                   !.w = (@ * m.shares[i]) \div Unit]
                  ELSE [box EXCEPT !.y = @ + (box.h * before) \div Unit,
                                   !.h = (@ * m.shares[i]) \div Unit]
       IN  rect(m.members[i], p, sub)
Screen == [x |-> 0, y |-> 0, w |-> Unit ^ 3, h |-> Unit ^ 3]
At(m, p) == rect(m, p, Screen)

\* The promise of restore_sibling_sizes: a split gives the new tile half of the split
\* tile's space and leaves every other tile where and as large as it was.  (Like the next
\* property, until a stale drop: after it a tile may be shown twice.)
SplitKeepsOthers ==
  [][next_pane' # next_pane /\ ~misdropped => \A p \in ToSet(leaves), d \in Directions :
       SplitTile(p, d) =>
       LET a == At(root', p)  b == At(root', next_pane)
       IN  /\ \A q \in ToSet(leaves) \ {p} : At(root', q) = At(root, q)
           /\ a.w = b.w /\ a.h = b.h
           /\ \/ 2 * a.w = At(root, p).w /\ a.h = At(root, p).h
              \/ 2 * a.h = At(root, p).h /\ a.w = At(root, p).w]_vars

\* Sizes stay with the positions: two swapped tiles take each other's place and the
\* others keep theirs, however deep in the tree the two are.
SwapKeepsSizes ==
  [][root' # root /\ drag' = drag /\ ~misdropped => \A p \in ToSet(leaves) :
       swap_in_direction(p) =>
       /\ At(root', p) = At(root, active_pane) /\ At(root', active_pane) = At(root, p)
       /\ \A q \in ToSet(leaves) \ {p, active_pane} : At(root', q) = At(root, q)]_vars

\* Rearranging, splitting and closing keep the promise of TileOrder, also when tiles close
\* under a drag, until a drop uses a pane that is not in the tree and needs it to be.
Order == INSTANCE TileOrder WITH Tiles <- Panes, order <- leaves
ImplementsOrder == Order!Init /\ [][misdropped' \/ Order!Next]_leaves

=============================================================================

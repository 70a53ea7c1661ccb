----------------------------- MODULE TileOrder -----------------------------
(***************************************************************************)
(* What the tree of a terminal group promises about its tiles: they are in *)
(* a reading order without repetitions; a split puts the new tile next to  *)
(* another one, closing takes one away, a rearrangement exchanges two or   *)
(* moves one, and the last tile stays.                                     *)
(***************************************************************************)
EXTENDS Integers, SequencesExt

CONSTANT Tiles

VARIABLE order

Without(s, p) == SelectSeq(s, LAMBDA x : x # p)

Init == \E p \in Tiles : order = <<p>>

\* What one tile more, one less, two exchanged and one moved make of an order s.
Inserted(s) == {InsertAt(s, i, p) : i \in 1 .. Len(s) + 1, p \in Tiles \ ToSet(s)}
Deleted(s) == IF Len(s) > 1 THEN {Without(s, p) : p \in ToSet(s)} ELSE {}
Exchanged(s) == {[s EXCEPT ![i] = s[j], ![j] = s[i]] : i, j \in DOMAIN s}
Moved(s) == {InsertAt(Without(s, p), i, p) : i \in DOMAIN s, p \in ToSet(s)}

Next == order' \in UNION {Inserted(order), Deleted(order), Exchanged(order), Moved(order)}

Spec == Init /\ [][Next]_order
=============================================================================

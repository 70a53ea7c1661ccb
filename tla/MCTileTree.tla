----------------------------- MODULE MCTileTree -----------------------------
(* Instances of TileTree: the constants are in the .cfg files.  With Unit = 48    *)
(* the shares of up to four tiles in an axis are whole numbers.                   *)
EXTENDS TileTree
=============================================================================

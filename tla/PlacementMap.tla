---------------------------- MODULE PlacementMap ----------------------------
(***************************************************************************)
(* What refinement promises about a placement, whatever it does on the     *)
(* way: every cell has a bel of its own that can hold it, the cells of     *)
(* each tile may share it, the members of a cluster keep their places      *)
(* relative to its root, and locked cells do not move.  A step takes the   *)
(* design from one such placement to another; there is nothing in between. *)
(***************************************************************************)
EXTENDS Integers

CONSTANTS Cells,      \* the cells of the design
          CanHold,    \* isValidBelForCellType: the bels each cell may have
          Locked,     \* the cells bound with a strength above STRENGTH_STRONG
          RootOf,     \* the root of a cell's cluster, None outside clusters
          Offset,     \* getClusterOffset
          LegalTiles, \* isBelLocationValid: the sets of cells a tile may hold
          None

VARIABLE placement

\* A bel is named by its location <<x, y, z>>, a tile by <<x, y>>.
TileOf(b) == <<b[1], b[2]>>

Legal ==
    /\ \A c \in Cells : placement[c] \in CanHold[c]
    /\ \A c, d \in Cells : c # d => placement[c] # placement[d]
    /\ \A c \in Cells :
          {d \in Cells : TileOf(placement[d]) = TileOf(placement[c])}
             \in LegalTiles
    /\ \A c \in Cells : RootOf[c] # None =>
          placement[c] = [i \in 1..3 |->
                             placement[RootOf[c]][i] + Offset[c][i]]

Init == Legal

Move == /\ placement' # placement
        /\ Legal'
        /\ \A c \in Locked : placement'[c] = placement[c]

Spec == Init /\ [][Move]_placement
=============================================================================

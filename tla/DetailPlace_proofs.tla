------------------------- MODULE DetailPlace_proofs -------------------------
(***************************************************************************)
(* DetailPlace for any device, netlist, number of threads and interleaving *)
(* of their steps: whatever is planned, bound, refused and taken back on   *)
(* the way, the placement that is committed only changes by whole legal    *)
(* moves (PlacementRefined); the two tables of the placement agree at any  *)
(* moment (PlacementStaysIntact); and threads that hold no lock while they *)
(* plan keep out of each other's way (PartsAreKept).  And the boxes that a *)
(* thread patches, pin by pin, are those of its nets (BoxesStayExact).     *)
(*                                                                         *)
(* What makes it work is that the parts are apart (Split): a bel of one    *)
(* part has no cell of another, so that the cell a thread finds on a bel   *)
(* it wants is its own (BoundInPart).  Clusters may span parts.  A thread  *)
(* then looks at where cells of other threads are, which may be on their   *)
(* way; those of a cluster it has a member of are not, as every move takes *)
(* whole clusters (NotInTransit).                                          *)
(*                                                                         *)
(* For the boxes, a pin that moves leaves each edge right, or marked to be *)
(* computed afresh (EdgeMoves, PinMovesBox); so do all pins of a cell and  *)
(* all cells of a move, by counting them up (FoldRuns, CellsMoveBoxes).    *)
(* Outside planning the marked ones have been computed (PlanMakes), and    *)
(* what is unmarked has not changed since the last commit (Untouched),     *)
(* which is why giving a move up need only restore the marked ones         *)
(* (GiveUpMakes).                                                          *)
(***************************************************************************)
EXTENDS DetailPlace, FiniteSetTheorems, FunctionTheorems,
        WellFoundedInduction, TLAPS

\* The fields of a thread's state.
Fields == {"part", "local_cell2bel", "net_bounds", "new_net_bounds", "moved_cells",
           "status", "displaced_clusters", "used_bels", "cursor", "pass", "m", "todo",
           "tile2cell", "swap"}

\* The move in the making of a thread whose part is p: it takes cells of the
\* part that are not locked from bels of the part to bels of the part, one cell
\* from each and one to each.
MoveOK(p, mv) ==
    /\ DOMAIN mv \subseteq p.cells \ Locked
    /\ \A c \in DOMAIN mv : /\ mv[c].old \in CanHold[c] /\ InPart(p, mv[c].old)
                            /\ mv[c].new \in CanHold[c] /\ InPart(p, mv[c].new)
    /\ \A c, d \in DOMAIN mv : c # d => /\ mv[c].old # mv[d].old
                                        /\ mv[c].new # mv[d].new

\* Where the cells of a thread's part are, 'at' being CellInfo::bel: the others
\* on bels of the part that the move leaves alone, those of the move where its
\* status says.
WhereOK(at, s) ==
    LET mv == s.moved_cells
    IN  /\ \A c \in s.part.cells \ DOMAIN mv :
              at[c] \in CanHold[c] /\ InPart(s.part, at[c])
        /\ \A c \in DOMAIN mv : \A d \in s.part.cells \ DOMAIN mv : at[d] # mv[c].old
        /\ s.status \in {"planning", "planned"} =>
              \A c \in DOMAIN mv : at[c] = mv[c].old
        /\ s.status = "bound" => \A c \in DOMAIN mv : at[c] = mv[c].new
        /\ s.status = "fail" => \A c \in DOMAIN mv : at[c] \in {mv[c].new, None}

\* Members of a cluster get their places relative to its root.
Shaped(mv) ==
    \A c \in DOMAIN mv : RootOf[c] # None =>
        RootOf[c] \in DOMAIN mv /\ mv[c].new = Shift(mv[RootOf[c]].new, Offset[c])

\* A move takes whole clusters.
Whole(mv) ==
    \A c \in DOMAIN mv, d \in Cells :
        RootOf[c] # None /\ RootOf[d] = RootOf[c] => d \in DOMAIN mv

\* A cluster that a thread with part p may move: not locked, and some member is
\* in the part.
Mine(p, r) ==
    /\ r \in DOMAIN Children /\ r \notin Locked
    /\ \E c \in p.cells : RootOf[c] = r

\* The move takes whole clusters, but for members k and on of the cluster of r.
Remaining(mv, r, k) ==
    \A c \in DOMAIN mv, d \in Cells :
        RootOf[c] # None /\ RootOf[d] = RootOf[c] /\ d \notin DOMAIN mv
            => RootOf[c] = r /\ \E j \in k..Len(Children[r]) : d = Member(r, j)

\* While chain_swap() plans: the clusters on their way, and what is still to be
\* moved of the one at the cursor.
PlanningOK(s) ==
    LET mv == s.moved_cells
        r == s.cursor[1]
        k == s.cursor[3]
    IN  /\ s.pass = "cells"
        /\ s.cursor = <<r, s.cursor[2], k>>
        /\ Mine(s.part, r) /\ s.cursor[2] \in Bels /\ k \in 0..Len(Children[r])
        /\ s.displaced_clusters \in Seq(Cells \X Bels)
        /\ \A j \in 1..Len(s.displaced_clusters) :
              Mine(s.part, s.displaced_clusters[j][1])
        /\ k > 0 => r \in DOMAIN mv /\ mv[r].new = s.cursor[2]
        /\ Remaining(mv, r, k)
        /\ \A c \in DOMAIN mv : mv[c].new \in s.used_bels

\* Where cell c was before the thread's move.
HomeOf(at, s, c) ==
    IF c \in DOMAIN s.moved_cells THEN s.moved_cells[c].old ELSE at[c]

\* tile2cell says which tile each cell of the part is on, and a move of tiles
\* swaps the cells of two of them.
TilesOK(at, s) ==
    LET from == s.swap[1]
        to == s.swap[2]
        mv == s.moved_cells
    IN  /\ s.todo \subseteq DOMAIN s.tile2cell
        /\ \A x \in DOMAIN s.tile2cell : x = <<x[1], x[2]>>
        /\ \A x \in DOMAIN s.tile2cell :
              s.tile2cell[x] = {c \in s.part.cells : TileOf(HomeOf(at, s, c)) = x}
        /\ s.status # "idle" =>
              /\ s.swap # <<>> /\ from # to
              /\ from \in DOMAIN s.tile2cell /\ to \in DOMAIN s.tile2cell
              /\ DOMAIN mv = s.tile2cell[from] \cup s.tile2cell[to]
              /\ \A c \in s.tile2cell[from] : TileOf(mv[c].new) = to
              /\ \A c \in s.tile2cell[to] : TileOf(mv[c].new) = from

\* What goes with the status and the pass of a thread.
StatusOK(s) ==
    /\ s.status \in Statuses /\ s.pass \in {"cells", "tiles", "over"}
    /\ s.status = "idle" => /\ s.moved_cells = NoMove /\ s.used_bels = {}
                            /\ s.displaced_clusters = <<>> /\ s.swap = <<>>
    /\ s.status # "planning" => s.cursor = <<>>
    /\ s.pass = "over" => s.status = "idle"
    /\ s.pass # "tiles" => s.swap = <<>>
    /\ s.pass = "cells" => s.todo \subseteq Movers(s.part.cells)

\* A thread's state, 'at' being CellInfo::bel.
ThreadOK(at, s) ==
    /\ DOMAIN s = Fields /\ s.part.cells \subseteq Cells
    /\ StatusOK(s)
    /\ MoveOK(s.part, s.moved_cells)
    /\ WhereOK(at, s)
    /\ Shaped(s.moved_cells)
    /\ s.status = "planning" => PlanningOK(s)
    /\ s.status # "planning" => Whole(s.moved_cells)
    /\ s.pass = "tiles" => TilesOK(at, s)

\* Two parts have no cell in common, and no bel unless one of them is empty.
Apart(p, q) ==
    /\ p.cells \cap q.cells = {}
    /\ \/ p.cells = {} \/ q.cells = {}
       \/ \A b \in Bels : ~(InPart(p, b) /\ InPart(q, b))

\* Parts that are apart and have every cell between them.
Split(ps) ==
    /\ \A c \in Cells : \E i \in DOMAIN ps : c \in ps[i].cells
    /\ \A i, j \in DOMAIN ps : i # j => Apart(ps[i], ps[j])

\* A part on the way, before the threads start.
PartOK(p) ==
    /\ DOMAIN p = {"lo", "hi", "cells"}
    /\ DOMAIN p.lo = Axes /\ DOMAIN p.hi = Axes
    /\ p.cells \subseteq Cells
    /\ p.cells # {} => \A a \in Axes : p.lo[a] \in Int /\ p.hi[a] \in Int
    /\ \A c \in p.cells : InPart(p, bel[c])

\* The two tables agree.
Tables ==
    /\ bel \in [Cells -> Bels \cup {None}]
    /\ bel_to_cell \in [Bels -> Cells \cup {None}]
    /\ \A c \in Cells : bel[c] # None => bel_to_cell[bel[c]] = c
    /\ \A b \in Bels : bel_to_cell[b] # None => bel[bel_to_cell[b]] = b

\* The stages of run(), and what is there in each.
Control ==
    /\ iter \in {"first", "later"}
    /\ stage \in {"between", "cutting", "refining", "returned"}
    /\ axis \in Axes
    /\ parts # <<>> => stage = "cutting"
    /\ t # <<>> => stage = "refining"
    /\ stage # "refining" => \A c \in Cells : bel[c] \in CanHold[c]

\* The threads' parts.
PartsOf == [i \in DOMAIN t |-> t[i].part]

\* While parts are cut.
Cutting ==
    stage = "cutting" =>
        /\ parts = [i \in 1..Len(parts) |-> parts[i]] /\ Len(parts) \in Nat
        /\ Split(parts)
        /\ \A i \in DOMAIN parts : PartOK(parts[i])

\* While threads run.
Refining ==
    stage = "refining" =>
        /\ Split(PartsOf)
        /\ \A i \in DOMAIN t : ThreadOK(bel, t[i])

\* The inductive invariant, but for the committed placement being legal.
IInv == Tables /\ Control /\ Cutting /\ Refining

-----------------------------------------------------------------------------
(* Least and greatest members *)

\* A set of integers that is finite and not empty has a least member.
LEMMA LeastMember ==
    ASSUME NEW S, S \subseteq Int, IsFiniteSet(S), S # {}
    PROVE  Min(S) \in S /\ \A y \in S : Min(S) <= y
<1> DEFINE Below(x) == {y \in S : y <= x}
           Tails == {Below(x) : x \in S}
<1>1. IsWellFoundedOn(StrictSubsetOrdering(S), SUBSET S)
  <2>1. IsWellFoundedOn(StrictSubsetOrdering(S), FiniteSubsetsOf(S))
    BY FS_StrictSubsetOrderingWellFounded
  <2>2. FiniteSubsetsOf(S) = SUBSET S
    BY FS_FiniteSubsetsOfFinite
  <2> QED BY <2>1, <2>2
<1>2. Tails \subseteq SUBSET S /\ Tails # {}
  OBVIOUS
<1>3. PICK U \in Tails : \A V \in Tails : ~(<<V, U>> \in StrictSubsetOrdering(S))
  BY <1>1, <1>2, WFMin, Zenon
<1>4. PICK x \in S : U = Below(x)
  OBVIOUS
<1>5. ASSUME NEW y \in S, y < x PROVE FALSE
  <2>0. x \in Int /\ y \in Int /\ \A z \in S : z \in Int
    OBVIOUS
  <2>1. Below(y) \subseteq U
    <3>1. \A z \in Below(y) : z \in S /\ z <= x
      BY <1>5, <2>0
    <3> QED BY <1>4, <3>1
  <2>2. x \in U
    BY <1>4, <2>0
  <2>3. x \notin Below(y)
    BY <1>5, <2>0
  <2>4. U \subseteq S
    BY <1>4
  <2>5. <<Below(y), U>> \in StrictSubsetOrdering(S)
    <3> HIDE DEF Below
    <3> QED BY <2>1, <2>2, <2>3, <2>4 DEF StrictSubsetOrdering
  <2>6. Below(y) \in Tails
    OBVIOUS
  <2> QED BY <1>3, <2>5, <2>6
<1>6. \E z \in S : \A y \in S : z <= y
  BY <1>5
<1> QED BY <1>6, Zenon DEF Min

\* So has it a greatest one.
LEMMA GreatestMember ==
    ASSUME NEW S, S \subseteq Int, IsFiniteSet(S), S # {}
    PROVE  Max(S) \in S /\ \A y \in S : y <= Max(S)
<1> DEFINE Above(x) == {y \in S : x <= y}
           Tails == {Above(x) : x \in S}
<1>1. IsWellFoundedOn(StrictSubsetOrdering(S), SUBSET S)
  <2>1. IsWellFoundedOn(StrictSubsetOrdering(S), FiniteSubsetsOf(S))
    BY FS_StrictSubsetOrderingWellFounded
  <2>2. FiniteSubsetsOf(S) = SUBSET S
    BY FS_FiniteSubsetsOfFinite
  <2> QED BY <2>1, <2>2
<1>2. Tails \subseteq SUBSET S /\ Tails # {}
  OBVIOUS
<1>3. PICK U \in Tails : \A V \in Tails : ~(<<V, U>> \in StrictSubsetOrdering(S))
  BY <1>1, <1>2, WFMin, Zenon
<1>4. PICK x \in S : U = Above(x)
  OBVIOUS
<1>5. ASSUME NEW y \in S, x < y PROVE FALSE
  <2>0. x \in Int /\ y \in Int /\ \A z \in S : z \in Int
    OBVIOUS
  <2>1. Above(y) \subseteq U
    <3>1. \A z \in Above(y) : z \in S /\ x <= z
      BY <1>5, <2>0
    <3> QED BY <1>4, <3>1
  <2>2. x \in U
    BY <1>4, <2>0
  <2>3. x \notin Above(y)
    BY <1>5, <2>0
  <2>4. U \subseteq S
    BY <1>4
  <2>5. <<Above(y), U>> \in StrictSubsetOrdering(S)
    <3> HIDE DEF Above
    <3> QED BY <2>1, <2>2, <2>3, <2>4 DEF StrictSubsetOrdering
  <2>6. Above(y) \in Tails
    OBVIOUS
  <2> QED BY <1>3, <2>5, <2>6
<1>6. \E z \in S : \A y \in S : z >= y
  BY <1>5
<1>7. Max(S) \in S /\ \A y \in S : Max(S) >= y
  BY <1>6, Zenon DEF Max
<1> QED BY <1>7

\* The coordinates of some cells.
LEMMA Coordinates ==
    ASSUME Tables, \A c \in Cells : bel[c] \in Bels,
           NEW C, C \subseteq Cells, NEW a \in Axes
    PROVE  /\ {bel[c][a] : c \in C} \subseteq Int
           /\ IsFiniteSet({bel[c][a] : c \in C})
           /\ C # {} => {bel[c][a] : c \in C} # {}
<1>1. \A c \in C : bel[c] \in Int \X Int \X Int
  BY DeviceAssumption
<1>2. \A c \in C : bel[c][a] \in Int
  BY <1>1 DEF Axes
<1>3. IsFiniteSet(C)
  BY DeviceAssumption, FS_Subset
<1> DEFINE f == [c \in C |-> bel[c][a]]
           T == {bel[c][a] : c \in C}
<1>4. f \in Surjection(C, T)
  BY DEF Surjection
<1>5. IsFiniteSet(T)
  BY <1>3, <1>4, FS_Surjection
<1> QED BY <1>2, <1>5

-----------------------------------------------------------------------------
(* One rectangle for each thread *)

\* The coordinates of a bel are integers.
LEMMA BelCoordinates ==
    ASSUME NEW b \in Bels
    PROVE  b \in Int \X Int \X Int /\ \A a \in Axes : b[a] \in Int
<1>1. b \in Int \X Int \X Int
  BY DeviceAssumption
<1> QED BY <1>1 DEF Axes

\* The rectangle of the whole design has every cell.
LEMMA WholeDesignIsAPart ==
    ASSUME Tables, \A c \in Cells : bel[c] \in Bels
    PROVE  PartOK(WholeDesign) /\ WholeDesign.cells = Cells
<1> DEFINE S(a) == {bel[c][a] : c \in Cells}
           p == WholeDesign
<1>1. DOMAIN p = {"lo", "hi", "cells"} /\ p.cells = Cells
  BY DEF WholeDesign
<1>2. DOMAIN p.lo = Axes /\ DOMAIN p.hi = Axes
  BY DEF WholeDesign
<1>3. \A a \in Axes : p.lo[a] = Min(S(a)) /\ p.hi[a] = Max(S(a))
  BY DEF WholeDesign
<1>4. ASSUME NEW a \in Axes, Cells # {}
      PROVE  /\ Min(S(a)) \in S(a) /\ Max(S(a)) \in S(a) /\ S(a) \subseteq Int
             /\ \A y \in S(a) : Min(S(a)) <= y /\ y <= Max(S(a))
  <2>1. S(a) \subseteq Int /\ IsFiniteSet(S(a)) /\ S(a) # {}
    BY <1>4, Coordinates
  <2> HIDE DEF S
  <2> QED BY <2>1, LeastMember, GreatestMember
<1>5. Cells # {} => \A a \in Axes : p.lo[a] \in Int /\ p.hi[a] \in Int
  <2> HIDE DEF p, S
  <2> QED BY <1>3, <1>4
<1>6. ASSUME NEW c \in Cells PROVE InPart(p, bel[c])
  <2> SUFFICES ASSUME NEW a \in Axes PROVE bel[c][a] \in p.lo[a]..p.hi[a]
    BY DEF InPart
  <2>1. bel[c][a] \in S(a)
    OBVIOUS
  <2> HIDE DEF p, S
  <2>2. p.lo[a] <= bel[c][a] /\ bel[c][a] <= p.hi[a]
    BY <1>3, <1>4, <2>1
  <2>3. p.lo[a] \in Int /\ p.hi[a] \in Int /\ bel[c][a] \in Int
    BY <1>5, BelCoordinates
  <2> QED BY <2>2, <2>3
<1> HIDE DEF p
<1>7. PartOK(p)
  BY <1>1, <1>2, <1>5, <1>6 DEF PartOK
<1> QED BY <1>1, <1>7 DEF p

\* A part that is not empty is cut inside it.
LEMMA PivotInside ==
    ASSUME Tables, \A c \in Cells : bel[c] \in Bels, axis \in Axes,
           NEW p, PartOK(p), p.cells # {},
           NEW point \in PivotPoints(Cardinality(p.cells))
    PROVE  /\ Pivot(p, point) \in Int
           /\ p.lo[axis] <= Pivot(p, point) /\ Pivot(p, point) <= p.hi[axis]
<1> DEFINE n == Cardinality(p.cells)
           S == {bel[c][axis] : c \in p.cells}
           K == {k \in S : Cardinality({c \in p.cells : bel[c][axis] <= k}) >= point}
<1>1. p.cells \subseteq Cells /\ IsFiniteSet(p.cells)
  BY DeviceAssumption, FS_Subset DEF PartOK
<1>2. n \in Nat /\ n > 0
  BY <1>1, FS_CardinalityType, FS_EmptySet
<1>3. point \in Int /\ point <= n
  <2> DEFINE h == (n - 1) \div 2
  <2>1. h \in Int /\ 0 <= h /\ h <= n
    BY <1>2
  <2>2. Max({0, h}) \in {0, h}
    <3>1. {0, h} \subseteq Int /\ IsFiniteSet({0, h}) /\ {0, h} # {}
      <4>1. {0, h} = {0} \cup {h} /\ {0, h} # {}
        OBVIOUS
      <4> HIDE DEF h
      <4>2. IsFiniteSet({0})
        BY FS_Singleton
      <4>3. IsFiniteSet({0, h})
        BY <4>1, <4>2, FS_AddElement
      <4> QED BY <2>1, <4>1, <4>3
    <3> HIDE DEF h
    <3> QED BY <3>1, GreatestMember
  <2>3. point \in ((45 * n) \div 100)..Max({0, h})
    BY DEF PivotPoints
  <2>4. (45 * n) \div 100 \in Int
    BY <1>2
  <2> HIDE DEF h, n
  <2> QED BY <1>2, <2>1, <2>2, <2>3, <2>4
<1>4. S \subseteq Int /\ IsFiniteSet(S) /\ S # {}
  BY <1>1, Coordinates
<1>5. \A k \in S : p.lo[axis] <= k /\ k <= p.hi[axis]
  BY DEF PartOK, InPart
<1>6. K # {}
  <2>1. Max(S) \in S /\ \A k \in S : k <= Max(S)
    <3> HIDE DEF S
    <3> QED BY <1>4, GreatestMember
  <2>2. {c \in p.cells : bel[c][axis] <= Max(S)} = p.cells
    BY <2>1
  <2>3. Cardinality({c \in p.cells : bel[c][axis] <= Max(S)}) >= point
    BY <1>2, <1>3, <2>2
  <2> HIDE DEF S
  <2> QED BY <2>1, <2>3
<1>7. K \subseteq S /\ IsFiniteSet(K)
  <2>1. K \subseteq S
    OBVIOUS
  <2> HIDE DEF K, S
  <2> QED BY <2>1, <1>4, FS_Subset
<1>8. Min(K) \in K
  <2> HIDE DEF K, S
  <2> QED BY <1>4, <1>6, <1>7, LeastMember
<1>9. Min(K) \in Int /\ p.lo[axis] <= Min(K) /\ Min(K) <= p.hi[axis]
  <2> HIDE DEF K, S
  <2> QED BY <1>4, <1>5, <1>7, <1>8
<1>10. Pivot(p, point) = IF point = 0 THEN p.hi[axis] ELSE Min(K)
  BY DEF Pivot
<1>11. /\ p.hi[axis] \in Int /\ p.lo[axis] \in Int /\ p.lo[axis] <= p.hi[axis]
  <2>1. p.hi[axis] \in Int /\ p.lo[axis] \in Int
    BY DEF PartOK
  <2>2. PICK c \in p.cells : bel[c][axis] \in p.lo[axis]..p.hi[axis]
    BY DEF PartOK, InPart
  <2>3. bel[c][axis] \in Int
    BY <2>2, <2>1
  <2> QED BY <2>1, <2>2, <2>3
<1> HIDE DEF K
<1> QED BY <1>9, <1>10, <1>11

\* What the two halves of a part are.
LEMMA HalvesAre ==
    ASSUME axis \in Axes, NEW p, PartOK(p), NEW point, NEW h, h = Halves(p, point),
           NEW v, v = Pivot(p, point)
    PROVE  /\ DOMAIN h[1] = {"lo", "hi", "cells"} /\ DOMAIN h[2] = {"lo", "hi", "cells"}
           /\ h[1].lo = p.lo /\ h[1].hi = [p.hi EXCEPT ![axis] = v]
           /\ h[1].cells = {c \in p.cells : bel[c][axis] <= v}
           /\ h[2].lo = [p.lo EXCEPT ![axis] = IF v = p.hi[axis] THEN v ELSE v + 1]
           /\ h[2].hi = p.hi
           /\ h[2].cells = p.cells \ h[1].cells
<1> DEFINE left == {c \in p.cells : bel[c][axis] <= v}
           l == [p EXCEPT !.hi[axis] = v, !.cells = left]
           r == [p EXCEPT !.lo[axis] = IF v = p.hi[axis] THEN v ELSE v + 1,
                          !.cells = p.cells \ left]
<1>1. h = <<l, r>>
  BY DEF Halves
<1>2. h[1] = l /\ h[2] = r
  BY <1>1
<1> HIDE DEF left
<1>3. DOMAIN p = {"lo", "hi", "cells"}
  BY DEF PartOK
<1>4. /\ DOMAIN l = {"lo", "hi", "cells"} /\ DOMAIN r = {"lo", "hi", "cells"}
      /\ l.cells = left /\ r.cells = p.cells \ left
  BY <1>3
<1>5. l.lo = p.lo /\ l.hi = [p.hi EXCEPT ![axis] = v]
  BY <1>3
<1>6. r.hi = p.hi /\ r.lo = [p.lo EXCEPT ![axis] = IF v = p.hi[axis] THEN v ELSE v + 1]
  BY <1>3
<1> HIDE DEF l, r
<1> QED BY <1>2, <1>4, <1>5, <1>6 DEF left

\* The halves of a part lie in it, have its cells between them, and nothing in
\* common.
LEMMA HalvesOK ==
    ASSUME Tables, \A c \in Cells : bel[c] \in Bels, axis \in Axes,
           NEW p, PartOK(p), NEW point \in PivotPoints(Cardinality(p.cells)),
           NEW h, h = Halves(p, point)
    PROVE  /\ PartOK(h[1]) /\ PartOK(h[2])
           /\ Apart(h[1], h[2])
           /\ p.cells = h[1].cells \cup h[2].cells
           /\ p.cells # {} => \A b \in Bels : InPart(h[1], b) \/ InPart(h[2], b)
                                                  => InPart(p, b)
<1> DEFINE v == Pivot(p, point)
<1>1. /\ DOMAIN h[1] = {"lo", "hi", "cells"} /\ DOMAIN h[2] = {"lo", "hi", "cells"}
      /\ h[1].lo = p.lo /\ h[1].hi = [p.hi EXCEPT ![axis] = v]
      /\ h[1].cells = {c \in p.cells : bel[c][axis] <= v}
      /\ h[2].lo = [p.lo EXCEPT ![axis] = IF v = p.hi[axis] THEN v ELSE v + 1]
      /\ h[2].hi = p.hi
      /\ h[2].cells = p.cells \ h[1].cells
  <2> HIDE DEF v
  <2> QED BY HalvesAre DEF v
<1>2. p.cells # {} => v \in Int /\ p.lo[axis] <= v /\ v <= p.hi[axis]
  BY PivotInside
<1> HIDE DEF v
<1>3. /\ DOMAIN p.lo = Axes /\ DOMAIN p.hi = Axes /\ p.cells \subseteq Cells
      /\ p.cells # {} => \A a \in Axes : p.lo[a] \in Int /\ p.hi[a] \in Int
      /\ \A c \in p.cells : InPart(p, bel[c])
  BY DEF PartOK
<1>4. \A a \in Axes :
         /\ h[1].lo[a] = p.lo[a] /\ h[2].hi[a] = p.hi[a]
         /\ h[1].hi[a] = IF a = axis THEN v ELSE p.hi[a]
         /\ h[2].lo[a] = IF a = axis THEN IF v = p.hi[a] THEN v ELSE v + 1 ELSE p.lo[a]
  BY <1>1, <1>3
<1>5. p.cells # {} => \A a \in Axes : /\ h[1].lo[a] \in Int /\ h[1].hi[a] \in Int
                                      /\ h[2].lo[a] \in Int /\ h[2].hi[a] \in Int
  BY <1>2, <1>3, <1>4
<1>6. ASSUME NEW c \in h[1].cells PROVE InPart(h[1], bel[c])
  <2> SUFFICES ASSUME NEW a \in Axes PROVE bel[c][a] \in h[1].lo[a]..h[1].hi[a]
    BY DEF InPart
  <2>1. bel[c][a] \in p.lo[a]..p.hi[a] /\ bel[c][axis] <= v
    BY <1>1, <1>3 DEF InPart
  <2> QED BY <1>1, <1>2, <1>3, <1>4, <2>1
<1>7. ASSUME NEW c \in h[2].cells PROVE InPart(h[2], bel[c])
  <2> SUFFICES ASSUME NEW a \in Axes PROVE bel[c][a] \in h[2].lo[a]..h[2].hi[a]
    BY DEF InPart
  <2>1. bel[c][a] \in p.lo[a]..p.hi[a] /\ bel[c][axis] \in p.lo[axis]..p.hi[axis]
    BY <1>1, <1>3 DEF InPart
  <2>2. ~(bel[c][axis] <= v)
    BY <1>1
  <2> QED BY <1>1, <1>2, <1>3, <1>4, <2>1, <2>2
<1>8. PartOK(h[1]) /\ PartOK(h[2])
  BY <1>1, <1>3, <1>5, <1>6, <1>7 DEF PartOK
<1>9. ASSUME p.cells # {}, NEW b \in Bels, InPart(h[1], b) \/ InPart(h[2], b)
      PROVE  InPart(p, b)
  <2> SUFFICES ASSUME NEW a \in Axes PROVE b[a] \in p.lo[a]..p.hi[a]
    BY DEF InPart
  <2>1. b[a] \in Int
    BY BelCoordinates
  <2>2. CASE InPart(h[1], b)
    <3>1. b[a] \in h[1].lo[a]..h[1].hi[a]
      BY <2>2 DEF InPart
    <3> QED BY <1>2, <1>3, <1>4, <1>9, <2>1, <3>1
  <2>3. CASE InPart(h[2], b)
    <3>1. b[a] \in h[2].lo[a]..h[2].hi[a]
      BY <2>3 DEF InPart
    <3> QED BY <1>2, <1>3, <1>4, <1>9, <2>1, <3>1
  <2> QED BY <1>9, <2>2, <2>3
<1>10. ASSUME h[2].cells # {}, NEW b \in Bels, InPart(h[1], b), InPart(h[2], b)
       PROVE  FALSE
  <2>1. PICK c \in h[2].cells : bel[c][axis] \in h[2].lo[axis]..h[2].hi[axis]
    BY <1>7, <1>10 DEF InPart
  <2>2. p.cells # {} /\ c \in p.cells /\ ~(bel[c][axis] <= v)
    BY <1>1, <2>1
  <2>3. bel[c][axis] \in p.lo[axis]..p.hi[axis]
    BY <1>3, <2>2 DEF InPart
  <2>4. v # p.hi[axis]
    BY <1>2, <1>3, <2>2, <2>3
  <2>5. b[axis] \in h[1].lo[axis]..h[1].hi[axis] /\ b[axis] \in h[2].lo[axis]..h[2].hi[axis]
    BY <1>10 DEF InPart
  <2>6. b[axis] \in Int
    BY BelCoordinates
  <2> QED BY <1>2, <1>4, <2>2, <2>4, <2>5, <2>6
<1>11. Apart(h[1], h[2])
  BY <1>1, <1>10 DEF Apart
<1> QED BY <1>1, <1>8, <1>9, <1>11

\* What lies in two parts that are apart is apart.
LEMMA SmallerApart ==
    ASSUME NEW p, NEW q, Apart(p, q), NEW x, NEW y,
           x.cells \subseteq p.cells, y.cells \subseteq q.cells,
           p.cells # {} => \A b \in Bels : InPart(x, b) => InPart(p, b),
           q.cells # {} => \A b \in Bels : InPart(y, b) => InPart(q, b)
    PROVE  Apart(x, y)
<1>1. x.cells \cap y.cells = {}
  BY DEF Apart
<1>2. x.cells # {} /\ y.cells # {} => \A b \in Bels : ~(InPart(x, b) /\ InPart(y, b))
  BY DEF Apart
<1> QED BY <1>1, <1>2 DEF Apart

\* Cutting every part in two.
LEMMA CutPartsOK ==
    ASSUME Tables, \A c \in Cells : bel[c] \in Bels, axis \in Axes,
           NEW ps, NEW n \in Nat, DOMAIN ps = 1..n, Split(ps),
           \A i \in 1..n : PartOK(ps[i]),
           NEW point, \A i \in 1..n : point[i] \in PivotPoints(Cardinality(ps[i].cells)),
           NEW qs, qs = [j \in 1..(2 * n) |->
                            LET i == (j + 1) \div 2
                            IN  Halves(ps[i], point[i])[IF j = 2 * i THEN 2 ELSE 1]]
    PROVE  Split(qs) /\ \A j \in 1..(2 * n) : PartOK(qs[j])
<1> DEFINE of(j) == (j + 1) \div 2
           h(i) == Halves(ps[i], point[i])
           side(j) == IF j = 2 * of(j) THEN 2 ELSE 1
<1>1. \A j \in 1..(2 * n) : of(j) \in 1..n /\ (j = 2 * of(j) \/ j = 2 * of(j) - 1)
  OBVIOUS
<1>2. \A j \in 1..(2 * n) : qs[j] = h(of(j))[side(j)]
  OBVIOUS
<1>3. \A j \in 1..(2 * n) : side(j) \in {1, 2}
  OBVIOUS
<1>4. \A i \in 1..n :
         /\ PartOK(h(i)[1]) /\ PartOK(h(i)[2]) /\ Apart(h(i)[1], h(i)[2])
         /\ ps[i].cells = h(i)[1].cells \cup h(i)[2].cells
         /\ ps[i].cells # {} => \A b \in Bels : InPart(h(i)[1], b) \/ InPart(h(i)[2], b)
                                                  => InPart(ps[i], b)
  BY HalvesOK, Zenon
<1>5. \A i \in 1..n : /\ 2 * i \in 1..(2 * n) /\ of(2 * i) = i /\ side(2 * i) = 2
                      /\ 2 * i - 1 \in 1..(2 * n) /\ of(2 * i - 1) = i
                      /\ side(2 * i - 1) = 1
  OBVIOUS
<1>6. DOMAIN qs = 1..(2 * n)
  OBVIOUS
<1>7. \A j, k \in 1..(2 * n) : of(j) = of(k) /\ side(j) = side(k) => j = k
  BY <1>1
<1> HIDE DEF of, side, h
<1>11. \A i \in 1..n : qs[2 * i] = h(i)[2] /\ qs[2 * i - 1] = h(i)[1]
  <2> SUFFICES ASSUME NEW i \in 1..n PROVE qs[2 * i] = h(i)[2] /\ qs[2 * i - 1] = h(i)[1]
    OBVIOUS
  <2>1. qs[2 * i] = h(of(2 * i))[side(2 * i)]
    BY <1>2, <1>5
  <2>2. qs[2 * i - 1] = h(of(2 * i - 1))[side(2 * i - 1)]
    BY <1>2, <1>5
  <2> QED BY <1>5, <2>1, <2>2
<1>8. \A j \in 1..(2 * n) : PartOK(qs[j])
  BY <1>1, <1>2, <1>3, <1>4
<1>9. ASSUME NEW c \in Cells PROVE \E j \in DOMAIN qs : c \in qs[j].cells
  <2>1. PICK i \in 1..n : c \in ps[i].cells
    BY DEF Split
  <2>2. CASE c \in h(i)[1].cells
    <3>1. 2 * i - 1 \in DOMAIN qs /\ c \in qs[2 * i - 1].cells
      BY <1>5, <1>6, <1>11, <2>2
    <3> QED BY <3>1
  <2>3. CASE c \in h(i)[2].cells
    <3>1. 2 * i \in DOMAIN qs /\ c \in qs[2 * i].cells
      BY <1>5, <1>6, <1>11, <2>3
    <3> QED BY <3>1
  <2> QED BY <1>4, <2>1, <2>2, <2>3
<1>10. ASSUME NEW j \in DOMAIN qs, NEW k \in DOMAIN qs, j # k PROVE Apart(qs[j], qs[k])
  <2>1. of(j) \in 1..n /\ of(k) \in 1..n /\ side(j) \in {1, 2} /\ side(k) \in {1, 2}
    BY <1>1, <1>3, <1>6
  <2>2. CASE of(j) = of(k)
    <3>1. side(j) # side(k)
      BY <1>6, <1>7, <1>10, <2>2
    <3>2. Apart(h(of(j))[1], h(of(j))[2]) /\ Apart(h(of(j))[2], h(of(j))[1])
      BY <1>4, <2>1 DEF Apart
    <3>3. qs[j] = h(of(j))[side(j)] /\ qs[k] = h(of(j))[side(k)]
      BY <1>2, <1>6, <2>2
    <3>4. CASE side(j) = 1 /\ side(k) = 2
      BY <3>2, <3>3, <3>4
    <3>5. CASE side(j) = 2 /\ side(k) = 1
      BY <3>2, <3>3, <3>5
    <3> QED BY <2>1, <3>1, <3>4, <3>5
  <2>3. CASE of(j) # of(k)
    <3>1. Apart(ps[of(j)], ps[of(k)])
      BY <2>1, <2>3 DEF Split
    <3>2. /\ qs[j].cells \subseteq ps[of(j)].cells
          /\ ps[of(j)].cells # {} => \A b \in Bels : InPart(qs[j], b) => InPart(ps[of(j)], b)
      BY <1>2, <1>4, <1>6, <2>1, ZenonT(60)
    <3>3. /\ qs[k].cells \subseteq ps[of(k)].cells
          /\ ps[of(k)].cells # {} => \A b \in Bels : InPart(qs[k], b) => InPart(ps[of(k)], b)
      BY <1>2, <1>4, <1>6, <2>1, ZenonT(60)
    <3> QED BY <3>1, <3>2, <3>3, SmallerApart
  <2> QED BY <2>2, <2>3
<1> QED BY <1>6, <1>8, <1>9, <1>10 DEF Split

-----------------------------------------------------------------------------
(* The tables, the threads' cells, and moves *)

\* bind_move() and revert_move(): cells leave their bels and some take new ones,
\* which are free or held by cells that leave.
LEMMA RebindKeepsTables ==
    ASSUME Tables, NEW K \in SUBSET Cells, NEW to, DOMAIN to \subseteq K,
           \A c \in DOMAIN to : to[c] \in Bels /\ bel_to_cell[to[c]] \in K \cup {None},
           \A c, d \in DOMAIN to : c # d => to[c] # to[d],
           Rebind(K, to)
    PROVE  /\ Tables'
           /\ \A c \in Cells : bel'[c] = IF c \in DOMAIN to THEN to[c]
                                         ELSE IF c \in K THEN None ELSE bel[c]
<1>1. \A c \in Cells : bel'[c] = IF c \in DOMAIN to THEN to[c]
                                 ELSE IF c \in K THEN None ELSE bel[c]
  BY DEF Rebind
<1>2. bel' \in [Cells -> Bels \cup {None}]
  BY DEF Rebind, Tables
<1>3. \A c \in DOMAIN to : bel_to_cell'[to[c]] = c
  <2> SUFFICES ASSUME NEW c \in DOMAIN to PROVE bel_to_cell'[to[c]] = c
    OBVIOUS
  <2>1. bel_to_cell'[to[c]] = CHOOSE d \in DOMAIN to : to[d] = to[c]
    BY DEF Rebind
  <2> QED BY <2>1
<1>4. \A b \in Bels : (\A c \in DOMAIN to : to[c] # b) =>
         bel_to_cell'[b] = IF bel_to_cell[b] \in K THEN None ELSE bel_to_cell[b]
  BY DEF Rebind
<1>5. bel_to_cell' \in [Bels -> Cells \cup {None}]
  <2>1. \A b \in Bels : bel_to_cell'[b] \in Cells \cup {None}
    BY <1>3, <1>4 DEF Tables
  <2>2. DOMAIN bel_to_cell' = Bels /\ bel_to_cell' = [b \in Bels |-> bel_to_cell'[b]]
    BY DEF Rebind
  <2> QED BY <2>1, <2>2
<1>6. ASSUME NEW c \in Cells, bel'[c] # None PROVE bel_to_cell'[bel'[c]] = c
  <2>1. CASE c \in DOMAIN to
    BY <1>1, <1>3, <2>1
  <2>2. CASE c \notin DOMAIN to
    <3>1. c \notin K /\ bel'[c] = bel[c]
      BY <1>1, <1>6, <2>2
    <3>2. bel[c] \in Bels /\ bel_to_cell[bel[c]] = c
      BY <1>6, <3>1 DEF Tables
    <3>3. c # None
      BY DeviceAssumption
    <3>4. \A d \in DOMAIN to : to[d] # bel[c]
      BY <3>1, <3>2, <3>3
    <3> QED BY <1>4, <3>1, <3>2, <3>4
  <2> QED BY <2>1, <2>2
<1>7. ASSUME NEW b \in Bels, bel_to_cell'[b] # None PROVE bel'[bel_to_cell'[b]] = b
  <2>1. CASE \E c \in DOMAIN to : to[c] = b
    BY <1>1, <1>3, <2>1
  <2>2. CASE \A c \in DOMAIN to : to[c] # b
    <3>1. bel_to_cell'[b] = bel_to_cell[b] /\ bel_to_cell[b] \notin K
      BY <1>4, <1>7, <2>2
    <3>2. bel_to_cell[b] \in Cells /\ bel[bel_to_cell[b]] = b
      BY <1>7, <3>1 DEF Tables
    <3> QED BY <1>1, <3>1, <3>2
  <2> QED BY <2>1, <2>2
<1>8. Tables'
  BY <1>2, <1>5, <1>6, <1>7 DEF Tables
<1> QED BY <1>1, <1>8

\* No two cells share a bel.
LEMMA NoBelShared ==
    ASSUME Tables, NEW c \in Cells, NEW d \in Cells, bel[c] # None, bel[c] = bel[d]
    PROVE  c = d
BY DEF Tables

\* A cell that has a bel has one of its thread's part.
LEMMA CellInPart ==
    ASSUME NEW at, NEW s, ThreadOK(at, s), NEW c \in s.part.cells, at[c] # None
    PROVE  at[c] \in CanHold[c] /\ InPart(s.part, at[c])
<1> DEFINE mv == s.moved_cells
<1>1. CASE c \notin DOMAIN mv
  BY <1>1 DEF ThreadOK, WhereOK
<1>2. CASE c \in DOMAIN mv
  <2>1. mv[c].old \in CanHold[c] /\ InPart(s.part, mv[c].old)
        /\ mv[c].new \in CanHold[c] /\ InPart(s.part, mv[c].new)
    BY <1>2 DEF ThreadOK, MoveOK
  <2>2. s.status # "idle"
    BY <1>2 DEF ThreadOK, StatusOK, NoMove
  <2>3. at[c] \in {mv[c].old, mv[c].new, None}
    BY <1>2, <2>2 DEF ThreadOK, WhereOK, StatusOK, Statuses
  <2> QED BY <2>1, <2>3
<1> QED BY <1>1, <1>2

\* What the invariant says of thread i.
LEMMA ThisThread ==
    ASSUME IInv, NEW i \in DOMAIN t
    PROVE  /\ stage = "refining" /\ Split(PartsOf) /\ Tables
           /\ ThreadOK(bel, t[i])
<1>1. stage = "refining"
  BY DEF IInv, Control
<1> QED BY <1>1 DEF IInv, Refining

\* A bel of a thread's part, when some cell is in that part, has no cell of
\* another part.
LEMMA BoundInPart ==
    ASSUME IInv, NEW i \in DOMAIN t, t[i].part.cells # {},
           NEW c \in Cells, bel[c] # None, InPart(t[i].part, bel[c])
    PROVE  c \in t[i].part.cells
<1>1. Split(PartsOf) /\ Tables
  BY ThisThread
<1>2. PICK j \in DOMAIN t : c \in t[j].part.cells
  BY <1>1 DEF Split, PartsOf
<1>3. InPart(t[j].part, bel[c])
  BY <1>2, ThisThread, CellInPart
<1>4. bel[c] \in Bels
  BY <1>1 DEF Tables
<1>5. i # j => Apart(t[i].part, t[j].part)
  BY <1>1 DEF Split, PartsOf
<1> QED BY <1>2, <1>3, <1>4, <1>5 DEF Apart

\* The parts of two threads have no cell in common.
LEMMA OneOwner ==
    ASSUME IInv, NEW i \in DOMAIN t, NEW j \in DOMAIN t,
           NEW c \in t[i].part.cells, c \in t[j].part.cells
    PROVE  i = j
<1>1. Split(PartsOf)
  BY ThisThread
<1>2. i # j => Apart(t[i].part, t[j].part)
  BY <1>1 DEF Split, PartsOf
<1> QED BY <1>2 DEF Apart

\* A thread's state does not depend on where the cells of other parts are.
LEMMA ThreadFrame ==
    ASSUME NEW at, NEW to, NEW s, ThreadOK(at, s),
           \A c \in s.part.cells : to[c] = at[c]
    PROVE  ThreadOK(to, s)
<1>1. \A c \in DOMAIN s.moved_cells : c \in s.part.cells
  BY DEF ThreadOK, MoveOK
<1>2. WhereOK(to, s)
  <2>1. WhereOK(at, s)
    BY DEF ThreadOK
  <2> QED BY <1>1, <2>1 DEF WhereOK
<1>3. \A c \in s.part.cells : HomeOf(to, s, c) = HomeOf(at, s, c)
  BY DEF HomeOf
<1>4. s.pass = "tiles" => TilesOK(to, s)
  <2>1. s.pass = "tiles" => TilesOK(at, s)
    BY DEF ThreadOK
  <2>2. \A x \in DOMAIN s.tile2cell :
           {c \in s.part.cells : TileOf(HomeOf(at, s, c)) = x}
             = {c \in s.part.cells : TileOf(HomeOf(to, s, c)) = x}
    BY <1>3
  <2> QED BY <2>1, <2>2 DEF TilesOK
<1> QED BY <1>2, <1>4 DEF ThreadOK

\* A step of one thread that leaves the cells of other parts alone keeps the
\* invariant when it keeps the thread's own.
LEMMA OneThread ==
    ASSUME IInv, NEW i \in DOMAIN t, NEW z, t' = [t EXCEPT ![i] = z],
           z.part = t[i].part, ThreadOK(bel', z), Tables',
           \A c \in Cells \ t[i].part.cells : bel'[c] = bel[c],
           UNCHANGED globals
    PROVE  IInv'
<1>1. stage = "refining" /\ Split(PartsOf)
  BY ThisThread
<1>2. /\ UNCHANGED <<iter, stage, parts, axis>>
      /\ DOMAIN t' = DOMAIN t /\ \A j \in DOMAIN t : t'[j] = IF j = i THEN z ELSE t[j]
  BY DEF globals
<1>3. PartsOf' = PartsOf
  BY <1>2 DEF PartsOf
<1>4. ASSUME NEW j \in DOMAIN t PROVE ThreadOK(bel', t'[j])
  <2>1. CASE j = i
    BY <1>2, <2>1
  <2>2. CASE j # i
    <3>1. ThreadOK(bel, t[j]) /\ t[j].part.cells \subseteq Cells
      BY ThisThread DEF ThreadOK
    <3>2. \A c \in t[j].part.cells : bel'[c] = bel[c]
      BY <2>2, <3>1, OneOwner
    <3>3. ThreadOK(bel', t[j])
      BY <3>1, <3>2, ThreadFrame
    <3> QED BY <1>2, <2>2, <3>3
  <2> QED BY <2>1, <2>2
<1>5. Refining'
  BY <1>1, <1>2, <1>3, <1>4 DEF Refining, Split
<1>6. Cutting'
  BY <1>1, <1>2 DEF Cutting
<1>7. Control'
  BY <1>1, <1>2 DEF Control, IInv
<1> QED BY <1>5, <1>6, <1>7 DEF IInv

-----------------------------------------------------------------------------
(* Moves in the making *)

\* z goes on where s is: the same part, pass and tables.
Like(s, z) ==
    /\ DOMAIN z = Fields
    /\ z.part = s.part /\ z.pass = s.pass /\ z.todo = s.todo
    /\ z.tile2cell = s.tile2cell

\* What add_to_move() records.
Grown(mv, to) ==
    [c \in DOMAIN to \cup DOMAIN mv |->
        IF c \in DOMAIN to THEN [old |-> bel[c], new |-> to[c]] ELSE mv[c]]

\* add_to_move() adds to the move; what it does to the boxes is of no matter here.
LEMMA AddToMoveIs ==
    ASSUME NEW s, DOMAIN s = Fields, NEW to, NEW z, z = add_to_move(s, to)
    PROVE  /\ Like(s, z) /\ z.moved_cells = Grown(s.moved_cells, to)
           /\ z.status = s.status /\ z.displaced_clusters = s.displaced_clusters
           /\ z.used_bels = s.used_bels /\ z.cursor = s.cursor /\ z.swap = s.swap
<1> DEFINE mv2 == Grown(s.moved_cells, to)
<1>1. PICK at2, boxes2 :
        z = [s EXCEPT !.moved_cells = mv2, !.local_cell2bel = at2, !.new_net_bounds = boxes2]
  BY DEF add_to_move, Grown
<1> HIDE DEF mv2
<1>2. /\ DOMAIN z = Fields /\ z.moved_cells = mv2 /\ z.part = s.part /\ z.pass = s.pass
      /\ z.todo = s.todo /\ z.tile2cell = s.tile2cell
  BY <1>1 DEF Fields
<1>3. /\ z.status = s.status /\ z.displaced_clusters = s.displaced_clusters
      /\ z.used_bels = s.used_bels /\ z.cursor = s.cursor /\ z.swap = s.swap
  BY <1>1 DEF Fields
<1> QED BY <1>2, <1>3 DEF Like, mv2

\* A move that is complete.
LEMMA PlanIs ==
    ASSUME NEW i, NEW s, DOMAIN s = Fields, Plan(i, s)
    PROVE  \E z : /\ t' = [t EXCEPT ![i] = z]
                  /\ Like(s, z) /\ z.moved_cells = s.moved_cells
                  /\ z.displaced_clusters = s.displaced_clusters /\ z.swap = s.swap
                  /\ z.status = "planned" /\ z.used_bels = {} /\ z.cursor = <<>>
<1> DEFINE z == [compute_total_change(s) EXCEPT
                   !.status = "planned", !.used_bels = {}, !.cursor = <<>>]
<1>1. t' = [t EXCEPT ![i] = z]
  BY DEF Plan
<1>2. PICK nb : compute_total_change(s) = [s EXCEPT !.new_net_bounds = nb]
  BY DEF compute_total_change
<1>3. z = [[s EXCEPT !.new_net_bounds = nb] EXCEPT
                   !.status = "planned", !.used_bels = {}, !.cursor = <<>>]
  BY <1>2
<1> HIDE DEF z
<1>4. /\ DOMAIN z = Fields /\ z.moved_cells = s.moved_cells /\ z.part = s.part
      /\ z.pass = s.pass /\ z.todo = s.todo /\ z.tile2cell = s.tile2cell
  BY <1>3 DEF Fields
<1>5. /\ z.displaced_clusters = s.displaced_clusters /\ z.swap = s.swap
      /\ z.status = "planned" /\ z.used_bels = {} /\ z.cursor = <<>>
  BY <1>3 DEF Fields
<1> QED BY <1>1, <1>4, <1>5 DEF Like

\* A thread between moves.
Idle(z) ==
    /\ z.moved_cells = NoMove /\ z.status = "idle" /\ z.swap = <<>>
    /\ z.displaced_clusters = <<>> /\ z.used_bels = {} /\ z.cursor = <<>>

\* reset_move_state() leaves the thread idle.
LEMMA ResetIs ==
    ASSUME NEW s, DOMAIN s = Fields, NEW z, z = reset_move_state(s)
    PROVE  Like(s, z) /\ Idle(z)
<1> DEFINE nb == [n \in DOMAIN s.new_net_bounds |->
                    IF Changed(s.new_net_bounds[n]) THEN s.net_bounds[n]
                    ELSE s.new_net_bounds[n]]
<1>1. z = [s EXCEPT !.moved_cells = NoMove, !.swap = <<>>, !.status = "idle",
                    !.displaced_clusters = <<>>, !.used_bels = {}, !.cursor = <<>>,
                    !.new_net_bounds = nb]
  BY DEF reset_move_state
<1> HIDE DEF nb
<1>2. /\ DOMAIN z = Fields /\ z.moved_cells = NoMove /\ z.part = s.part
      /\ z.pass = s.pass /\ z.todo = s.todo /\ z.tile2cell = s.tile2cell
  BY <1>1 DEF Fields
<1>3. /\ z.displaced_clusters = <<>> /\ z.swap = <<>>
      /\ z.status = "idle" /\ z.used_bels = {} /\ z.cursor = <<>>
  BY <1>1 DEF Fields
<1> QED BY <1>2, <1>3 DEF Like, Idle

\* Changes to the thread's own map and its boxes are of no matter here.
LEMMA RevertLocalIs ==
    ASSUME NEW s, DOMAIN s = Fields, NEW z, z = RevertLocal(s)
    PROVE  Like(s, z)
<1> DEFINE at2 == Put([c \in DOMAIN s.moved_cells |-> s.moved_cells[c].old], s.local_cell2bel)
<1>1. z = [s EXCEPT !.local_cell2bel = at2]
  BY DEF RevertLocal
<1> HIDE DEF at2
<1> QED BY <1>1 DEF Fields, Like

\* Nor is what commit_move() does to the boxes.
LEMMA CommitIs ==
    ASSUME NEW s, DOMAIN s = Fields, NEW z, z = commit_move(s)
    PROVE  Like(s, z)
<1> DEFINE nb == [n \in DOMAIN s.net_bounds |->
                    IF Changed(s.new_net_bounds[n]) THEN Settled(s.new_net_bounds[n])
                    ELSE s.net_bounds[n]]
<1>1. z = [s EXCEPT !.net_bounds = nb]
  BY DEF commit_move
<1> HIDE DEF nb
<1> QED BY <1>1 DEF Fields, Like

\* Like is transitive.
LEMMA LikeTrans ==
    ASSUME NEW s, NEW y, NEW z, Like(s, y), Like(y, z)
    PROVE  Like(s, z)
BY DEF Like

\* A move that has been given up leaves the thread idle.
LEMMA GiveUpIs ==
    ASSUME NEW i, NEW s, DOMAIN s = Fields, GiveUp(i, s)
    PROVE  \E z : t' = [t EXCEPT ![i] = z] /\ Like(s, z) /\ Idle(z)
<1> DEFINE z == reset_move_state(RevertLocal(s))
<1>1. t' = [t EXCEPT ![i] = z]
  BY DEF GiveUp
<1>2. Like(s, RevertLocal(s))
  BY RevertLocalIs
<1>3. Like(RevertLocal(s), z) /\ Idle(z)
  BY <1>2, ResetIs DEF Like
<1> QED BY <1>1, <1>2, <1>3, LikeTrans

\* Every cell of a part is on a bel of it.
AtHome(p) == \A c \in p.cells : bel[c] \in CanHold[c] /\ InPart(p, bel[c])

\* Until a move is bound the cells of the part are at home.
LEMMA BetweenMovesAtHome ==
    ASSUME NEW s, ThreadOK(bel, s), s.status \in {"idle", "planning", "planned"}
    PROVE  AtHome(s.part)
<1> SUFFICES ASSUME NEW c \in s.part.cells
             PROVE  bel[c] \in CanHold[c] /\ InPart(s.part, bel[c])
  BY DEF AtHome
<1>1. CASE c \notin DOMAIN s.moved_cells
  BY <1>1 DEF ThreadOK, WhereOK
<1>2. CASE c \in DOMAIN s.moved_cells
  <2>1. s.status # "idle"
    BY <1>2 DEF ThreadOK, StatusOK, NoMove
  <2>2. bel[c] = s.moved_cells[c].old
    BY <1>2, <2>1 DEF ThreadOK, WhereOK
  <2> QED BY <1>2, <2>2 DEF ThreadOK, MoveOK
<1> QED BY <1>1, <1>2

\* A thread whose cells are all on bels of its part is idle in good order.
LEMMA IdleOK ==
    ASSUME NEW at, NEW z, DOMAIN z = Fields, z.part.cells \subseteq Cells, Idle(z),
           \A c \in z.part.cells : at[c] \in CanHold[c] /\ InPart(z.part, at[c]),
           z.pass \in {"cells", "tiles", "over"},
           z.pass = "cells" => z.todo \subseteq Movers(z.part.cells),
           z.pass = "tiles" => TilesOK(at, z)
    PROVE  ThreadOK(at, z)
<1>1. DOMAIN z.moved_cells = {}
  BY DEF Idle, NoMove
<1>2. StatusOK(z)
  BY DEF StatusOK, Idle, Statuses
<1>3. MoveOK(z.part, z.moved_cells)
  BY <1>1 DEF MoveOK
<1>4. WhereOK(at, z)
  BY <1>1 DEF WhereOK, Idle
<1>5. Shaped(z.moved_cells) /\ Whole(z.moved_cells)
  BY <1>1 DEF Shaped, Whole
<1> QED BY <1>2, <1>3, <1>4, <1>5 DEF ThreadOK, Idle

\* Giving up a move, from any state in which the tables are as they were.
LEMMA GiveUpOK ==
    ASSUME NEW s, DOMAIN s = Fields, ThreadOK(bel, s),
           s.status \in {"idle", "planning", "planned"},
           NEW z, DOMAIN z = Fields, z.part = s.part, z.pass = s.pass,
           z.tile2cell = s.tile2cell, z.todo \subseteq s.todo, Idle(z)
    PROVE  ThreadOK(bel, z)
<1>1. AtHome(z.part)
  BY BetweenMovesAtHome
<1>2. z.part.cells \subseteq Cells /\ z.pass \in {"cells", "tiles", "over"}
  BY DEF ThreadOK, StatusOK
<1>3. z.pass = "cells" => z.todo \subseteq Movers(z.part.cells)
  BY DEF ThreadOK, StatusOK
<1>4. \A c \in s.part.cells : HomeOf(bel, s, c) = bel[c] /\ HomeOf(bel, z, c) = bel[c]
  <2>2. DOMAIN z.moved_cells = {}
    BY DEF Idle, NoMove
  <2>3. \A d \in DOMAIN s.moved_cells : bel[d] = s.moved_cells[d].old
    BY DEF ThreadOK, WhereOK, StatusOK, NoMove
  <2> QED BY <2>2, <2>3 DEF HomeOf
<1>5. z.pass = "tiles" => TilesOK(bel, z)
  <2>1. z.pass = "tiles" => TilesOK(bel, s)
    BY DEF ThreadOK
  <2>2. \A x \in DOMAIN s.tile2cell :
           {c \in s.part.cells : TileOf(HomeOf(bel, s, c)) = x}
             = {c \in s.part.cells : TileOf(HomeOf(bel, z, c)) = x}
    BY <1>4
  <2> QED BY <2>1, <2>2 DEF TilesOK, Idle
<1> QED BY <1>1, <1>2, <1>3, <1>5, IdleOK DEF AtHome

\* A move that grows by cells of the part keeps being one.
LEMMA GrownOK ==
    ASSUME Tables, NEW p, p.cells \subseteq Cells, AtHome(p), NEW mv, MoveOK(p, mv),
           \A c \in DOMAIN mv : bel[c] = mv[c].old,
           NEW to, DOMAIN to \subseteq p.cells \ Locked,
           \A c \in DOMAIN to : to[c] \in CanHold[c] /\ InPart(p, to[c]),
           \A c, d \in DOMAIN to : c # d => to[c] # to[d],
           \A c \in DOMAIN to, d \in DOMAIN mv : to[c] # mv[d].new
    PROVE  /\ MoveOK(p, Grown(mv, to))
           /\ \A c \in DOMAIN Grown(mv, to) : bel[c] = Grown(mv, to)[c].old
<1> DEFINE g == Grown(mv, to)
<1>1. DOMAIN g = DOMAIN to \cup DOMAIN mv
  BY DEF Grown
<1>2. \A c \in DOMAIN g : IF c \in DOMAIN to THEN g[c].old = bel[c] /\ g[c].new = to[c]
                          ELSE g[c] = mv[c]
  BY DEF Grown
<1> HIDE DEF g
<1>3. \A c \in DOMAIN g : bel[c] = g[c].old
  BY <1>1, <1>2
<1>4. DOMAIN g \subseteq p.cells \ Locked
  BY <1>1 DEF MoveOK
<1>5. \A c \in DOMAIN g : /\ g[c].old \in CanHold[c] /\ InPart(p, g[c].old)
                          /\ g[c].new \in CanHold[c] /\ InPart(p, g[c].new)
  BY <1>1, <1>2, <1>3, <1>4 DEF MoveOK, AtHome
<1>6. \A c, d \in DOMAIN g : c # d => g[c].new # g[d].new
  BY <1>1, <1>2 DEF MoveOK
<1>7. \A c, d \in DOMAIN g : c # d => g[c].old # g[d].old
  <2> SUFFICES ASSUME NEW c \in DOMAIN g, NEW d \in DOMAIN g, c # d, g[c].old = g[d].old
               PROVE  FALSE
    OBVIOUS
  <2>1. c \in Cells /\ d \in Cells /\ bel[c] = bel[d]
    BY <1>3, <1>4
  <2>2. bel[c] # None
    BY <1>3, <1>5, DeviceAssumption, <2>1
  <2> QED BY <2>1, <2>2, NoBelShared
<1>8. MoveOK(p, g)
  BY <1>4, <1>5, <1>6, <1>7 DEF MoveOK
<1> QED BY <1>3, <1>8 DEF g

\* While a move is planned its cells are where it found them.
LEMMA PlannedWhere ==
    ASSUME Tables, NEW z, AtHome(z.part), MoveOK(z.part, z.moved_cells),
           z.part.cells \subseteq Cells, z.status \in {"planning", "planned"},
           \A c \in DOMAIN z.moved_cells : bel[c] = z.moved_cells[c].old
    PROVE  WhereOK(bel, z)
<1> DEFINE mv == z.moved_cells
<1>1. \A c \in z.part.cells \ DOMAIN mv : bel[c] \in CanHold[c] /\ InPart(z.part, bel[c])
  BY DEF AtHome
<1>2. ASSUME NEW c \in DOMAIN mv, NEW d \in z.part.cells \ DOMAIN mv, bel[d] = mv[c].old
      PROVE  FALSE
  <2>1. c \in Cells /\ d \in Cells /\ bel[c] = bel[d] /\ c # d
    BY <1>2 DEF MoveOK
  <2>2. bel[c] # None
    BY <1>2, <2>1, DeviceAssumption DEF MoveOK
  <2> QED BY <2>1, <2>2, NoBelShared
<1> QED BY <1>1, <1>2 DEF WhereOK

-----------------------------------------------------------------------------
(* The steps of a thread that leave the tables alone *)

\* A step of thread i that keeps the invariant and moves no cell for good.
Kept(i) ==
    \E z : /\ t' = [t EXCEPT ![i] = z]
           /\ z.part = t[i].part /\ ThreadOK(bel', z) /\ Tables'
           /\ \A c \in Cells \ t[i].part.cells : bel'[c] = bel[c]
           /\ \A c \in t[i].part.cells : HomeOf(bel', z, c) = HomeOf(bel, t[i], c)
           /\ UNCHANGED globals

\* The states of a thread in which nothing of its move is bound.
Unbound == {"idle", "planning", "planned"}

\* Until a move is bound the cells are where they were before it.
LEMMA HomeIsBel ==
    ASSUME NEW s, ThreadOK(bel, s), s.status \in Unbound, NEW c
    PROVE  HomeOf(bel, s, c) = bel[c]
<1>1. \A d \in DOMAIN s.moved_cells : bel[d] = s.moved_cells[d].old
  BY DEF ThreadOK, WhereOK, StatusOK, NoMove, Unbound
<1> QED BY <1>1 DEF HomeOf

\* A step of a thread that binds nothing.
LEMMA KeptByPlanning ==
    ASSUME IInv, NEW i \in DOMAIN t, UNCHANGED <<tables, globals>>,
           t[i].status \in Unbound,
           NEW z, t' = [t EXCEPT ![i] = z], z.part = t[i].part, ThreadOK(bel, z),
           z.status \in Unbound
    PROVE  Kept(i)
<1>1. bel' = bel /\ bel_to_cell' = bel_to_cell /\ UNCHANGED globals
  BY DEF tables
<1>2. ThreadOK(bel, t[i]) /\ Tables
  BY ThisThread
<1>3. ThreadOK(bel', z)
  BY <1>1
<1>4. Tables'
  BY <1>1, <1>2 DEF Tables
<1>5. \A c \in t[i].part.cells : HomeOf(bel', z, c) = HomeOf(bel, t[i], c)
  BY <1>1, <1>2, HomeIsBel
<1> QED BY <1>1, <1>3, <1>4, <1>5 DEF Kept

\* A thread that is idle, with fewer cells or tiles to try.
LEMMA TriedIs ==
    ASSUME NEW s, DOMAIN s = Fields, NEW x, NEW z, z = [s EXCEPT !.todo = @ \ {x}]
    PROVE  /\ DOMAIN z = Fields /\ z.part = s.part /\ z.pass = s.pass
           /\ z.tile2cell = s.tile2cell /\ z.todo \subseteq s.todo
           /\ z.moved_cells = s.moved_cells /\ z.status = s.status
           /\ z.swap = s.swap /\ z.displaced_clusters = s.displaced_clusters
           /\ z.used_bels = s.used_bels /\ z.cursor = s.cursor
BY DEF Fields

\* An idle thread is between moves.
LEMMA IdleIs ==
    ASSUME NEW s, ThreadOK(bel, s), s.status = "idle"
    PROVE  Idle(s)
BY DEF ThreadOK, StatusOK, Idle

\* The bel drawn is the one the cell has: the cell is done with.
LEMMA SkipKept ==
    ASSUME IInv, NEW i \in DOMAIN t, Skip(i)
    PROVE  Kept(i)
<1>1. ThreadOK(bel, t[i]) /\ t[i].status = "idle" /\ UNCHANGED <<tables, globals>>
  BY ThisThread DEF Skip
<1>2. PICK c : t' = [t EXCEPT ![i].todo = @ \ {c}]
  BY DEF Skip
<1> DEFINE z == [t[i] EXCEPT !.todo = @ \ {c}]
<1>3. t' = [t EXCEPT ![i] = z]
  BY <1>2
<1>4. DOMAIN t[i] = Fields
  BY <1>1 DEF ThreadOK
<1> HIDE DEF z
<1>5. /\ DOMAIN z = Fields /\ z.part = t[i].part /\ z.pass = t[i].pass
      /\ z.tile2cell = t[i].tile2cell /\ z.todo \subseteq t[i].todo
      /\ z.moved_cells = t[i].moved_cells /\ z.status = t[i].status
      /\ z.swap = t[i].swap /\ z.displaced_clusters = t[i].displaced_clusters
      /\ z.used_bels = t[i].used_bels /\ z.cursor = t[i].cursor
  BY <1>4, TriedIs DEF z
<1>6. Idle(z)
  BY <1>1, <1>5, IdleIs DEF Idle
<1>7. ThreadOK(bel, z)
  BY <1>1, <1>4, <1>5, <1>6, GiveUpOK
<1> QED BY <1>1, <1>3, <1>5, <1>7, KeptByPlanning DEF Unbound

\* A complete move.
LEMMA PlannedOK ==
    ASSUME Tables, NEW s, ThreadOK(bel, s), s.status \in {"idle", "planning"},
           s.pass # "over",
           NEW z, DOMAIN z = Fields, z.part = s.part, z.pass = s.pass,
           z.tile2cell = s.tile2cell, z.todo \subseteq s.todo,
           z.status = "planned", z.cursor = <<>>,
           MoveOK(z.part, z.moved_cells),
           \A c \in DOMAIN z.moved_cells : bel[c] = z.moved_cells[c].old,
           Shaped(z.moved_cells), Whole(z.moved_cells),
           z.pass = "cells" => z.swap = <<>>,
           z.pass = "tiles" => TilesOK(bel, z)
    PROVE  ThreadOK(bel, z)
<1>1. AtHome(z.part) /\ z.part.cells \subseteq Cells
  BY BetweenMovesAtHome DEF ThreadOK
<1>2. WhereOK(bel, z)
  BY <1>1, PlannedWhere
<1>3. StatusOK(z)
  BY DEF ThreadOK, StatusOK, Statuses
<1> QED BY <1>1, <1>2, <1>3 DEF ThreadOK

\* A move that is given up.
LEMMA GiveUpKept ==
    ASSUME IInv, NEW i \in DOMAIN t, UNCHANGED <<tables, globals>>,
           t[i].status \in Unbound,
           NEW s, DOMAIN s = Fields, s.part = t[i].part, s.pass = t[i].pass,
           s.tile2cell = t[i].tile2cell, s.todo \subseteq t[i].todo, GiveUp(i, s)
    PROVE  Kept(i)
<1>1. ThreadOK(bel, t[i]) /\ DOMAIN t[i] = Fields
  BY ThisThread DEF ThreadOK
<1>2. PICK z : t' = [t EXCEPT ![i] = z] /\ Like(s, z) /\ Idle(z)
  BY GiveUpIs
<1>3. ThreadOK(bel, z)
  BY <1>1, <1>2, GiveUpOK DEF Like, Unbound
<1> QED BY <1>2, <1>3, KeptByPlanning DEF Like, Idle, Unbound

\* No move is a move in good order.
LEMMA NoMoveOK ==
    ASSUME NEW p
    PROVE  MoveOK(p, NoMove) /\ DOMAIN NoMove = {}
BY DEF MoveOK, NoMove

\* A step that plans a complete move.
LEMMA PlanKept ==
    ASSUME IInv, NEW i \in DOMAIN t, UNCHANGED <<tables, globals>>,
           t[i].status \in {"idle", "planning"}, t[i].pass = "cells",
           NEW s, DOMAIN s = Fields, s.part = t[i].part, s.pass = t[i].pass,
           s.tile2cell = t[i].tile2cell, s.todo \subseteq t[i].todo, s.swap = t[i].swap,
           MoveOK(s.part, s.moved_cells),
           \A c \in DOMAIN s.moved_cells : bel[c] = s.moved_cells[c].old,
           Shaped(s.moved_cells), Whole(s.moved_cells),
           Plan(i, s)
    PROVE  Kept(i)
<1>1. ThreadOK(bel, t[i]) /\ DOMAIN t[i] = Fields /\ Tables
  BY ThisThread DEF ThreadOK
<1>2. PICK z : /\ t' = [t EXCEPT ![i] = z]
               /\ Like(s, z) /\ z.moved_cells = s.moved_cells
               /\ z.swap = s.swap /\ z.status = "planned" /\ z.cursor = <<>>
  BY PlanIs
<1>3. z.swap = <<>>
  BY <1>1, <1>2 DEF ThreadOK, StatusOK
<1>4. ThreadOK(bel, z)
  BY <1>1, <1>2, <1>3, PlannedOK DEF Like
<1> QED BY <1>2, <1>4, KeptByPlanning DEF Like, Unbound

\* A cell that is tried.
LEMMA TriedCell ==
    ASSUME IInv, NEW i \in DOMAIN t, t[i].status = "idle", t[i].pass = "cells",
           NEW c \in t[i].todo
    PROVE  /\ c \in t[i].part.cells \ Locked /\ c \in Cells
           /\ RootOf[c] \in {None, c}
           /\ bel[c] \in CanHold[c] /\ InPart(t[i].part, bel[c])
<1>1. ThreadOK(bel, t[i])
  BY ThisThread
<1>2. c \in t[i].part.cells \ Locked /\ c \in Cells /\ RootOf[c] \in {None, c}
  BY <1>1 DEF ThreadOK, StatusOK, Movers
<1>3. AtHome(t[i].part)
  BY <1>1, BetweenMovesAtHome
<1> QED BY <1>2, <1>3 DEF AtHome

\* single_cell_swap()
LEMMA SwapCellKept ==
    ASSUME IInv, NEW i \in DOMAIN t, SwapCell(i)
    PROVE  Kept(i)
<1> DEFINE old == t[i]
           p == t[i].part
<1>1. /\ ThreadOK(bel, old) /\ Tables /\ old.status = "idle" /\ old.pass = "cells"
      /\ DOMAIN old = Fields /\ p.cells \subseteq Cells /\ UNCHANGED <<tables, globals>>
  BY ThisThread DEF SwapCell, ThreadOK
<1>2. PICK c \in old.todo : /\ RootOf[c] = None
        /\ \E b \in RandomBels(old, c) \ {bel[c]} :
            LET bound == bel_to_cell[b]
                s == add_to_move([old EXCEPT !.todo = @ \ {c}],
                                 [d \in {c, bound} \ {None} |-> IF d = c THEN b ELSE bel[c]])
            IN  \/ /\ MayMove(s, c, b)
                   /\ bound # None => /\ bound \notin Locked /\ RootOf[bound] = None
                                      /\ MayMove(s, bound, bel[c])
                   /\ Plan(i, s)
                \/ GiveUp(i, s)
  BY DEF SwapCell
<1>3. PICK b \in RandomBels(old, c) \ {bel[c]} :
            LET bound == bel_to_cell[b]
                s == add_to_move([old EXCEPT !.todo = @ \ {c}],
                                 [d \in {c, bound} \ {None} |-> IF d = c THEN b ELSE bel[c]])
            IN  \/ /\ MayMove(s, c, b)
                   /\ bound # None => /\ bound \notin Locked /\ RootOf[bound] = None
                                      /\ MayMove(s, bound, bel[c])
                   /\ Plan(i, s)
                \/ GiveUp(i, s)
  BY <1>2
<1> DEFINE bound == bel_to_cell[b]
           s0 == [old EXCEPT !.todo = @ \ {c}]
           to == [d \in {c, bound} \ {None} |-> IF d = c THEN b ELSE bel[c]]
           s == add_to_move(s0, to)
<1>4. \/ /\ MayMove(s, c, b)
         /\ bound # None => /\ bound \notin Locked /\ RootOf[bound] = None
                            /\ MayMove(s, bound, bel[c])
         /\ Plan(i, s)
      \/ GiveUp(i, s)
  BY <1>3
<1>5. /\ DOMAIN s0 = Fields /\ s0.part = p /\ s0.pass = "cells"
      /\ s0.tile2cell = old.tile2cell /\ s0.todo \subseteq old.todo
      /\ s0.moved_cells = NoMove /\ s0.swap = old.swap
  <2>1. old.moved_cells = NoMove
    BY <1>1 DEF ThreadOK, StatusOK
  <2>2. /\ DOMAIN s0 = Fields /\ s0.part = old.part /\ s0.pass = old.pass
        /\ s0.tile2cell = old.tile2cell /\ s0.todo \subseteq old.todo
        /\ s0.moved_cells = old.moved_cells /\ s0.swap = old.swap
    <3> HIDE DEF old
    <3> QED BY <1>1, TriedIs
  <2> QED BY <1>1, <2>1, <2>2
<1>6. Like(s0, s) /\ s.moved_cells = Grown(NoMove, to) /\ s.swap = s0.swap
  <2> HIDE DEF s0, to
  <2> QED BY <1>5, AddToMoveIs DEF s
<1>7. c \in p.cells \ Locked /\ c \in Cells /\ bel[c] \in CanHold[c] /\ InPart(p, bel[c])
  BY <1>1, TriedCell
<1>8. b \in CanHold[c] /\ InPart(p, b) /\ b # bel[c] /\ b \in Bels
  BY <1>7, DeviceAssumption DEF RandomBels
<1>9. bound # None => bound \in p.cells /\ bound # c /\ bel[bound] = b
  <2>1. bound # None => bound \in Cells /\ bel[bound] = b
    BY <1>1, <1>8 DEF Tables
  <2>2. b # None
    BY <1>8, DeviceAssumption
  <2> QED BY <1>7, <1>8, <2>1, <2>2, BoundInPart
<1>10. CASE GiveUp(i, s)
  <2> HIDE DEF s
  <2> QED BY <1>1, <1>5, <1>6, <1>10, GiveUpKept DEF Like, Unbound
<1>11. CASE /\ MayMove(s, c, b)
            /\ bound # None => /\ bound \notin Locked /\ RootOf[bound] = None
                               /\ MayMove(s, bound, bel[c])
            /\ Plan(i, s)
  <2>1. c # None
    BY <1>7, DeviceAssumption
  <2>2. DOMAIN to \subseteq {c, bound} /\ \A d \in DOMAIN to : d # None
    OBVIOUS
  <2>3. \A d \in DOMAIN to : to[d] = IF d = c THEN b ELSE bel[c]
    OBVIOUS
  <2>4. s.part = p
    BY <1>5, <1>6 DEF Like
  <2> HIDE DEF to, s, bound
  <2>5. \A d \in DOMAIN to : d \in p.cells \ Locked /\ RootOf[d] = None
    BY <1>2, <1>7, <1>9, <1>11, <2>2
  <2>6. \A d \in DOMAIN to : to[d] \in CanHold[d] /\ InPart(p, to[d])
    BY <1>7, <1>8, <1>11, <2>2, <2>3, <2>4 DEF MayMove
  <2>7. \A d, e \in DOMAIN to : d # e => to[d] # to[e]
    BY <1>8, <2>2, <2>3
  <2>8. AtHome(p)
    BY <1>1, BetweenMovesAtHome
  <2>9. /\ MoveOK(p, Grown(NoMove, to))
        /\ \A d \in DOMAIN Grown(NoMove, to) : bel[d] = Grown(NoMove, to)[d].old
    <3>1. MoveOK(p, NoMove) /\ DOMAIN NoMove = {}
      BY NoMoveOK
    <3> HIDE DEF p, old
    <3>2. DOMAIN to \subseteq p.cells \ Locked
      BY <2>5
    <3> QED BY <1>1, <2>6, <2>7, <2>8, <3>1, <3>2, GrownOK
  <2>10. \A d \in DOMAIN s.moved_cells : RootOf[d] = None
    BY <1>6, <2>5 DEF Grown, NoMove
  <2>11. Shaped(s.moved_cells) /\ Whole(s.moved_cells)
    BY <2>10 DEF Shaped, Whole
  <2> QED BY <1>1, <1>5, <1>6, <1>11, <2>9, <2>11, PlanKept DEF Like
<1> QED BY <1>4, <1>10, <1>11

-----------------------------------------------------------------------------
(* chain_swap() *)

\* A cell that is in a cluster is its root or one of the root's children.
LEMMA ClusterOf ==
    ASSUME NEW c \in Cells, NEW r, RootOf[c] = r, r # None
    PROVE  /\ r \in DOMAIN Children /\ r \in Cells /\ RootOf[r] = r
           /\ Len(Children[r]) \in Nat
           /\ \E j \in 0..Len(Children[r]) : c = Member(r, j)
<1>1. r \in DOMAIN Children /\ (c = r \/ c \in Range(Children[r]))
  BY DEF RootOf
<1>2. RootOf[r] = r /\ r \in Cells /\ Children[r] \in Seq(Cells)
  BY <1>1, ClusterAssumption
<1>3. Len(Children[r]) \in Nat /\ DOMAIN Children[r] = 1..Len(Children[r])
  BY <1>2
<1>4. CASE c = r
  <2>1. 0 \in 0..Len(Children[r]) /\ Member(r, 0) = c
    BY <1>3, <1>4 DEF Member
  <2> QED BY <1>1, <1>2, <1>3, <2>1
<1>5. CASE c \in Range(Children[r])
  <2>1. PICK k \in 1..Len(Children[r]) : Children[r][k] = c
    BY <1>3, <1>5 DEF Range
  <2>2. k \in 0..Len(Children[r]) /\ Member(r, k) = c
    BY <1>3, <2>1 DEF Member
  <2> QED BY <1>1, <1>2, <1>3, <2>2
<1> QED BY <1>1, <1>4, <1>5

\* The members of a cluster and their places.
LEMMA MemberIs ==
    ASSUME NEW r \in DOMAIN Children, NEW k \in 0..Len(Children[r]), NEW b \in Bels
    PROVE  /\ Member(r, k) \in Cells /\ RootOf[Member(r, k)] = r
           /\ PlaceOf(r, b, k) = Shift(b, Offset[Member(r, k)])
           /\ r # None
<1>1. /\ RootOf[r] = r /\ r \in Cells /\ Children[r] \in Seq(Cells)
      /\ \A d \in Range(Children[r]) : RootOf[d] = r
      /\ Shift(b, Offset[r]) = b
  BY ClusterAssumption
<1>2. r # None
  BY <1>1, DeviceAssumption
<1>3. CASE k = 0
  BY <1>1, <1>2, <1>3 DEF Member, PlaceOf
<1>4. CASE k # 0
  <2>1. k \in 1..Len(Children[r])
    BY <1>1, <1>4
  <2>2. Children[r][k] \in Cells /\ Children[r][k] \in Range(Children[r])
    BY <1>1, <2>1 DEF Range
  <2> QED BY <1>1, <1>2, <1>4, <2>2 DEF Member, PlaceOf
<1> QED BY <1>3, <1>4

\* The members of a cluster are never in transit while a thread that does not
\* itself move them has one of them: a thread moves whole clusters.
LEMMA NotInTransit ==
    ASSUME IInv, NEW i \in DOMAIN t, t[i].status \in Unbound,
           NEW e \in t[i].part.cells, NEW c \in Cells,
           RootOf[e] # None, RootOf[c] = RootOf[e]
    PROVE  bel[c] \in CanHold[c] /\ bel[c] # None
<1>1. Split(PartsOf)
  BY ThisThread
<1>2. PICK j \in DOMAIN t : c \in t[j].part.cells
  BY <1>1 DEF Split, PartsOf
<1>3. ThreadOK(bel, t[j]) /\ ThreadOK(bel, t[i])
  BY ThisThread
<1>4. CanHold[c] \subseteq Bels /\ None \notin Bels
  BY DeviceAssumption
<1>5. bel[c] # None
  <2> SUFFICES ASSUME bel[c] = None PROVE FALSE
    OBVIOUS
  <2>1. c \in DOMAIN t[j].moved_cells
    BY <1>2, <1>3, <1>4 DEF ThreadOK, WhereOK
  <2>2. t[j].status \notin Unbound
    <3>1. t[j].moved_cells[c].old # None
      BY <1>3, <1>4, <2>1 DEF ThreadOK, MoveOK
    <3>2. t[j].status = "idle" => DOMAIN t[j].moved_cells = {}
      BY <1>3 DEF ThreadOK, StatusOK, NoMove
    <3> QED BY <1>3, <2>1, <3>1, <3>2 DEF ThreadOK, WhereOK, Unbound
  <2>3. Whole(t[j].moved_cells)
    BY <1>3, <2>2 DEF ThreadOK, Unbound
  <2>4. e \in DOMAIN t[j].moved_cells
    <3>1. e \in Cells
      BY <1>3 DEF ThreadOK
    <3> QED BY <2>1, <2>3, <3>1 DEF Whole
  <2>5. e \in t[j].part.cells
    BY <1>3, <2>4 DEF ThreadOK, MoveOK
  <2>6. i = j
    BY <2>5, OneOwner
  <2> QED BY <2>2, <2>6
<1> QED BY <1>2, <1>3, <1>5, CellInPart

\* A member of the cluster at the cursor that may move is in the part.
LEMMA MemberInPart ==
    ASSUME IInv, NEW i \in DOMAIN t, t[i].status \in Unbound, NEW r, Mine(t[i].part, r),
           NEW c \in Cells, RootOf[c] = r, InPart(t[i].part, bel[c])
    PROVE  c \in t[i].part.cells /\ c \notin Locked
<1>1. PICK e \in t[i].part.cells : RootOf[e] = r
  BY DEF Mine
<1>2. r \in Cells /\ r # None /\ RootOf[r] = r /\ r \notin Locked
  BY ClusterAssumption, DeviceAssumption DEF Mine
<1>3. c \notin Locked
  BY <1>2, ClustersLockedAsAWhole
<1>4. bel[c] # None
  BY <1>1, <1>2, NotInTransit
<1>5. c \in t[i].part.cells
  BY <1>1, <1>4, BoundInPart
<1> QED BY <1>3, <1>5

\* A member of the cluster at the cursor is added to the move.
LEMMA AddMember ==
    ASSUME NEW mv, NEW r \in DOMAIN Children, NEW k \in 0..Len(Children[r]),
           NEW b \in Bels, Shaped(mv), Remaining(mv, r, k),
           k > 0 => r \in DOMAIN mv /\ mv[r].new = b,
           NEW c, c = Member(r, k), c \notin DOMAIN mv,
           NEW to, DOMAIN to = {c}, to[c] = PlaceOf(r, b, k),
           NEW g, g = Grown(mv, to)
    PROVE  /\ r \in DOMAIN g /\ g[r].new = b
           /\ Shaped(g) /\ Remaining(g, r, k + 1)
<1>1. /\ c \in Cells /\ RootOf[c] = r /\ PlaceOf(r, b, k) = Shift(b, Offset[c]) /\ r # None
  BY MemberIs
<1>2. RootOf[r] = r /\ r \in Cells /\ Len(Children[r]) \in Nat /\ Shift(b, Offset[r]) = b
  BY ClusterAssumption
<1>3. /\ DOMAIN g = {c} \cup DOMAIN mv /\ g[c].new = Shift(b, Offset[c])
      /\ \A d \in DOMAIN mv : g[d] = mv[d]
  BY <1>1 DEF Grown
<1>4. r \in DOMAIN g /\ g[r].new = b
  <2>1. CASE k = 0
    <3>1. c = r
      BY <2>1 DEF Member
    <3> QED BY <1>2, <1>3, <3>1
  <2>2. CASE k # 0
    BY <1>3, <2>2
  <2> QED BY <2>1, <2>2
<1>5. Shaped(g)
  BY <1>1, <1>3, <1>4 DEF Shaped
<1>6. ASSUME NEW e \in DOMAIN g, NEW d \in Cells,
             RootOf[e] # None, RootOf[d] = RootOf[e], d \notin DOMAIN g
      PROVE  RootOf[e] = r /\ \E j \in (k + 1)..Len(Children[r]) : d = Member(r, j)
  <2>1. d # c /\ d \notin DOMAIN mv
    BY <1>3, <1>6
  <2>2. RootOf[e] = r /\ \E j \in k..Len(Children[r]) : d = Member(r, j)
    <3>1. CASE e \in DOMAIN mv
      BY <1>6, <2>1, <3>1 DEF Remaining
    <3>2. CASE e \notin DOMAIN mv
      <4>1. e = c /\ RootOf[e] = r
        BY <1>1, <1>3, <1>6, <3>2
      <4>2. CASE k = 0
        BY <1>1, <1>6, <4>1, <4>2, ClusterOf
      <4>3. CASE k # 0
        BY <1>1, <1>2, <1>6, <2>1, <4>1, <4>3 DEF Remaining
      <4> QED BY <4>1, <4>2, <4>3
    <3> QED BY <3>1, <3>2
  <2>3. PICK j \in k..Len(Children[r]) : d = Member(r, j)
    BY <2>2
  <2>4. j # k
    BY <2>1, <2>3
  <2>5. j \in (k + 1)..Len(Children[r])
    BY <1>2, <2>4
  <2> QED BY <2>2, <2>3, <2>5
<1> QED BY <1>4, <1>5, <1>6 DEF Remaining

\* So is a cell outside clusters.
LEMMA AddSingle ==
    ASSUME NEW mv, NEW r, NEW k, NEW b, Shaped(mv), Remaining(mv, r, k),
           r \in DOMAIN mv, mv[r].new = b,
           NEW c, RootOf[c] = None, c \notin DOMAIN mv,
           NEW to, DOMAIN to = {c}, NEW g, g = Grown(mv, to)
    PROVE  /\ r \in DOMAIN g /\ g[r].new = b
           /\ Shaped(g) /\ Remaining(g, r, k)
<1>1. DOMAIN g = {c} \cup DOMAIN mv /\ \A d \in DOMAIN mv : g[d] = mv[d]
  BY DEF Grown
<1>2. Shaped(g)
  BY <1>1 DEF Shaped
<1>3. Remaining(g, r, k)
  BY <1>1 DEF Remaining
<1> QED BY <1>1, <1>2, <1>3

\* A planned move that is not complete.
LEMMA PlanningKept ==
    ASSUME IInv, NEW i \in DOMAIN t, UNCHANGED <<tables, globals>>,
           t[i].status \in {"idle", "planning"}, t[i].pass = "cells",
           NEW z, DOMAIN z = Fields, z.part = t[i].part, z.pass = t[i].pass,
           z.tile2cell = t[i].tile2cell, z.todo \subseteq t[i].todo, z.swap = t[i].swap,
           z.status = "planning", PlanningOK(z),
           MoveOK(z.part, z.moved_cells),
           \A c \in DOMAIN z.moved_cells : bel[c] = z.moved_cells[c].old,
           Shaped(z.moved_cells), t' = [t EXCEPT ![i] = z]
    PROVE  Kept(i)
<1>1. ThreadOK(bel, t[i]) /\ DOMAIN t[i] = Fields /\ Tables
  BY ThisThread DEF ThreadOK
<1>2. AtHome(z.part) /\ z.part.cells \subseteq Cells
  BY <1>1, BetweenMovesAtHome DEF ThreadOK
<1>3. WhereOK(bel, z)
  BY <1>1, <1>2, PlannedWhere
<1>4. StatusOK(z)
  BY <1>1 DEF ThreadOK, StatusOK, Statuses
<1>5. ThreadOK(bel, z)
  BY <1>2, <1>3, <1>4 DEF ThreadOK
<1> QED BY <1>5, KeptByPlanning DEF Unbound

\* chain_swap() starts with the cluster at its new place.
LEMMA SwapClusterKept ==
    ASSUME IInv, NEW i \in DOMAIN t, SwapCluster(i)
    PROVE  Kept(i)
<1>1. /\ ThreadOK(bel, t[i]) /\ Tables /\ t[i].status = "idle" /\ t[i].pass = "cells"
      /\ DOMAIN t[i] = Fields /\ UNCHANGED <<tables, globals>>
  BY ThisThread DEF SwapCluster, ThreadOK
<1>2. PICK c \in t[i].todo : /\ RootOf[c] = c
        /\ \E b \in RandomBels(t[i], c) \ {bel[c]} :
            LET s == [t[i] EXCEPT !.todo = @ \ {c}]
            IN  \/ /\ Fits(c, b)
                   /\ t' = [t EXCEPT ![i] = [s EXCEPT !.status = "planning",
                                                     !.cursor = <<c, b, 0>>]]
                \/ ~Fits(c, b) /\ GiveUp(i, s)
  BY DEF SwapCluster
<1>7. PICK b \in RandomBels(t[i], c) \ {bel[c]} :
            LET s == [t[i] EXCEPT !.todo = @ \ {c}]
            IN  \/ /\ Fits(c, b)
                   /\ t' = [t EXCEPT ![i] = [s EXCEPT !.status = "planning",
                                                     !.cursor = <<c, b, 0>>]]
                \/ ~Fits(c, b) /\ GiveUp(i, s)
  BY <1>2
<1> DEFINE s == [t[i] EXCEPT !.todo = @ \ {c}]
           z == [s EXCEPT !.status = "planning", !.cursor = <<c, b, 0>>]
<1>3. t' = [t EXCEPT ![i] = z] \/ GiveUp(i, s)
  BY <1>7
<1>4. /\ DOMAIN s = Fields /\ s.part = t[i].part /\ s.pass = t[i].pass
      /\ s.tile2cell = t[i].tile2cell /\ s.todo \subseteq t[i].todo
      /\ s.moved_cells = t[i].moved_cells /\ s.status = t[i].status
      /\ s.swap = t[i].swap /\ s.displaced_clusters = t[i].displaced_clusters
      /\ s.used_bels = t[i].used_bels
  BY <1>1, TriedIs
<1> HIDE DEF s
<1>5. CASE GiveUp(i, s)
  BY <1>1, <1>4, <1>5, GiveUpKept DEF Unbound
<1>6. CASE t' = [t EXCEPT ![i] = z]
  <2>1. /\ DOMAIN z = Fields /\ z.part = t[i].part /\ z.pass = t[i].pass
        /\ z.tile2cell = t[i].tile2cell /\ z.todo \subseteq t[i].todo
        /\ z.moved_cells = t[i].moved_cells /\ z.status = "planning"
        /\ z.swap = t[i].swap
    BY <1>4 DEF Fields
  <2>2. z.displaced_clusters = t[i].displaced_clusters /\ z.cursor = <<c, b, 0>>
    BY <1>4 DEF Fields
  <2> HIDE DEF z
  <2>3. Idle(t[i])
    BY <1>1, IdleIs
  <2>4. z.moved_cells = NoMove /\ z.displaced_clusters = <<>>
    BY <2>1, <2>2, <2>3 DEF Idle
  <2>5. /\ c \in t[i].part.cells \ Locked /\ c \in Cells
    BY <1>1, TriedCell
  <2>6. c # None
    BY <2>5, DeviceAssumption
  <2>7. c \in DOMAIN Children /\ Len(Children[c]) \in Nat
    BY <1>2, <2>5, <2>6, ClusterOf
  <2>8. b \in Bels
    BY <2>5, DeviceAssumption DEF RandomBels
  <2>9. Mine(z.part, c)
    BY <1>2, <2>1, <2>5, <2>7 DEF Mine
  <2>10. DOMAIN z.moved_cells = {}
    BY <2>4, NoMoveOK
  <2>11. PlanningOK(z)
    <3>1. z.cursor[1] = c /\ z.cursor[2] = b /\ z.cursor[3] = 0
      BY <2>2
    <3>2. z.displaced_clusters \in Seq(Cells \X Bels) /\ Len(z.displaced_clusters) = 0
      BY <2>4
    <3>3. Remaining(z.moved_cells, c, 0)
      BY <2>10 DEF Remaining
    <3>4. 0 \in 0..Len(Children[c])
      BY <2>7
    <3>5. z.pass = "cells" /\ z.cursor = <<c, b, 0>>
      BY <1>1, <2>1, <2>2
    <3> QED BY <2>8, <2>9, <2>10, <3>1, <3>2, <3>3, <3>4, <3>5 DEF PlanningOK
  <2>12. Shaped(z.moved_cells) /\ MoveOK(z.part, z.moved_cells)
    BY <2>4, <2>10, NoMoveOK DEF Shaped
  <2> QED BY <1>1, <1>6, <2>1, <2>10, <2>11, <2>12, PlanningKept
<1> QED BY <1>3, <1>5, <1>6

\* The thread s after the member at the cursor, and the cell in its way, have
\* joined the move.
MidOK(s, x) ==
    LET r == s.cursor[1]
        k == s.cursor[3]
    IN  /\ Like(s, x) /\ x.status = "planning" /\ x.cursor = s.cursor /\ x.swap = s.swap
        /\ MoveOK(x.part, x.moved_cells)
        /\ \A c \in DOMAIN x.moved_cells : bel[c] = x.moved_cells[c].old
        /\ r \in DOMAIN x.moved_cells /\ x.moved_cells[r].new = s.cursor[2]
        /\ Shaped(x.moved_cells) /\ Remaining(x.moved_cells, r, k + 1)
        /\ x.displaced_clusters \in Seq(Cells \X Bels)
        /\ \A j \in 1..Len(x.displaced_clusters) : Mine(x.part, x.displaced_clusters[j][1])
        /\ \A c \in DOMAIN x.moved_cells : x.moved_cells[c].new \in x.used_bels

\* It goes on with the next member, the next cluster, or ends.
LEMMA OnwardKept ==
    ASSUME IInv, NEW i \in DOMAIN t, t[i].status = "planning",
           NEW x, MidOK(t[i], x), Onward(i, x), UNCHANGED <<tables, globals>>
    PROVE  Kept(i)
<1> DEFINE s == t[i]
           r == s.cursor[1]
           k == s.cursor[3]
<1>1. /\ ThreadOK(bel, s) /\ DOMAIN s = Fields /\ s.status = "planning" /\ PlanningOK(s)
      /\ s.pass = "cells"
  BY ThisThread DEF ThreadOK, PlanningOK
<1>2. /\ DOMAIN x = Fields /\ x.part = s.part /\ x.pass = s.pass /\ x.todo = s.todo
      /\ x.tile2cell = s.tile2cell /\ x.status = "planning" /\ x.cursor = s.cursor
      /\ x.swap = s.swap
  BY DEF MidOK, Like
<1>3. /\ MoveOK(x.part, x.moved_cells)
      /\ \A c \in DOMAIN x.moved_cells : bel[c] = x.moved_cells[c].old
      /\ Shaped(x.moved_cells) /\ Remaining(x.moved_cells, r, k + 1)
      /\ r \in DOMAIN x.moved_cells /\ x.moved_cells[r].new = s.cursor[2]
  BY DEF MidOK
<1>4. /\ x.displaced_clusters \in Seq(Cells \X Bels)
      /\ \A j \in 1..Len(x.displaced_clusters) : Mine(x.part, x.displaced_clusters[j][1])
      /\ \A c \in DOMAIN x.moved_cells : x.moved_cells[c].new \in x.used_bels
  BY DEF MidOK
<1>5. /\ Mine(s.part, r) /\ s.cursor[2] \in Bels /\ k \in 0..Len(Children[r])
      /\ s.cursor = <<r, s.cursor[2], k>> /\ Len(Children[r]) \in Nat
  <2>1. /\ Mine(s.part, r) /\ s.cursor[2] \in Bels /\ k \in 0..Len(Children[r])
        /\ s.cursor = <<r, s.cursor[2], k>>
    BY <1>1 DEF PlanningOK
  <2>2. Len(Children[r]) \in Nat
    BY <2>1, ClusterAssumption DEF Mine
  <2> QED BY <2>1, <2>2
<1> HIDE DEF r, k, s
<1>6. \/ /\ k < Len(Children[r])
         /\ t' = [t EXCEPT ![i] = [x EXCEPT !.cursor[3] = @ + 1]]
      \/ /\ k = Len(Children[r]) /\ x.displaced_clusters # <<>>
         /\ \/ t' = [t EXCEPT ![i] = [x EXCEPT
                        !.cursor = <<Head(x.displaced_clusters)[1],
                                     Head(x.displaced_clusters)[2], 0>>,
                        !.displaced_clusters = Tail(@)]]
            \/ GiveUp(i, x)
      \/ /\ k = Len(Children[r]) /\ x.displaced_clusters = <<>>
         /\ Plan(i, x) \/ GiveUp(i, x)
  BY <1>2 DEF Onward, r, k, s
<1>7. CASE GiveUp(i, x)
  BY <1>1, <1>2, <1>7, GiveUpKept DEF Unbound, s
<1>8. CASE k < Len(Children[r]) /\ t' = [t EXCEPT ![i] = [x EXCEPT !.cursor[3] = @ + 1]]
  <2> DEFINE z == [x EXCEPT !.cursor[3] = @ + 1]
  <2>1. /\ DOMAIN z = Fields /\ z.part = s.part /\ z.pass = s.pass /\ z.todo = s.todo
        /\ z.tile2cell = s.tile2cell /\ z.status = "planning" /\ z.swap = s.swap
        /\ z.moved_cells = x.moved_cells
    BY <1>2 DEF Fields
  <2>2. z.displaced_clusters = x.displaced_clusters /\ z.used_bels = x.used_bels
        /\ z.cursor = [x.cursor EXCEPT ![3] = @ + 1]
    BY <1>2 DEF Fields
  <2> HIDE DEF z
  <2>3. z.cursor = <<r, s.cursor[2], k + 1>>
    <3>1. x.cursor = <<r, s.cursor[2], k>>
      BY <1>2, <1>5
    <3> QED BY <2>2, <3>1
  <2>4. PlanningOK(z)
    <3>1. z.cursor[1] = r /\ z.cursor[2] = s.cursor[2] /\ z.cursor[3] = k + 1
      BY <2>3
    <3>2. k + 1 \in 0..Len(Children[r])
      BY <1>5, <1>8
    <3>3. z.pass = "cells"
      BY <1>1, <2>1
    <3> QED BY <1>2, <1>3, <1>4, <1>5, <2>1, <2>2, <2>3, <3>1, <3>2, <3>3 DEF PlanningOK
  <2> QED BY <1>1, <1>2, <1>3, <1>8, <2>1, <2>4, PlanningKept DEF z, s
<1>9. ASSUME k = Len(Children[r]) PROVE Whole(x.moved_cells) /\ \A q : Remaining(x.moved_cells, q, 0)
  <2>1. \A c \in DOMAIN x.moved_cells, d \in Cells :
           RootOf[c] # None /\ RootOf[d] = RootOf[c] => d \in DOMAIN x.moved_cells
    BY <1>3, <1>5, <1>9 DEF Remaining
  <2> QED BY <2>1 DEF Whole, Remaining
<1>10. CASE /\ k = Len(Children[r]) /\ x.displaced_clusters # <<>>
            /\ t' = [t EXCEPT ![i] = [x EXCEPT
                        !.cursor = <<Head(x.displaced_clusters)[1],
                                     Head(x.displaced_clusters)[2], 0>>,
                        !.displaced_clusters = Tail(@)]]
  <2> DEFINE q == Head(x.displaced_clusters)[1]
             b == Head(x.displaced_clusters)[2]
             z == [x EXCEPT !.cursor = <<q, b, 0>>, !.displaced_clusters = Tail(@)]
  <2>1. /\ DOMAIN z = Fields /\ z.part = s.part /\ z.pass = s.pass /\ z.todo = s.todo
        /\ z.tile2cell = s.tile2cell /\ z.status = "planning" /\ z.swap = s.swap
        /\ z.moved_cells = x.moved_cells
    BY <1>2 DEF Fields
  <2>2. z.displaced_clusters = Tail(x.displaced_clusters) /\ z.used_bels = x.used_bels
        /\ z.cursor = <<q, b, 0>>
    BY <1>2 DEF Fields
  <2>3. t' = [t EXCEPT ![i] = z]
    BY <1>10
  <2>4. /\ Head(x.displaced_clusters) \in Cells \X Bels
        /\ Head(x.displaced_clusters) = x.displaced_clusters[1]
        /\ 1 \in 1..Len(x.displaced_clusters)
        /\ Tail(x.displaced_clusters) \in Seq(Cells \X Bels)
        /\ \A j \in 1..Len(Tail(x.displaced_clusters)) :
              /\ j + 1 \in 1..Len(x.displaced_clusters)
              /\ Tail(x.displaced_clusters)[j] = x.displaced_clusters[j + 1]
    BY <1>4, <1>10
  <2>5. b \in Bels /\ Mine(z.part, q)
    BY <1>2, <1>4, <2>1, <2>4
  <2> HIDE DEF z, q, b
  <2>6. PlanningOK(z)
    <3>1. z.cursor[1] = q /\ z.cursor[2] = b /\ z.cursor[3] = 0
      BY <2>2
    <3>2. 0 \in 0..Len(Children[q])
      <4>1. Len(Children[q]) \in Nat
        BY <2>5, ClusterAssumption DEF Mine
      <4> QED BY <4>1
    <3>3. Remaining(z.moved_cells, q, 0)
      BY <1>9, <1>10, <2>1
    <3>4. z.pass = "cells"
      BY <1>1, <2>1
    <3>5. \A j \in 1..Len(z.displaced_clusters) : Mine(z.part, z.displaced_clusters[j][1])
      BY <1>2, <1>4, <2>1, <2>2, <2>4
    <3> QED BY <1>4, <2>1, <2>2, <2>4, <2>5, <3>1, <3>2, <3>3, <3>4, <3>5 DEF PlanningOK
  <2> QED BY <1>1, <1>2, <1>3, <2>1, <2>3, <2>6, PlanningKept DEF s
<1>11. CASE k = Len(Children[r]) /\ x.displaced_clusters = <<>> /\ Plan(i, x)
  BY <1>1, <1>2, <1>3, <1>9, <1>11, PlanKept DEF s
<1> QED BY <1>6, <1>7, <1>8, <1>10, <1>11

\* A member of a cluster, and the cell in its way, on their way.
LEMMA DisplaceKept ==
    ASSUME IInv, NEW i \in DOMAIN t, Displace(i)
    PROVE  Kept(i)
<1> DEFINE s == t[i]
           r == s.cursor[1]
           k == s.cursor[3]
           c == Member(r, k)
           new == PlaceOf(r, s.cursor[2], k)
           old == bel[c]
           bound == bel_to_cell[new]
           toNew == [d \in {c} |-> new]
           toOld == [d \in {bound} |-> old]
           added == add_to_move(s, toNew)
           entered == [added EXCEPT !.used_bels = @ \cup {new}]
           both == add_to_move(entered, toOld)
           root == Shift(old, [j \in 1..3 |-> bel[RootOf[bound]][j] - bel[bound][j]])
           Enters == c \notin DOMAIN s.moved_cells /\ MayMove(s, c, new) /\ new \notin s.used_bels
           Yields == /\ bound # None /\ bound \notin DOMAIN s.moved_cells \cup {c}
                     /\ bound \notin Locked
<1>1. /\ s.status = "planning" /\ UNCHANGED <<tables, globals>>
      /\ \/ Enters /\ Onward(i, entered)
         \/ /\ Enters /\ Yields /\ RootOf[bound] = None
            /\ old \notin s.used_bels \cup {new} /\ MayMove(s, bound, old)
            /\ Onward(i, [both EXCEPT !.used_bels = @ \cup {old}])
         \/ /\ Enters /\ Yields /\ RootOf[bound] # None /\ root \in Bels
            /\ Onward(i, [entered EXCEPT
                              !.displaced_clusters = Append(@, <<RootOf[bound], root>>)])
         \/ GiveUp(i, s)
  BY DEF Displace
<1>2. /\ ThreadOK(bel, s) /\ Tables /\ DOMAIN s = Fields /\ PlanningOK(s)
      /\ s.pass = "cells" /\ s.part.cells \subseteq Cells /\ s.status \in Unbound
  BY <1>1, ThisThread DEF ThreadOK, PlanningOK, Unbound
<1>3. /\ Mine(s.part, r) /\ s.cursor[2] \in Bels /\ k \in 0..Len(Children[r])
      /\ k > 0 => r \in DOMAIN s.moved_cells /\ s.moved_cells[r].new = s.cursor[2]
      /\ Remaining(s.moved_cells, r, k)
      /\ s.displaced_clusters \in Seq(Cells \X Bels)
      /\ \A j \in 1..Len(s.displaced_clusters) : Mine(s.part, s.displaced_clusters[j][1])
      /\ \A d \in DOMAIN s.moved_cells : s.moved_cells[d].new \in s.used_bels
  BY <1>2 DEF PlanningOK
<1>4. /\ r \in DOMAIN Children /\ c \in Cells /\ RootOf[c] = r
  BY <1>3, MemberIs DEF Mine
<1>5. AtHome(s.part) /\ MoveOK(s.part, s.moved_cells) /\ Shaped(s.moved_cells)
      /\ \A d \in DOMAIN s.moved_cells : bel[d] = s.moved_cells[d].old
  BY <1>1, <1>2, BetweenMovesAtHome DEF ThreadOK, WhereOK, Unbound
<1> HIDE DEF s, r, k, c, new, old, bound, toNew, toOld, added, entered, both, root, Enters, Yields
<1>6. CASE GiveUp(i, s)
  BY <1>1, <1>2, <1>6, GiveUpKept DEF s
<1>7. ASSUME Enters
      PROVE  /\ MidOK(s, entered) /\ c \in s.part.cells /\ new \in CanHold[c]
             /\ InPart(s.part, new) /\ entered.used_bels = s.used_bels \cup {new}
             /\ entered.moved_cells = Grown(s.moved_cells, toNew)
             /\ entered.displaced_clusters = s.displaced_clusters
  <2>1. /\ c \notin DOMAIN s.moved_cells /\ new \notin s.used_bels
        /\ InPart(s.part, bel[c]) /\ InPart(s.part, new) /\ new \in CanHold[c]
    BY <1>7 DEF Enters, MayMove
  <2>2. c \in s.part.cells /\ c \notin Locked
    <3>1. s.status \in Unbound /\ Mine(s.part, r) /\ InPart(s.part, bel[c])
      BY <1>2, <1>3, <2>1
    <3> QED BY <1>4, <3>1, MemberInPart DEF s
  <2> DEFINE g == Grown(s.moved_cells, toNew)
  <2>3. DOMAIN toNew = {c} /\ toNew[c] = new
    BY DEF toNew
  <2>4. /\ MoveOK(s.part, g) /\ \A d \in DOMAIN g : bel[d] = g[d].old
    <3>1. DOMAIN toNew \subseteq s.part.cells \ Locked
      BY <2>2, <2>3
    <3>2. \A d \in DOMAIN toNew : toNew[d] \in CanHold[d] /\ InPart(s.part, toNew[d])
      BY <2>1, <2>3
    <3>3. \A d, e \in DOMAIN toNew : d # e => toNew[d] # toNew[e]
      BY <2>3
    <3>4. \A d \in DOMAIN toNew, e \in DOMAIN s.moved_cells : toNew[d] # s.moved_cells[e].new
      BY <1>3, <2>1, <2>3
    <3> QED BY <1>2, <1>5, <3>1, <3>2, <3>3, <3>4, GrownOK
  <2>5. /\ r \in DOMAIN g /\ g[r].new = s.cursor[2] /\ Shaped(g) /\ Remaining(g, r, k + 1)
    <3>1. c = Member(r, k) /\ DOMAIN toNew = {c} /\ toNew[c] = PlaceOf(r, s.cursor[2], k)
      BY <2>3 DEF c, new
    <3>2. g = Grown(s.moved_cells, toNew)
      OBVIOUS
    <3>3. k > 0 => r \in DOMAIN s.moved_cells /\ s.moved_cells[r].new = s.cursor[2]
      BY <1>3
    <3>4. /\ s.cursor[2] \in Bels /\ k \in 0..Len(Children[r]) /\ r \in DOMAIN Children
          /\ Remaining(s.moved_cells, r, k) /\ Shaped(s.moved_cells)
          /\ c \notin DOMAIN s.moved_cells
      BY <1>3, <1>4, <1>5, <2>1
    <3> HIDE DEF g
    <3> QED BY <3>1, <3>2, <3>3, <3>4, AddMember
  <2>6. /\ Like(s, added) /\ added.moved_cells = g
        /\ added.status = s.status /\ added.displaced_clusters = s.displaced_clusters
        /\ added.used_bels = s.used_bels /\ added.cursor = s.cursor /\ added.swap = s.swap
    BY <1>2, AddToMoveIs DEF added
  <2>7. /\ DOMAIN entered = Fields /\ entered.part = s.part /\ entered.pass = s.pass
        /\ entered.todo = s.todo /\ entered.tile2cell = s.tile2cell
        /\ entered.moved_cells = g /\ entered.status = s.status
    BY <2>6 DEF entered, Like, Fields
  <2>8. /\ entered.displaced_clusters = s.displaced_clusters
        /\ entered.used_bels = s.used_bels \cup {new}
        /\ entered.cursor = s.cursor /\ entered.swap = s.swap
    BY <2>6 DEF entered, Like, Fields
  <2>9. \A d \in DOMAIN g : g[d].new \in s.used_bels \cup {new}
    <3>1. \A d \in DOMAIN g : IF d = c THEN g[d].new = new
                              ELSE d \in DOMAIN s.moved_cells /\ g[d] = s.moved_cells[d]
      BY <2>3 DEF Grown
    <3> QED BY <1>3, <3>1
  <2> HIDE DEF g
  <2>10. MidOK(s, entered)
    <3>1. Like(s, entered)
      BY <2>7 DEF Like
    <3> QED BY <1>1, <1>3, <2>4, <2>5, <2>7, <2>8, <2>9, <3>1 DEF MidOK, r, k
  <2> QED BY <2>1, <2>2, <2>7, <2>8, <2>10 DEF g
<1>8. CASE Enters /\ Onward(i, entered)
  <2>1. MidOK(t[i], entered) /\ t[i].status = "planning"
    BY <1>1, <1>7, <1>8 DEF s
  <2> QED BY <1>1, <1>8, <2>1, OnwardKept
<1>9. ASSUME Enters, Yields
      PROVE  bound \in s.part.cells \ Locked /\ bel[bound] = new /\ bound # c
             /\ bound \notin DOMAIN entered.moved_cells
  <2>1. new \in CanHold[c] /\ InPart(s.part, new) /\ c \in s.part.cells
    BY <1>7, <1>9
  <2>2. new \in Bels /\ new # None
    BY <1>4, <2>1, DeviceAssumption
  <2>3. bound \in Cells /\ bel[bound] = new
    BY <1>2, <1>9, <2>2 DEF Tables, Yields, bound
  <2>4. bound \in s.part.cells
    BY <2>1, <2>2, <2>3, BoundInPart DEF s
  <2>5. bound \notin DOMAIN Grown(s.moved_cells, toNew)
    BY <1>9 DEF Yields, Grown, toNew
  <2> QED BY <1>7, <1>9, <2>3, <2>4, <2>5 DEF Yields
<1>10. CASE /\ Enters /\ Yields /\ RootOf[bound] = None
            /\ old \notin s.used_bels \cup {new} /\ MayMove(s, bound, old)
            /\ Onward(i, [both EXCEPT !.used_bels = @ \cup {old}])
  <2> DEFINE x == [both EXCEPT !.used_bels = @ \cup {old}]
             mv == entered.moved_cells
             g == Grown(mv, toOld)
  <2>1. MidOK(s, entered) /\ entered.used_bels = s.used_bels \cup {new}
    BY <1>7, <1>10
  <2>2. /\ Like(s, entered) /\ entered.status = "planning" /\ entered.cursor = s.cursor
        /\ entered.swap = s.swap
        /\ MoveOK(entered.part, mv)
        /\ \A d \in DOMAIN mv : bel[d] = mv[d].old
        /\ r \in DOMAIN mv /\ mv[r].new = s.cursor[2]
        /\ Shaped(mv) /\ Remaining(mv, r, k + 1)
        /\ entered.displaced_clusters \in Seq(Cells \X Bels)
        /\ \A j \in 1..Len(entered.displaced_clusters) :
              Mine(entered.part, entered.displaced_clusters[j][1])
        /\ \A d \in DOMAIN mv : mv[d].new \in entered.used_bels
    BY <2>1 DEF MidOK, r, k
  <2>3. DOMAIN toOld = {bound} /\ toOld[bound] = old
    BY DEF toOld
  <2>4. bound \in s.part.cells \ Locked /\ bound \notin DOMAIN mv
    BY <1>9, <1>10
  <2>5. old \in CanHold[bound] /\ InPart(s.part, old)
    BY <1>10 DEF MayMove
  <2>6. entered.part = s.part /\ DOMAIN entered = Fields
    BY <2>2 DEF Like
  <2>7. MoveOK(s.part, g) /\ \A d \in DOMAIN g : bel[d] = g[d].old
    <3>1. DOMAIN toOld \subseteq s.part.cells \ Locked
      BY <2>3, <2>4
    <3>2. \A d \in DOMAIN toOld : toOld[d] \in CanHold[d] /\ InPart(s.part, toOld[d])
      BY <2>3, <2>5
    <3>3. \A d, e \in DOMAIN toOld : d # e => toOld[d] # toOld[e]
      BY <2>3
    <3>4. \A d \in DOMAIN toOld, e \in DOMAIN mv : toOld[d] # mv[e].new
      BY <1>10, <2>1, <2>2, <2>3
    <3> HIDE DEF mv
    <3> QED BY <1>2, <1>5, <2>2, <2>6, <3>1, <3>2, <3>3, <3>4, GrownOK
  <2>8. /\ r \in DOMAIN g /\ g[r].new = s.cursor[2] /\ Shaped(g) /\ Remaining(g, r, k + 1)
    <3>1. g = Grown(mv, toOld)
      OBVIOUS
    <3>2. /\ Shaped(mv) /\ Remaining(mv, r, k + 1) /\ r \in DOMAIN mv
          /\ mv[r].new = s.cursor[2] /\ RootOf[bound] = None
          /\ bound \notin DOMAIN mv /\ DOMAIN toOld = {bound}
      BY <1>10, <2>2, <2>3, <2>4
    <3> HIDE DEF mv, g
    <3> QED BY <3>1, <3>2, AddSingle
  <2>9. \A d \in DOMAIN g : g[d].new \in entered.used_bels \cup {old}
    <3>1. \A d \in DOMAIN g : IF d = bound THEN g[d].new = old
                              ELSE d \in DOMAIN mv /\ g[d] = mv[d]
      BY <2>3 DEF Grown
    <3> QED BY <2>2, <3>1
  <2>10. /\ Like(entered, both) /\ both.moved_cells = g
         /\ both.status = entered.status
         /\ both.displaced_clusters = entered.displaced_clusters
         /\ both.used_bels = entered.used_bels /\ both.cursor = entered.cursor
         /\ both.swap = entered.swap
    BY <2>6, AddToMoveIs DEF both
  <2> HIDE DEF g, mv
  <2>11. /\ DOMAIN x = Fields /\ x.part = both.part /\ x.pass = both.pass
         /\ x.todo = both.todo /\ x.tile2cell = both.tile2cell
         /\ x.moved_cells = g /\ x.status = both.status
    BY <2>10 DEF Like, Fields
  <2>12. /\ x.displaced_clusters = both.displaced_clusters
         /\ x.used_bels = both.used_bels \cup {old}
         /\ x.cursor = both.cursor /\ x.swap = both.swap
    BY <2>10 DEF Like, Fields
  <2> HIDE DEF x
  <2>13. Like(s, x)
    BY <2>2, <2>10, <2>11 DEF Like
  <2>14. MidOK(s, x)
    BY <2>2, <2>6, <2>7, <2>8, <2>9, <2>10, <2>11, <2>12, <2>13 DEF MidOK, r, k, Like
  <2>15. Onward(i, x)
    BY <1>10 DEF x
  <2>16. MidOK(t[i], x) /\ t[i].status = "planning"
    BY <1>1, <2>14 DEF s
  <2> QED BY <1>1, <2>15, <2>16, OnwardKept
<1>11. CASE /\ Enters /\ Yields /\ RootOf[bound] # None /\ root \in Bels
            /\ Onward(i, [entered EXCEPT
                              !.displaced_clusters = Append(@, <<RootOf[bound], root>>)])
  <2> DEFINE dc == Append(s.displaced_clusters, <<RootOf[bound], root>>)
             x == [entered EXCEPT !.displaced_clusters =
                                     Append(@, <<RootOf[bound], root>>)]
  <2>1. MidOK(s, entered) /\ entered.displaced_clusters = s.displaced_clusters
    BY <1>7, <1>11
  <2>2. /\ Like(s, entered) /\ entered.status = "planning" /\ entered.cursor = s.cursor
        /\ entered.swap = s.swap /\ DOMAIN entered = Fields /\ entered.part = s.part
    BY <2>1 DEF MidOK, Like
  <2>3. bound \in s.part.cells \ Locked /\ bound \in Cells
    BY <1>2, <1>9, <1>11
  <2>4. /\ RootOf[bound] \in DOMAIN Children /\ RootOf[bound] \in Cells
        /\ RootOf[RootOf[bound]] = RootOf[bound]
    BY <1>11, <2>3, ClusterOf
  <2>5. Mine(s.part, RootOf[bound])
    BY <1>11, <2>3, <2>4, ClustersLockedAsAWhole DEF Mine
  <2>6. /\ dc \in Seq(Cells \X Bels)
        /\ \A j \in 1..Len(dc) : Mine(s.part, dc[j][1])
    <3>1. <<RootOf[bound], root>> \in Cells \X Bels
      BY <1>11, <2>4
    <3>2. /\ dc \in Seq(Cells \X Bels) /\ Len(dc) = Len(s.displaced_clusters) + 1
          /\ \A j \in 1..Len(dc) :
                dc[j] = IF j = Len(dc) THEN <<RootOf[bound], root>>
                        ELSE s.displaced_clusters[j]
          /\ Len(s.displaced_clusters) \in Nat
      BY <1>3, <3>1
    <3> HIDE DEF dc
    <3>3. ASSUME NEW j \in 1..Len(dc) PROVE Mine(s.part, dc[j][1])
      <4>1. CASE j = Len(dc)
        BY <2>5, <3>2, <4>1
      <4>2. CASE j # Len(dc)
        BY <1>3, <3>2, <4>2
      <4> QED BY <4>1, <4>2
    <3> QED BY <3>2, <3>3
  <2>7. /\ DOMAIN x = Fields /\ x.part = s.part /\ x.pass = entered.pass
        /\ x.todo = entered.todo /\ x.tile2cell = entered.tile2cell
        /\ x.moved_cells = entered.moved_cells /\ x.status = "planning"
    BY <2>2 DEF Fields
  <2>8. /\ x.displaced_clusters = dc /\ x.used_bels = entered.used_bels
        /\ x.cursor = s.cursor /\ x.swap = s.swap
    BY <2>1, <2>2 DEF Fields
  <2> HIDE DEF x, dc
  <2>9. Like(s, x)
    BY <2>2, <2>7 DEF Like
  <2>10. MidOK(s, x)
    BY <2>1, <2>2, <2>6, <2>7, <2>8, <2>9 DEF MidOK
  <2>11. Onward(i, x)
    BY <1>11 DEF x
  <2>12. MidOK(t[i], x) /\ t[i].status = "planning"
    BY <1>1, <2>10 DEF s
  <2> QED BY <1>1, <2>11, <2>12, OnwardKept
<1> QED BY <1>1, <1>6, <1>8, <1>10, <1>11

-----------------------------------------------------------------------------
(* The passes over the tiles *)

\* The next pass over the cells, or the end.
LEMMA NextPassIs ==
    ASSUME NEW s, DOMAIN s = Fields, Idle(s), NEW z, z = NextPass(s)
    PROVE  /\ DOMAIN z = Fields /\ z.part = s.part /\ Idle(z)
           /\ z.pass \in {"cells", "over"}
           /\ z.pass = "cells" => z.todo = Movers(s.part.cells)
<1>1. CASE z = [s EXCEPT !.pass = "cells", !.m = @ + 1, !.todo = Movers(s.part.cells)]
  <2>1. /\ DOMAIN z = Fields /\ z.part = s.part /\ z.pass = "cells"
        /\ z.todo = Movers(s.part.cells) /\ z.moved_cells = s.moved_cells
    BY <1>1 DEF Fields
  <2>2. /\ z.status = s.status /\ z.swap = s.swap /\ z.used_bels = s.used_bels
        /\ z.displaced_clusters = s.displaced_clusters /\ z.cursor = s.cursor
    BY <1>1 DEF Fields
  <2> QED BY <2>1, <2>2 DEF Idle
<1>2. CASE z = [s EXCEPT !.pass = "over"]
  <2>1. /\ DOMAIN z = Fields /\ z.part = s.part /\ z.pass = "over"
        /\ z.moved_cells = s.moved_cells
    BY <1>2 DEF Fields
  <2>2. /\ z.status = s.status /\ z.swap = s.swap /\ z.used_bels = s.used_bels
        /\ z.displaced_clusters = s.displaced_clusters /\ z.cursor = s.cursor
    BY <1>2 DEF Fields
  <2> QED BY <2>1, <2>2 DEF Idle
<1> QED BY <1>1, <1>2 DEF NextPass

\* An idle thread that goes on to another pass.
LEMMA PassKept ==
    ASSUME IInv, NEW i \in DOMAIN t, t[i].status = "idle", UNCHANGED <<tables, globals>>,
           NEW z, t' = [t EXCEPT ![i] = z], DOMAIN z = Fields, z.part = t[i].part, Idle(z),
           z.pass \in {"cells", "tiles", "over"},
           z.pass = "cells" => z.todo \subseteq Movers(z.part.cells),
           z.pass = "tiles" => TilesOK(bel, z)
    PROVE  Kept(i)
<1>1. ThreadOK(bel, t[i])
  BY ThisThread
<1>2. AtHome(z.part) /\ z.part.cells \subseteq Cells
  BY <1>1, BetweenMovesAtHome DEF ThreadOK
<1>3. ThreadOK(bel, z)
  BY <1>2, IdleOK DEF AtHome
<1> QED BY <1>3, KeptByPlanning DEF Unbound, Idle

\* After the cells, the tiles: tile2cell is drawn up from where the cells are.
LEMMA CellsDoneKept ==
    ASSUME IInv, NEW i \in DOMAIN t, CellsDone(i)
    PROVE  Kept(i)
<1> DEFINE s == t[i]
           At(tile) == {c \in s.part.cells : TileOf(bel[c]) = tile}
           tiles == (s.part.lo[1]..s.part.hi[1]) \X (s.part.lo[2]..s.part.hi[2])
           t2c == [x \in tiles |-> At(x)]
           todo == {x \in tiles : At(x) # {}}
           z == [s EXCEPT !.pass = "tiles", !.tile2cell = t2c, !.todo = todo]
<1>1. /\ s.status = "idle" /\ UNCHANGED <<tables, globals>>
      /\ t' = [t EXCEPT ![i] = NextPass(s)] \/ t' = [t EXCEPT ![i] = z]
  BY DEF CellsDone
<1>2. ThreadOK(bel, s) /\ DOMAIN s = Fields
  BY ThisThread DEF ThreadOK
<1>3. Idle(s)
  BY <1>1, <1>2, IdleIs
<1>4. CASE t' = [t EXCEPT ![i] = NextPass(s)]
  <2> DEFINE y == NextPass(s)
  <2>1. /\ DOMAIN y = Fields /\ y.part = s.part /\ Idle(y)
        /\ y.pass \in {"cells", "over"}
        /\ y.pass = "cells" => y.todo = Movers(s.part.cells)
    BY <1>2, <1>3, NextPassIs
  <2>2. t' = [t EXCEPT ![i] = y]
    BY <1>4
  <2> HIDE DEF y
  <2> QED BY <1>1, <2>1, <2>2, PassKept
<1>5. CASE t' = [t EXCEPT ![i] = z]
  <2>1. /\ DOMAIN t2c = tiles /\ \A x \in tiles : t2c[x] = At(x)
        /\ todo \subseteq tiles
    OBVIOUS
  <2>2. \A x \in tiles : x = <<x[1], x[2]>>
    OBVIOUS
  <2> HIDE DEF t2c, todo, tiles
  <2>3. /\ DOMAIN z = Fields /\ z.part = s.part /\ z.pass = "tiles"
        /\ z.tile2cell = t2c /\ z.todo = todo /\ z.moved_cells = s.moved_cells
    BY <1>2 DEF Fields
  <2>4. /\ z.status = s.status /\ z.swap = s.swap /\ z.used_bels = s.used_bels
        /\ z.displaced_clusters = s.displaced_clusters /\ z.cursor = s.cursor
    BY <1>2 DEF Fields
  <2> HIDE DEF z
  <2>5. Idle(z)
    BY <1>3, <2>3, <2>4 DEF Idle
  <2>6. \A c : HomeOf(bel, z, c) = bel[c]
    BY <2>5, NoMoveOK DEF HomeOf, Idle
  <2>7. \A x \in tiles : t2c[x] = {c \in z.part.cells : TileOf(HomeOf(bel, z, c)) = x}
    BY <2>1, <2>3, <2>6
  <2>8. TilesOK(bel, z)
    BY <2>1, <2>2, <2>3, <2>5, <2>7 DEF TilesOK, Idle
  <2> QED BY <1>1, <1>5, <2>3, <2>5, <2>8, PassKept
<1> QED BY <1>1, <1>4, <1>5

\* After the tiles, the next pass.
LEMMA TilesDoneKept ==
    ASSUME IInv, NEW i \in DOMAIN t, TilesDone(i)
    PROVE  Kept(i)
<1> DEFINE s == [t[i] EXCEPT !.tile2cell = <<>>]
           z == NextPass(s)
<1>1. /\ t[i].status = "idle" /\ UNCHANGED <<tables, globals>> /\ t' = [t EXCEPT ![i] = z]
  BY DEF TilesDone
<1>2. ThreadOK(bel, t[i]) /\ DOMAIN t[i] = Fields
  BY ThisThread DEF ThreadOK
<1>3. Idle(t[i])
  BY <1>1, <1>2, IdleIs
<1>4. /\ DOMAIN s = Fields /\ s.part = t[i].part /\ s.moved_cells = t[i].moved_cells
      /\ s.status = t[i].status /\ s.swap = t[i].swap
  BY <1>2 DEF Fields
<1>5. /\ s.used_bels = t[i].used_bels /\ s.cursor = t[i].cursor
      /\ s.displaced_clusters = t[i].displaced_clusters
  BY <1>2 DEF Fields
<1> HIDE DEF s
<1>6. Idle(s)
  BY <1>3, <1>4, <1>5 DEF Idle
<1>7. /\ DOMAIN z = Fields /\ z.part = s.part /\ Idle(z)
      /\ z.pass \in {"cells", "over"}
      /\ z.pass = "cells" => z.todo = Movers(s.part.cells)
  BY <1>4, <1>6, NextPassIs
<1> HIDE DEF z
<1> QED BY <1>1, <1>4, <1>7, PassKept

-----------------------------------------------------------------------------
(* Binding a move, and taking it back *)

\* A thread goes on with the move it has, the cells of the move being where
\* its new status says.
LEMMA MoveGoesOn ==
    ASSUME NEW at, NEW to, NEW s, ThreadOK(at, s), s.status \in {"planned", "bound"},
           \A c \in s.part.cells \ DOMAIN s.moved_cells : to[c] = at[c],
           NEW st \in {"bound", "fail"},
           st = "bound" => \A c \in DOMAIN s.moved_cells : to[c] = s.moved_cells[c].new,
           st = "fail" => \A c \in DOMAIN s.moved_cells :
                             to[c] \in {s.moved_cells[c].new, None},
           NEW z, z = [s EXCEPT !.status = st]
    PROVE  /\ ThreadOK(to, z) /\ z.part = s.part
           /\ \A c \in s.part.cells : HomeOf(to, z, c) = HomeOf(at, s, c)
<1>1. DOMAIN s = Fields
  BY DEF ThreadOK
<1>2. /\ DOMAIN z = Fields /\ z.part = s.part /\ z.moved_cells = s.moved_cells
      /\ z.status = st /\ z.pass = s.pass /\ z.todo = s.todo
  BY <1>1 DEF Fields
<1>3. /\ z.tile2cell = s.tile2cell /\ z.swap = s.swap /\ z.cursor = s.cursor
      /\ z.displaced_clusters = s.displaced_clusters /\ z.used_bels = s.used_bels
  BY <1>1 DEF Fields
<1>4. \A c \in s.part.cells : HomeOf(to, z, c) = HomeOf(at, s, c)
  BY <1>2 DEF HomeOf
<1>5. StatusOK(z)
  BY <1>2, <1>3 DEF ThreadOK, StatusOK, Statuses
<1>6. WhereOK(to, z)
  <2>1. WhereOK(at, s)
    BY DEF ThreadOK
  <2> QED BY <1>2, <2>1 DEF WhereOK
<1>7. z.pass = "tiles" => TilesOK(to, z)
  <2>1. s.pass = "tiles" => TilesOK(at, s)
    BY DEF ThreadOK
  <2>2. \A x \in DOMAIN s.tile2cell :
           {c \in s.part.cells : TileOf(HomeOf(at, s, c)) = x}
             = {c \in s.part.cells : TileOf(HomeOf(to, z, c)) = x}
    BY <1>4
  <2>3. s.status # "idle" /\ z.status # "idle"
    BY <1>2
  <2> QED BY <1>2, <1>3, <2>1, <2>2, <2>3 DEF TilesOK
<1>8. MoveOK(z.part, z.moved_cells) /\ Shaped(z.moved_cells) /\ Whole(z.moved_cells)
  BY <1>2 DEF ThreadOK
<1> QED BY <1>2, <1>4, <1>5, <1>6, <1>7, <1>8 DEF ThreadOK

\* bind_move(): the cells leave their bels, and all of them or some are bound
\* anew; nothing is committed by that.
LEMMA BindKept ==
    ASSUME IInv, NEW i \in DOMAIN t, bind_move(i)
    PROVE  Kept(i)
<1> DEFINE s == t[i]
           moved == s.moved_cells
           Free(b) == b \notin Unavailable /\ bel_to_cell[b] \in DOMAIN moved \cup {None}
           New(cs) == [c \in cs |-> moved[c].new]
<1>1. ThreadOK(bel, s) /\ Tables /\ s.status = "planned" /\ UNCHANGED globals
  BY ThisThread DEF bind_move
<1>2. \E cs \in SUBSET DOMAIN moved :
         /\ \A c \in cs : Free(moved[c].new)
         /\ Rebind(DOMAIN moved, New(cs))
         /\ \/ cs = DOMAIN moved /\ t' = [t EXCEPT ![i].status = "bound"]
            \/ t' = [t EXCEPT ![i].status = "fail"]
  <2>1. CASE /\ \A c \in DOMAIN moved : Free(moved[c].new)
             /\ Rebind(DOMAIN moved, New(DOMAIN moved))
             /\ t' = [t EXCEPT ![i].status = "bound"]
    BY <2>1
  <2>2. CASE \E cs \in SUBSET {c \in DOMAIN moved : Free(moved[c].new)} :
                /\ Rebind(DOMAIN moved, New(cs))
                /\ t' = [t EXCEPT ![i].status = "fail"]
    BY <2>2
  <2> QED BY <2>1, <2>2 DEF bind_move
<1>3. PICK cs \in SUBSET DOMAIN moved :
         /\ \A c \in cs : Free(moved[c].new)
         /\ Rebind(DOMAIN moved, New(cs))
         /\ \/ cs = DOMAIN moved /\ t' = [t EXCEPT ![i].status = "bound"]
            \/ t' = [t EXCEPT ![i].status = "fail"]
  BY <1>2
<1>4. PICK st \in {"bound", "fail"} : /\ t' = [t EXCEPT ![i] = [s EXCEPT !.status = st]]
                                      /\ st = "bound" => cs = DOMAIN moved
  <2>1. CASE cs = DOMAIN moved /\ t' = [t EXCEPT ![i].status = "bound"]
    BY <2>1
  <2>2. CASE t' = [t EXCEPT ![i].status = "fail"]
    BY <2>2
  <2> QED BY <1>3, <2>1, <2>2
<1> DEFINE to == New(cs)
<1>5. DOMAIN to = cs /\ \A c \in cs : to[c] = moved[c].new
  OBVIOUS
<1>6. Rebind(DOMAIN moved, to) /\ \A c \in cs : bel_to_cell[to[c]] \in DOMAIN moved \cup {None}
  BY <1>3, <1>5
<1> HIDE DEF to, moved
<1>7. /\ DOMAIN moved \subseteq s.part.cells /\ s.part.cells \subseteq Cells
      /\ \A c \in DOMAIN moved : moved[c].new \in CanHold[c]
      /\ \A c, d \in DOMAIN moved : c # d => moved[c].new # moved[d].new
  BY <1>1 DEF ThreadOK, MoveOK, moved
<1>8. /\ Tables'
      /\ \A c \in Cells : bel'[c] = IF c \in cs THEN moved[c].new
                                    ELSE IF c \in DOMAIN moved THEN None ELSE bel[c]
  <2>1. \A c \in DOMAIN to : to[c] \in Bels /\ bel_to_cell[to[c]] \in DOMAIN moved \cup {None}
    BY <1>5, <1>6, <1>7, DeviceAssumption
  <2>2. \A c, d \in DOMAIN to : c # d => to[c] # to[d]
    BY <1>5, <1>7
  <2>3. DOMAIN moved \in SUBSET Cells /\ DOMAIN to \subseteq DOMAIN moved
    BY <1>5, <1>7
  <2>4. /\ Tables'
        /\ \A c \in Cells : bel'[c] = IF c \in DOMAIN to THEN to[c]
                                      ELSE IF c \in DOMAIN moved THEN None ELSE bel[c]
    BY <1>1, <1>6, <2>1, <2>2, <2>3, RebindKeepsTables
  <2> QED BY <1>5, <2>4
<1> DEFINE z == [s EXCEPT !.status = st]
<1>9. /\ ThreadOK(bel', z) /\ z.part = s.part
      /\ \A c \in s.part.cells : HomeOf(bel', z, c) = HomeOf(bel, s, c)
  <2>1. \A c \in s.part.cells \ DOMAIN s.moved_cells : bel'[c] = bel[c]
    BY <1>7, <1>8 DEF moved
  <2>2. st = "bound" => \A c \in DOMAIN s.moved_cells : bel'[c] = s.moved_cells[c].new
    BY <1>4, <1>7, <1>8 DEF moved
  <2>3. \A c \in DOMAIN s.moved_cells : bel'[c] \in {s.moved_cells[c].new, None}
    BY <1>7, <1>8 DEF moved
  <2> HIDE DEF s
  <2> QED BY <1>1, <2>1, <2>2, <2>3, MoveGoesOn
<1>10. \A c \in Cells \ s.part.cells : bel'[c] = bel[c]
  BY <1>7, <1>8
<1>11. t' = [t EXCEPT ![i] = z]
  BY <1>4
<1> HIDE DEF z
<1> QED BY <1>1, <1>8, <1>9, <1>10, <1>11 DEF Kept

\* revert_move(): the bels the cells came from are still theirs to go back to.
LEMMA RevertKept ==
    ASSUME IInv, NEW i \in DOMAIN t, RevertMove(i)
    PROVE  Kept(i)
<1> DEFINE s == t[i]
           moved == s.moved_cells
           to == [c \in DOMAIN moved |-> moved[c].old]
           y == RevertLocal(s)
           z == reset_move_state(y)
<1>1. /\ ThreadOK(bel, s) /\ Tables /\ s.status = "fail" /\ UNCHANGED globals
      /\ Rebind(DOMAIN moved, to) /\ t' = [t EXCEPT ![i] = z]
  BY ThisThread DEF RevertMove
<1>2. DOMAIN to = DOMAIN moved /\ \A c \in DOMAIN moved : to[c] = moved[c].old
  OBVIOUS
<1>3. Like(s, z) /\ Idle(z)
  <2>1. DOMAIN s = Fields
    BY <1>1 DEF ThreadOK
  <2>2. Like(s, y)
    BY <2>1, RevertLocalIs
  <2>3. Like(y, z) /\ Idle(z)
    BY <2>2, ResetIs DEF Like
  <2> QED BY <2>2, <2>3, LikeTrans
<1> HIDE DEF to, moved, y, z
<1>4. /\ DOMAIN moved \subseteq s.part.cells /\ s.part.cells \subseteq Cells
      /\ \A c \in DOMAIN moved : moved[c].old \in CanHold[c] /\ InPart(s.part, moved[c].old)
      /\ \A c, d \in DOMAIN moved : c # d => moved[c].old # moved[d].old
      /\ \A c \in DOMAIN moved : \A d \in s.part.cells \ DOMAIN moved : bel[d] # moved[c].old
      /\ \A d \in s.part.cells \ DOMAIN moved : bel[d] \in CanHold[d] /\ InPart(s.part, bel[d])
  BY <1>1 DEF ThreadOK, MoveOK, WhereOK, moved
<1>5. ASSUME NEW c \in DOMAIN moved
      PROVE  moved[c].old \in Bels /\ bel_to_cell[moved[c].old] \in DOMAIN moved \cup {None}
  <2>1. moved[c].old \in Bels /\ moved[c].old # None
    BY <1>4, DeviceAssumption
  <2> DEFINE d == bel_to_cell[moved[c].old]
  <2>2. ASSUME d # None PROVE d \in DOMAIN moved
    <3>1. d \in Cells /\ bel[d] = moved[c].old
      BY <1>1, <2>1, <2>2 DEF Tables
    <3>2. d \in s.part.cells
      BY <1>4, <2>1, <3>1, BoundInPart
    <3> QED BY <1>4, <3>1, <3>2
  <2> QED BY <2>1, <2>2
<1>6. /\ Tables'
      /\ \A c \in Cells : bel'[c] = IF c \in DOMAIN moved THEN moved[c].old ELSE bel[c]
  <2>1. \A c \in DOMAIN to : to[c] \in Bels /\ bel_to_cell[to[c]] \in DOMAIN moved \cup {None}
    BY <1>2, <1>5
  <2>2. \A c, d \in DOMAIN to : c # d => to[c] # to[d]
    BY <1>2, <1>4
  <2>3. DOMAIN moved \in SUBSET Cells /\ DOMAIN to \subseteq DOMAIN moved
    BY <1>2, <1>4
  <2>4. /\ Tables'
        /\ \A c \in Cells : bel'[c] = IF c \in DOMAIN to THEN to[c]
                                      ELSE IF c \in DOMAIN moved THEN None ELSE bel[c]
    BY <1>1, <2>1, <2>2, <2>3, RebindKeepsTables
  <2> QED BY <1>2, <2>4
<1>7. \A c \in s.part.cells : bel'[c] \in CanHold[c] /\ InPart(s.part, bel'[c])
  BY <1>4, <1>6
<1>8. \A c \in s.part.cells : HomeOf(bel', z, c) = bel'[c] /\ HomeOf(bel, s, c) = bel'[c]
  BY <1>3, <1>4, <1>6, NoMoveOK DEF HomeOf, Idle, moved
<1>9. z.pass = "tiles" => TilesOK(bel', z)
  <2>1. s.pass = "tiles" => TilesOK(bel, s)
    BY <1>1 DEF ThreadOK
  <2>2. \A x \in DOMAIN s.tile2cell :
           {c \in s.part.cells : TileOf(HomeOf(bel, s, c)) = x}
             = {c \in s.part.cells : TileOf(HomeOf(bel', z, c)) = x}
    BY <1>8
  <2>3. z.pass = s.pass /\ z.todo = s.todo /\ z.tile2cell = s.tile2cell /\ z.part = s.part
        /\ z.status = "idle"
    BY <1>3 DEF Like, Idle
  <2> HIDE DEF s
  <2> QED BY <2>1, <2>2, <2>3 DEF TilesOK
<1>10. ThreadOK(bel', z)
  <2>1. DOMAIN z = Fields /\ z.part = s.part /\ z.pass = s.pass /\ z.todo = s.todo
    BY <1>3 DEF Like
  <2>2. /\ s.pass \in {"cells", "tiles", "over"}
        /\ s.pass = "cells" => s.todo \subseteq Movers(s.part.cells)
    BY <1>1 DEF ThreadOK, StatusOK
  <2> HIDE DEF s
  <2> QED BY <1>3, <1>4, <1>7, <1>9, <2>1, <2>2, IdleOK
<1>11. \A c \in Cells \ s.part.cells : bel'[c] = bel[c]
  BY <1>4, <1>6
<1>12. z.part = s.part
  BY <1>3 DEF Like
<1> QED BY <1>1, <1>6, <1>8, <1>10, <1>11, <1>12 DEF Kept

-----------------------------------------------------------------------------
(* The committed placement *)

\* A thread has cells on the way only when it is busy, and only its own.
LEMMA BusyOwner ==
    ASSUME NEW at, NEW s, ThreadOK(at, s), NEW c \in DOMAIN s.moved_cells
    PROVE  s.status # "idle" /\ c \in s.part.cells
<1>1. s.status = "idle" => DOMAIN s.moved_cells = {}
  BY NoMoveOK DEF ThreadOK, StatusOK
<1> QED BY <1>1 DEF ThreadOK, MoveOK

\* Committed finds a cell where its own thread says it was.
LEMMA CommittedIs ==
    ASSUME IInv, NEW i \in DOMAIN t, NEW c \in t[i].part.cells
    PROVE  Committed[c] = HomeOf(bel, t[i], c)
<1>1. \A j \in DOMAIN t : ThreadOK(bel, t[j])
  BY ThisThread
<1>2. c \in Cells
  BY <1>1 DEF ThreadOK
<1>3. \A j \in DOMAIN t : c \in t[j].part.cells => j = i
  BY OneOwner
<1> DEFINE q == CHOOSE j \in Busy : c \in DOMAIN t[j].moved_cells
<1>4. Committed[c] = IF \E j \in Busy : c \in DOMAIN t[j].moved_cells
                     THEN t[q].moved_cells[c].old ELSE bel[c]
  BY <1>2 DEF Committed
<1>5. (\E j \in Busy : c \in DOMAIN t[j].moved_cells)
         => q \in Busy /\ c \in DOMAIN t[q].moved_cells
  OBVIOUS
<1> HIDE DEF q
<1>6. CASE c \in DOMAIN t[i].moved_cells
  <2>1. i \in Busy
    BY <1>1, <1>6, BusyOwner DEF Busy
  <2>2. q \in DOMAIN t /\ c \in DOMAIN t[q].moved_cells
    BY <1>5, <1>6, <2>1 DEF Busy
  <2>3. q = i
    BY <1>1, <1>3, <2>2, BusyOwner
  <2> QED BY <1>4, <1>6, <2>1, <2>3 DEF HomeOf
<1>7. CASE c \notin DOMAIN t[i].moved_cells
  <2>1. \A j \in Busy : c \notin DOMAIN t[j].moved_cells
    BY <1>1, <1>3, <1>7, BusyOwner DEF Busy
  <2> QED BY <1>4, <1>7, <2>1 DEF HomeOf
<1> QED BY <1>6, <1>7

\* A step of thread i that has kept the invariant leaves everything committed
\* by other threads where it was.
LEMMA CommittedThen ==
    ASSUME IInv, NEW i \in DOMAIN t, NEW z, t' = [t EXCEPT ![i] = z],
           z.part = t[i].part, ThreadOK(bel', z),
           \A c \in Cells \ t[i].part.cells : bel'[c] = bel[c]
    PROVE  /\ \A c \in Cells \ t[i].part.cells : Committed'[c] = Committed[c]
           /\ \A c \in t[i].part.cells : Committed'[c] = HomeOf(bel', z, c)
<1>1. DOMAIN t' = DOMAIN t /\ \A j \in DOMAIN t : t'[j] = IF j = i THEN z ELSE t[j]
  OBVIOUS
<1>2. ASSUME NEW j \in DOMAIN t PROVE ThreadOK(bel', t'[j]) /\ t'[j].part = t[j].part
  <2>1. CASE j = i
    BY <1>1, <2>1
  <2>2. CASE j # i
    <3>1. ThreadOK(bel, t[j]) /\ t[j].part.cells \subseteq Cells
      BY ThisThread DEF ThreadOK
    <3>2. \A c \in t[j].part.cells : bel'[c] = bel[c]
      BY <2>2, <3>1, OneOwner
    <3>3. ThreadOK(bel', t[j])
      BY <3>1, <3>2, ThreadFrame
    <3> QED BY <1>1, <2>2, <3>3
  <2> QED BY <2>1, <2>2
<1>3. ASSUME NEW j \in DOMAIN t, NEW c \in t[j].part.cells
      PROVE  Committed'[c] = HomeOf(bel', t'[j], c)
  <2>1. c \in Cells
    BY ThisThread DEF ThreadOK
  <2>2. \A k \in DOMAIN t' : ThreadOK(bel', t'[k])
    BY <1>1, <1>2
  <2>3. \A k \in DOMAIN t' : c \in t'[k].part.cells => k = j
    BY <1>1, <1>2, OneOwner
  <2> DEFINE q == CHOOSE k \in Busy' : c \in DOMAIN t'[k].moved_cells
  <2>4. Committed'[c] = IF \E k \in Busy' : c \in DOMAIN t'[k].moved_cells
                        THEN t'[q].moved_cells[c].old ELSE bel'[c]
    BY <2>1 DEF Committed
  <2>5. (\E k \in Busy' : c \in DOMAIN t'[k].moved_cells)
           => q \in Busy' /\ c \in DOMAIN t'[q].moved_cells
    OBVIOUS
  <2> HIDE DEF q
  <2>6. j \in DOMAIN t' /\ c \in t'[j].part.cells
    BY <1>1, <1>2
  <2>7. CASE c \in DOMAIN t'[j].moved_cells
    <3>1. j \in Busy'
      BY <2>2, <2>6, <2>7, BusyOwner DEF Busy
    <3>2. q \in DOMAIN t' /\ c \in DOMAIN t'[q].moved_cells
      BY <2>5, <2>7, <3>1 DEF Busy
    <3>3. q = j
      BY <2>2, <2>3, <3>2, BusyOwner
    <3> QED BY <2>4, <2>7, <3>1, <3>3 DEF HomeOf
  <2>8. CASE c \notin DOMAIN t'[j].moved_cells
    <3>1. \A k \in Busy' : c \notin DOMAIN t'[k].moved_cells
      BY <2>2, <2>3, <2>8, BusyOwner DEF Busy
    <3> QED BY <2>4, <2>8, <3>1 DEF HomeOf
  <2> QED BY <2>7, <2>8
<1>4. \A c \in t[i].part.cells : Committed'[c] = HomeOf(bel', z, c)
  BY <1>1, <1>3
<1>5. ASSUME NEW c \in Cells \ t[i].part.cells PROVE Committed'[c] = Committed[c]
  <2>1. PICK j \in DOMAIN t : c \in t[j].part.cells
    BY ThisThread DEF Split, PartsOf
  <2>2. j # i /\ t'[j] = t[j]
    BY <1>1, <2>1
  <2>3. Committed'[c] = HomeOf(bel', t[j], c) /\ Committed[c] = HomeOf(bel, t[j], c)
    BY <1>3, <2>1, <2>2, CommittedIs
  <2>4. bel'[c] = bel[c]
    OBVIOUS
  <2> QED BY <2>3, <2>4 DEF HomeOf
<1> QED BY <1>4, <1>5

\* A step that keeps a thread's cells where they are commits nothing.
LEMMA KeptIsStutter ==
    ASSUME IInv, NEW i \in DOMAIN t, Kept(i)
    PROVE  IInv' /\ UNCHANGED Committed
<1>1. PICK z : /\ t' = [t EXCEPT ![i] = z]
               /\ z.part = t[i].part /\ ThreadOK(bel', z) /\ Tables'
               /\ \A c \in Cells \ t[i].part.cells : bel'[c] = bel[c]
               /\ \A c \in t[i].part.cells : HomeOf(bel', z, c) = HomeOf(bel, t[i], c)
               /\ UNCHANGED globals
  BY DEF Kept
<1>2. IInv'
  BY <1>1, OneThread
<1>3. /\ \A c \in Cells \ t[i].part.cells : Committed'[c] = Committed[c]
      /\ \A c \in t[i].part.cells : Committed'[c] = HomeOf(bel', z, c)
  BY <1>1, CommittedThen
<1>4. \A c \in Cells : Committed'[c] = Committed[c]
  BY <1>1, <1>3, CommittedIs
<1>5. /\ Committed = [c \in Cells |-> Committed[c]]
      /\ Committed' = [c \in Cells |-> Committed'[c]]
  BY DEF Committed
<1> QED BY <1>2, <1>4, <1>5

\* What it is for the committed placement to be legal.
LEMMA LegalIs ==
    Abstract!Legal <=>
        /\ \A c \in Cells : Committed[c] \in CanHold[c]
        /\ \A c, d \in Cells : c # d => Committed[c] # Committed[d]
        /\ \A c \in Cells :
              {d \in Cells : TileOf(Committed[d]) = TileOf(Committed[c])} \in LegalTiles
        /\ \A c \in Cells : RootOf[c] # None =>
              Committed[c] = Shift(Committed[RootOf[c]], Offset[c])
BY DEF Abstract!Legal, Abstract!TileOf, TileOf, Shift

-----------------------------------------------------------------------------
(* Swapping tiles *)

\* Two bels on a tile with the same z are one.
LEMMA BelIs ==
    ASSUME NEW a \in Bels, NEW b \in Bels, TileOf(a) = TileOf(b), a[3] = b[3]
    PROVE  a = b
<1>1. a \in Int \X Int \X Int /\ b \in Int \X Int \X Int
  BY DeviceAssumption
<1>2. a = <<a[1], a[2], a[3]>> /\ b = <<b[1], b[2], b[3]>>
  BY <1>1
<1>3. a[1] = b[1] /\ a[2] = b[2]
  BY DEF TileOf
<1> QED BY <1>2, <1>3

\* When a cluster is on one tile its members differ in z only, so that they
\* keep their places relative to the root on any other tile.
LEMMA ShapeOnTile ==
    ASSUME NEW a \in Bels, NEW b \in Bels, NEW d \in Int \X Int \X Int,
           a = Shift(b, d), TileOf(a) = TileOf(b),
           NEW x, NEW y \in Int \X Int \X Int, NEW z \in Int \X Int \X Int,
           y = <<x[1], x[2], a[3]>>, z = <<x[1], x[2], b[3]>>
    PROVE  y = Shift(z, d)
<1>1. /\ a[1] \in Int /\ a[2] \in Int /\ a[3] \in Int
      /\ b[1] \in Int /\ b[2] \in Int /\ b[3] \in Int
  BY DeviceAssumption
<1>2. d[1] \in Int /\ d[2] \in Int /\ d[3] \in Int
  OBVIOUS
<1>3. a[1] = b[1] + d[1] /\ a[2] = b[2] + d[2] /\ a[3] = b[3] + d[3]
  BY DEF Shift
<1>4. a[1] = b[1] /\ a[2] = b[2]
  BY DEF TileOf
<1>5. d[1] = 0 /\ d[2] = 0
  BY <1>1, <1>2, <1>3, <1>4
<1>6. /\ y[1] = x[1] /\ y[2] = x[2] /\ y[3] = a[3]
      /\ z[1] = x[1] /\ z[2] = x[2] /\ z[3] = b[3]
      /\ y[1] \in Int /\ y[2] \in Int
  OBVIOUS
<1>7. y[1] = z[1] + d[1] /\ y[2] = z[2] + d[2] /\ y[3] = z[3] + d[3]
  BY <1>1, <1>2, <1>3, <1>5, <1>6
<1>8. Shift(z, d) = [k \in 1..3 |-> y[k]]
  BY <1>7 DEF Shift
<1>9. y = [k \in 1..3 |-> y[k]]
  OBVIOUS
<1> QED BY <1>8, <1>9

\* Between moves, the cells of a part are where they are committed.
LEMMA CommittedHere ==
    ASSUME IInv, NEW i \in DOMAIN t, t[i].status \in Unbound, NEW c \in t[i].part.cells
    PROVE  Committed[c] = bel[c]
BY CommittedIs, HomeIsBel, ThisThread

\* A member of a cluster that is all on one tile, with a cell of the part
\* there, is in the part.
LEMMA TileInPart ==
    ASSUME IInv, NEW i \in DOMAIN t, t[i].status \in Unbound,
           NEW c \in t[i].part.cells, NEW d \in Cells,
           RootOf[c] # None, RootOf[d] = RootOf[c], TileOf(bel[d]) = TileOf(bel[c])
    PROVE  d \in t[i].part.cells
<1>1. AtHome(t[i].part)
  BY ThisThread, BetweenMovesAtHome DEF Unbound
<1>2. InPart(t[i].part, bel[c])
  BY <1>1 DEF AtHome
<1>3. InPart(t[i].part, bel[d])
  BY <1>2 DEF InPart, TileOf, Axes
<1>4. bel[d] # None
  BY NotInTransit
<1> QED BY <1>3, <1>4, BoundInPart

\* do_tile_swap() plans a move that takes whole clusters, in shape, to bels of
\* the part.
LEMMA SwapTilesKept ==
    ASSUME IInv, Abstract!Legal, NEW i \in DOMAIN t, SwapTiles(i)
    PROVE  Kept(i)
<1> DEFINE old == t[i]
           p == old.part
           t2c == old.tile2cell
<1>1. /\ ThreadOK(bel, old) /\ Tables /\ old.status = "idle" /\ old.pass = "tiles"
      /\ DOMAIN old = Fields /\ p.cells \subseteq Cells /\ UNCHANGED <<tables, globals>>
  BY ThisThread DEF SwapTiles, ThreadOK
<1>2. PICK from \in old.todo : \E to \in DOMAIN t2c :
        LET s == [old EXCEPT !.todo = @ \ {from}, !.swap = <<from, to>>]
            cells == s.tile2cell[from] \cup s.tile2cell[to]
            Dest(c) == IF c \in s.tile2cell[from] THEN <<to[1], to[2], bel[c][3]>>
                       ELSE <<from[1], from[2], bel[c][3]>>
            moved == add_to_move(s, [c \in cells |-> Dest(c)])
        IN  \/ from = to /\ t' = [t EXCEPT ![i].todo = @ \ {from}]
            \/ /\ from # to
               /\ ~Stays(s, from) /\ ~Stays(s, to)
               /\ \A c \in cells : MayMove(s, c, Dest(c))
               /\ Plan(i, moved)
            \/ from # to /\ GiveUp(i, moved)
  BY DEF SwapTiles
<1>3. PICK to \in DOMAIN t2c :
        LET s == [old EXCEPT !.todo = @ \ {from}, !.swap = <<from, to>>]
            cells == s.tile2cell[from] \cup s.tile2cell[to]
            Dest(c) == IF c \in s.tile2cell[from] THEN <<to[1], to[2], bel[c][3]>>
                       ELSE <<from[1], from[2], bel[c][3]>>
            moved == add_to_move(s, [c \in cells |-> Dest(c)])
        IN  \/ from = to /\ t' = [t EXCEPT ![i].todo = @ \ {from}]
            \/ /\ from # to
               /\ ~Stays(s, from) /\ ~Stays(s, to)
               /\ \A c \in cells : MayMove(s, c, Dest(c))
               /\ Plan(i, moved)
            \/ from # to /\ GiveUp(i, moved)
  BY <1>2
<1> DEFINE s == [old EXCEPT !.todo = @ \ {from}, !.swap = <<from, to>>]
           cells == s.tile2cell[from] \cup s.tile2cell[to]
           Dest(c) == IF c \in s.tile2cell[from] THEN <<to[1], to[2], bel[c][3]>>
                      ELSE <<from[1], from[2], bel[c][3]>>
           dest == [c \in cells |-> Dest(c)]
           moved == add_to_move(s, dest)
<1>4. \/ from = to /\ t' = [t EXCEPT ![i].todo = @ \ {from}]
      \/ /\ from # to
         /\ ~Stays(s, from) /\ ~Stays(s, to)
         /\ \A c \in cells : MayMove(s, c, Dest(c))
         /\ Plan(i, moved)
      \/ from # to /\ GiveUp(i, moved)
  BY <1>3
<1>5. /\ DOMAIN s = Fields /\ s.part = p /\ s.pass = "tiles" /\ s.tile2cell = t2c
      /\ s.todo \subseteq old.todo /\ s.swap = <<from, to>>
  BY <1>1 DEF Fields
<1>6. /\ s.status = "idle" /\ s.moved_cells = NoMove /\ s.cursor = old.cursor
  <2>1. old.moved_cells = NoMove
    BY <1>1 DEF ThreadOK, StatusOK
  <2> QED BY <1>1, <2>1 DEF Fields
<1>7. /\ DOMAIN dest = t2c[from] \cup t2c[to]
      /\ \A c \in DOMAIN dest : dest[c] = IF c \in t2c[from] THEN <<to[1], to[2], bel[c][3]>>
                                          ELSE <<from[1], from[2], bel[c][3]>>
  BY <1>5
<1>8. /\ Like(s, moved) /\ moved.moved_cells = Grown(NoMove, dest) /\ moved.swap = <<from, to>>
  <2> HIDE DEF s, dest
  <2> QED BY <1>5, <1>6, AddToMoveIs
<1>9. CASE from = to /\ t' = [t EXCEPT ![i].todo = @ \ {from}]
  <2> DEFINE z == [t[i] EXCEPT !.todo = @ \ {from}]
  <2>1. /\ DOMAIN z = Fields /\ z.part = t[i].part /\ z.pass = t[i].pass
        /\ z.tile2cell = t[i].tile2cell /\ z.todo \subseteq t[i].todo
        /\ z.moved_cells = t[i].moved_cells /\ z.status = t[i].status
        /\ z.swap = t[i].swap /\ z.displaced_clusters = t[i].displaced_clusters
        /\ z.used_bels = t[i].used_bels /\ z.cursor = t[i].cursor
    BY <1>1, TriedIs
  <2>2. t' = [t EXCEPT ![i] = z]
    BY <1>9
  <2> HIDE DEF z
  <2>3. Idle(z)
    BY <1>1, <2>1, IdleIs DEF Idle
  <2>4. ThreadOK(bel, z)
    BY <1>1, <2>1, <2>3, GiveUpOK
  <2> QED BY <1>1, <2>1, <2>2, <2>3, <2>4, KeptByPlanning DEF Unbound, Idle
<1>10. CASE GiveUp(i, moved)
  <2> HIDE DEF moved, s
  <2> QED BY <1>1, <1>5, <1>8, <1>10, GiveUpKept DEF Like, Unbound
<1>11. ASSUME from # to, ~Stays(s, from), ~Stays(s, to),
              \A c \in cells : MayMove(s, c, Dest(c))
       PROVE  /\ MoveOK(p, Grown(NoMove, dest)) /\ Shaped(Grown(NoMove, dest))
              /\ Whole(Grown(NoMove, dest))
              /\ \A c \in DOMAIN Grown(NoMove, dest) : bel[c] = Grown(NoMove, dest)[c].old
              /\ DOMAIN Grown(NoMove, dest) = t2c[from] \cup t2c[to]
              /\ from \in DOMAIN t2c /\ to \in DOMAIN t2c
              /\ \A c \in t2c[from] : TileOf(Grown(NoMove, dest)[c].new) = to
              /\ \A c \in t2c[to] : TileOf(Grown(NoMove, dest)[c].new) = from
  <2>1. TilesOK(bel, old)
    BY <1>1 DEF ThreadOK
  <2>2. /\ from \in DOMAIN t2c /\ to \in DOMAIN t2c
        /\ from = <<from[1], from[2]>> /\ to = <<to[1], to[2]>>
    BY <2>1 DEF TilesOK
  <2>3. \A c : HomeOf(bel, old, c) = bel[c]
    BY <1>1, HomeIsBel DEF Unbound
  <2>4. \A x \in DOMAIN t2c : t2c[x] = {c \in p.cells : TileOf(bel[c]) = x}
    BY <2>1, <2>3 DEF TilesOK
  <2>5. AtHome(p)
    BY <1>1, BetweenMovesAtHome
  <2>6. \A c \in p.cells : c \in Cells /\ bel[c] \in CanHold[c] /\ bel[c] \in Bels /\ bel[c] # None
                           /\ InPart(p, bel[c])
    BY <1>1, <2>5, DeviceAssumption DEF AtHome
  <2>7. ASSUME NEW x \in {from, to}
        PROVE  \A c \in t2c[x] : /\ c \notin Locked
                                 /\ RootOf[c] # None => \A d \in Cells :
                                       RootOf[d] = RootOf[c] => TileOf(bel[d]) = x
    BY <1>5, <1>11 DEF Stays
  <2>8. \A c \in DOMAIN dest : dest[c] \in CanHold[c] /\ InPart(p, dest[c])
    BY <1>5, <1>7, <1>11 DEF MayMove
  <2> HIDE DEF dest, Dest, cells, s, old, t2c
  <2>9. DOMAIN dest \subseteq p.cells \ Locked
    BY <1>7, <2>2, <2>4, <2>7
  <2>10. /\ \A c \in t2c[from] : TileOf(bel[c]) = from /\ TileOf(dest[c]) = to
                                 /\ dest[c] = <<to[1], to[2], bel[c][3]>>
         /\ \A c \in t2c[to] : TileOf(bel[c]) = to /\ TileOf(dest[c]) = from
                               /\ dest[c] = <<from[1], from[2], bel[c][3]>>
    <3>1. \A c \in t2c[from] : TileOf(bel[c]) = from
      BY <2>2, <2>4
    <3>2. \A c \in t2c[to] : TileOf(bel[c]) = to /\ c \notin t2c[from]
      BY <1>11, <2>2, <2>4, <3>1
    <3>3. \A c \in t2c[from] : dest[c] = <<to[1], to[2], bel[c][3]>>
      BY <1>7
    <3>4. \A c \in t2c[to] : dest[c] = <<from[1], from[2], bel[c][3]>>
      BY <1>7, <3>2
    <3>5. \A c \in t2c[from] : TileOf(dest[c]) = to
      BY <2>2, <3>3 DEF TileOf
    <3>6. \A c \in t2c[to] : TileOf(dest[c]) = from
      BY <2>2, <3>4 DEF TileOf
    <3> QED BY <3>1, <3>2, <3>3, <3>4, <3>5, <3>6
  <2>11. \A c, d \in DOMAIN dest : c # d => dest[c] # dest[d]
    <3> SUFFICES ASSUME NEW c \in DOMAIN dest, NEW d \in DOMAIN dest, dest[c] = dest[d]
                 PROVE  c = d
      OBVIOUS
    <3>1. TileOf(dest[c]) = TileOf(dest[d])
      OBVIOUS
    <3>2. (c \in t2c[from] /\ d \in t2c[from]) \/ (c \in t2c[to] /\ d \in t2c[to])
      BY <1>7, <1>11, <2>10, <3>1
    <3>3. dest[c][3] = bel[c][3] /\ dest[d][3] = bel[d][3]
      BY <1>7, <2>10
    <3>4. TileOf(bel[c]) = TileOf(bel[d]) /\ bel[c][3] = bel[d][3]
      BY <2>10, <3>2, <3>3
    <3>5. c \in p.cells /\ d \in p.cells
      BY <2>9
    <3>6. bel[c] = bel[d]
      BY <2>6, <3>4, <3>5, BelIs
    <3> QED BY <1>1, <2>6, <3>5, <3>6, NoBelShared
  <2> DEFINE g == Grown(NoMove, dest)
  <2>12. /\ MoveOK(p, g) /\ \A c \in DOMAIN g : bel[c] = g[c].old
    <3>1. MoveOK(p, NoMove) /\ DOMAIN NoMove = {}
      BY NoMoveOK
    <3> HIDE DEF p
    <3> QED BY <1>1, <2>5, <2>8, <2>9, <2>11, <3>1, GrownOK
  <2>13. DOMAIN g = DOMAIN dest /\ \A c \in DOMAIN g : g[c].new = dest[c]
    BY NoMoveOK DEF Grown
  <2> HIDE DEF g
  <2>14. ASSUME NEW c \in DOMAIN dest, NEW d \in Cells, RootOf[c] # None, RootOf[d] = RootOf[c]
         PROVE  d \in DOMAIN dest /\ TileOf(bel[d]) = TileOf(bel[c])
    <3>1. PICK x \in {from, to} : c \in t2c[x]
      BY <1>7
    <3>2. TileOf(bel[c]) = x /\ TileOf(bel[d]) = x
      BY <2>7, <2>10, <2>14, <3>1
    <3>3. c \in p.cells
      BY <2>9
    <3>4. d \in p.cells
      BY <1>1, <2>14, <3>2, <3>3, TileInPart DEF Unbound, old
    <3>5. d \in t2c[x]
      BY <2>2, <2>4, <3>2, <3>4
    <3> QED BY <1>7, <3>2, <3>5
  <2>15. Whole(g)
    BY <2>13, <2>14 DEF Whole
  <2>16. ASSUME NEW c \in DOMAIN g, RootOf[c] # None
         PROVE  RootOf[c] \in DOMAIN g /\ g[c].new = Shift(g[RootOf[c]].new, Offset[c])
    <3> DEFINE r == RootOf[c]
    <3>1. c \in DOMAIN dest /\ c \in p.cells /\ c \in Cells
      BY <2>6, <2>9, <2>13
    <3>2. r \in Cells /\ RootOf[r] = r
      BY <2>16, <3>1, ClusterOf
    <3>3. r \in DOMAIN dest /\ TileOf(bel[r]) = TileOf(bel[c])
      BY <2>14, <2>16, <3>1, <3>2
    <3>4. r \in p.cells
      BY <2>9, <3>3
    <3>5. Committed[c] = bel[c] /\ Committed[r] = bel[r]
      BY <1>1, <3>1, <3>4, CommittedHere DEF Unbound, old
    <3>6. bel[c] = Shift(bel[r], Offset[c])
      BY <2>16, <3>1, <3>5, LegalIs
    <3>7. Offset[c] \in Int \X Int \X Int
      BY <3>1, ClusterAssumption
    <3>8. dest[c] \in Int \X Int \X Int /\ dest[r] \in Int \X Int \X Int
      BY <2>6, <2>8, <3>1, <3>2, <3>3, DeviceAssumption
    <3>9. PICK x : dest[c] = <<x[1], x[2], bel[c][3]>> /\ dest[r] = <<x[1], x[2], bel[r][3]>>
      <4>1. CASE c \in t2c[from]
        <5>1. r \in t2c[from]
          BY <1>7, <1>11, <2>10, <3>3, <4>1
        <5> QED BY <2>10, <4>1, <5>1
      <4>2. CASE c \in t2c[to]
        <5>1. r \in t2c[to]
          BY <1>7, <1>11, <2>10, <3>3, <4>2
        <5> QED BY <2>10, <4>2, <5>1
      <4> QED BY <1>7, <3>1, <4>1, <4>2
    <3> HIDE DEF r
    <3>10. bel[c] \in Bels /\ bel[r] \in Bels
      BY <2>6, <3>1, <3>4
    <3>11. dest[c] = Shift(dest[r], Offset[c])
      BY <3>3, <3>6, <3>7, <3>8, <3>9, <3>10, ShapeOnTile
    <3> QED BY <2>13, <3>3, <3>11 DEF r
  <2>17. Shaped(g)
    BY <2>16 DEF Shaped
  <2>18. /\ DOMAIN g = t2c[from] \cup t2c[to]
         /\ \A c \in t2c[from] : TileOf(g[c].new) = to
         /\ \A c \in t2c[to] : TileOf(g[c].new) = from
    BY <1>7, <2>10, <2>13
  <2> QED BY <2>2, <2>12, <2>15, <2>17, <2>18 DEF g
<1>12. CASE /\ from # to
            /\ ~Stays(s, from) /\ ~Stays(s, to)
            /\ \A c \in cells : MayMove(s, c, Dest(c))
            /\ Plan(i, moved)
  <2> DEFINE g == Grown(NoMove, dest)
  <2>1. /\ MoveOK(p, g) /\ Shaped(g) /\ Whole(g)
        /\ \A c \in DOMAIN g : bel[c] = g[c].old
        /\ DOMAIN g = t2c[from] \cup t2c[to]
        /\ from \in DOMAIN t2c /\ to \in DOMAIN t2c
        /\ \A c \in t2c[from] : TileOf(g[c].new) = to
        /\ \A c \in t2c[to] : TileOf(g[c].new) = from
    BY <1>11, <1>12
  <2>2. DOMAIN moved = Fields /\ Plan(i, moved)
    BY <1>8, <1>12 DEF Like
  <2> HIDE DEF moved, g
  <2>3. PICK z : /\ t' = [t EXCEPT ![i] = z]
                 /\ Like(moved, z) /\ z.moved_cells = moved.moved_cells
                 /\ z.swap = moved.swap /\ z.status = "planned" /\ z.cursor = <<>>
    BY <2>2, PlanIs
  <2>4. /\ DOMAIN z = Fields /\ z.part = p /\ z.pass = "tiles" /\ z.tile2cell = t2c
        /\ z.todo \subseteq old.todo /\ z.swap = <<from, to>> /\ z.moved_cells = g
    <3> HIDE DEF s
    <3> QED BY <1>5, <1>8, <2>3 DEF Like, g
  <2>5. TilesOK(bel, z)
    <3>1. TilesOK(bel, old)
      BY <1>1 DEF ThreadOK
    <3>2. \A c : HomeOf(bel, old, c) = bel[c] /\ HomeOf(bel, z, c) = bel[c]
      <4>1. \A c : HomeOf(bel, z, c) = bel[c]
        BY <2>1, <2>4 DEF HomeOf
      <4> QED BY <1>1, <4>1, HomeIsBel DEF Unbound
    <3>3. \A x \in DOMAIN t2c : t2c[x] = {c \in p.cells : TileOf(HomeOf(bel, z, c)) = x}
      BY <3>1, <3>2 DEF TilesOK
    <3>4. z.todo \subseteq DOMAIN t2c /\ \A x \in DOMAIN t2c : x = <<x[1], x[2]>>
      BY <2>4, <3>1 DEF TilesOK
    <3>5. z.swap # <<>> /\ z.swap[1] = from /\ z.swap[2] = to
      BY <2>4
    <3> HIDE DEF t2c, p, old
    <3> QED BY <1>12, <2>1, <2>4, <3>3, <3>4, <3>5 DEF TilesOK
  <2>6. ThreadOK(bel, z)
    BY <1>1, <2>1, <2>3, <2>4, <2>5, PlannedOK
  <2> QED BY <1>1, <2>3, <2>4, <2>6, KeptByPlanning DEF Unbound
<1> QED BY <1>4, <1>9, <1>10, <1>12

-----------------------------------------------------------------------------
(* Committing a move *)

\* The tiles of the move have been found legal: the cells are for good where
\* the move took them.
LEMMA CommitOK ==
    ASSUME Tables, NEW s, ThreadOK(bel, s), s.status = "bound",
           NEW swapped,
           swapped = [s.tile2cell EXCEPT ![s.swap[1]] = s.tile2cell[s.swap[2]],
                                         ![s.swap[2]] = s.tile2cell[s.swap[1]]],
           NEW y, y = [s EXCEPT !.tile2cell = IF s.swap = <<>> THEN @ ELSE swapped],
           NEW z, z = reset_move_state(commit_move(y))
    PROVE  ThreadOK(bel, z) /\ z.part = s.part /\ Idle(z)
<1> DEFINE mv == s.moved_cells
           t2c == s.tile2cell
           from == s.swap[1]
           to == s.swap[2]
<1>1. DOMAIN s = Fields /\ s.part.cells \subseteq Cells
  BY DEF ThreadOK
<1>2. /\ DOMAIN y = Fields /\ y.part = s.part /\ y.pass = s.pass /\ y.todo = s.todo
      /\ y.tile2cell = IF s.swap = <<>> THEN t2c ELSE swapped
  BY <1>1 DEF Fields
<1>3. /\ DOMAIN z = Fields /\ z.part = s.part /\ z.pass = s.pass /\ z.todo = s.todo
      /\ z.tile2cell = y.tile2cell /\ Idle(z)
  <2>1. Like(y, commit_move(y))
    BY <1>2, CommitIs
  <2>2. Like(commit_move(y), z) /\ Idle(z)
    BY <2>1, ResetIs DEF Like
  <2> QED BY <1>2, <2>1, <2>2 DEF Like
<1>4. \A c \in DOMAIN mv : bel[c] = mv[c].new
  BY DEF ThreadOK, WhereOK
<1>5. \A c \in s.part.cells : bel[c] \in CanHold[c] /\ InPart(s.part, bel[c])
  <2>1. \A c \in DOMAIN mv : mv[c].new \in CanHold[c] /\ InPart(s.part, mv[c].new)
    BY DEF ThreadOK, MoveOK
  <2>2. \A c \in s.part.cells \ DOMAIN mv : bel[c] \in CanHold[c] /\ InPart(s.part, bel[c])
    BY DEF ThreadOK, WhereOK
  <2> QED BY <1>4, <2>1, <2>2
<1>6. ASSUME s.pass = "tiles" PROVE TilesOK(bel, z)
  <2>1. TilesOK(bel, s)
    BY <1>6 DEF ThreadOK
  <2>2. /\ s.todo \subseteq DOMAIN t2c /\ \A x \in DOMAIN t2c : x = <<x[1], x[2]>>
        /\ \A x \in DOMAIN t2c : t2c[x] = {c \in s.part.cells : TileOf(HomeOf(bel, s, c)) = x}
        /\ s.swap # <<>> /\ from # to
        /\ from \in DOMAIN t2c /\ to \in DOMAIN t2c
        /\ DOMAIN mv = t2c[from] \cup t2c[to]
        /\ \A c \in t2c[from] : TileOf(mv[c].new) = to
        /\ \A c \in t2c[to] : TileOf(mv[c].new) = from
    BY <2>1 DEF TilesOK
  <2> HIDE DEF mv, t2c, from, to
  <2>3. /\ z.tile2cell = swapped /\ DOMAIN swapped = DOMAIN t2c
        /\ \A x \in DOMAIN t2c : swapped[x] = IF x = from THEN t2c[to]
                                              ELSE IF x = to THEN t2c[from] ELSE t2c[x]
    <3>1. swapped = [t2c EXCEPT ![from] = t2c[to], ![to] = t2c[from]]
      BY DEF t2c, from, to
    <3> QED BY <1>2, <1>3, <2>2, <3>1
  <2>4. \A c : HomeOf(bel, z, c) = bel[c]
    BY <1>3, NoMoveOK DEF HomeOf, Idle
  <2>5. \A c \in s.part.cells \ DOMAIN mv : HomeOf(bel, s, c) = bel[c]
    BY DEF HomeOf, mv
  <2>6. DOMAIN mv \subseteq s.part.cells
    BY DEF ThreadOK, MoveOK, mv
  <2>7. ASSUME NEW x \in DOMAIN t2c, NEW c \in s.part.cells
        PROVE  c \in swapped[x] <=> TileOf(bel[c]) = x
    <3>1. CASE c \in t2c[from]
      <4>1. TileOf(bel[c]) = to
        BY <1>4, <2>2, <3>1 DEF mv
      <4>2. \A w \in DOMAIN t2c : c \in t2c[w] => w = from
        BY <2>2, <3>1
      <4> QED BY <2>2, <2>3, <3>1, <4>1, <4>2
    <3>2. CASE c \in t2c[to]
      <4>1. TileOf(bel[c]) = from
        BY <1>4, <2>2, <3>2 DEF mv
      <4>2. \A w \in DOMAIN t2c : c \in t2c[w] => w = to
        BY <2>2, <3>2
      <4> QED BY <2>2, <2>3, <3>2, <4>1, <4>2
    <3>3. CASE c \notin t2c[from] /\ c \notin t2c[to]
      <4>1. HomeOf(bel, s, c) = bel[c]
        BY <2>2, <2>5, <3>3
      <4>2. \A w \in DOMAIN t2c : c \in t2c[w] <=> TileOf(bel[c]) = w
        BY <2>2, <4>1
      <4> QED BY <2>2, <2>3, <3>3, <4>2
    <3> QED BY <3>1, <3>2, <3>3
  <2>8. ASSUME NEW x \in DOMAIN t2c PROVE swapped[x] \subseteq s.part.cells
    BY <2>2, <2>3
  <2>9. \A x \in DOMAIN swapped :
           swapped[x] = {c \in s.part.cells : TileOf(HomeOf(bel, z, c)) = x}
    BY <2>3, <2>4, <2>7, <2>8
  <2>10. /\ z.todo \subseteq DOMAIN z.tile2cell /\ z.status = "idle"
         /\ \A x \in DOMAIN z.tile2cell : x = <<x[1], x[2]>>
    <3>1. z.tile2cell = swapped /\ z.todo = s.todo /\ z.status = "idle"
      BY <1>2, <1>3, <2>3 DEF Idle
    <3> QED BY <2>2, <2>3, <3>1
  <2>11. \A x \in DOMAIN z.tile2cell :
            z.tile2cell[x] = {c \in z.part.cells : TileOf(HomeOf(bel, z, c)) = x}
    <3>1. z.tile2cell = swapped /\ z.part.cells = s.part.cells
      BY <1>3, <2>3
    <3> QED BY <2>9, <3>1
  <2> QED BY <2>10, <2>11, Zenon DEF TilesOK
<1>7. /\ s.pass \in {"cells", "tiles", "over"}
      /\ s.pass = "cells" => s.todo \subseteq Movers(s.part.cells)
  BY DEF ThreadOK, StatusOK
<1> QED BY <1>1, <1>3, <1>5, <1>6, <1>7, IdleOK

\* What a thread's move, bound and found good, does to the committed placement.
LEMMA CommitIsLegal ==
    ASSUME IInv, Abstract!Legal, NEW i \in DOMAIN t, t[i].status = "bound",
           \A c \in DOMAIN t[i].moved_cells :
              /\ isBelLocationValid(t[i].moved_cells[c].old)
              /\ isBelLocationValid(t[i].moved_cells[c].new),
           NEW to, \A c \in Cells \ t[i].part.cells : to[c] = Committed[c],
           \A c \in t[i].part.cells : to[c] = bel[c]
    PROVE  /\ \A c \in Cells : to[c] \in CanHold[c]
           /\ \A c, d \in Cells : c # d => to[c] # to[d]
           /\ \A c \in Cells : {d \in Cells : TileOf(to[d]) = TileOf(to[c])} \in LegalTiles
           /\ \A c \in Cells : RootOf[c] # None => to[c] = Shift(to[RootOf[c]], Offset[c])
           /\ \A c \in Locked \cap Cells : to[c] = Committed[c]
<1> DEFINE s == t[i]
           p == s.part
           mv == s.moved_cells
<1>1. /\ ThreadOK(bel, s) /\ Tables /\ Split(PartsOf) /\ p.cells \subseteq Cells
  BY ThisThread DEF ThreadOK
<1>2. /\ DOMAIN mv \subseteq p.cells \ Locked
      /\ \A c \in DOMAIN mv : /\ InPart(p, mv[c].old) /\ InPart(p, mv[c].new)
                              /\ bel[c] = mv[c].new /\ Committed[c] = mv[c].old
                              /\ to[c] = mv[c].new
      /\ Whole(mv) /\ Shaped(mv)
  <2>1. DOMAIN mv \subseteq p.cells \ Locked
    BY <1>1 DEF ThreadOK, MoveOK
  <2>2. \A c \in DOMAIN mv : InPart(p, mv[c].old) /\ InPart(p, mv[c].new)
    BY <1>1 DEF ThreadOK, MoveOK
  <2>3. \A c \in DOMAIN mv : bel[c] = mv[c].new
    BY <1>1 DEF ThreadOK, WhereOK
  <2>4. \A c \in DOMAIN mv : Committed[c] = mv[c].old
    BY <2>1, CommittedIs DEF HomeOf
  <2>5. \A c \in DOMAIN mv : to[c] = mv[c].new
    BY <2>1, <2>3
  <2> QED BY <1>1, <2>1, <2>2, <2>3, <2>4, <2>5 DEF ThreadOK
<1>3. \A c \in p.cells : bel[c] # None /\ bel[c] \in CanHold[c] /\ InPart(p, bel[c])
  <2>1. \A c \in p.cells : bel[c] # None
    <3>1. \A c \in p.cells \ DOMAIN mv : bel[c] \in CanHold[c]
      BY <1>1 DEF ThreadOK, WhereOK
    <3>2. \A c \in DOMAIN mv : bel[c] \in CanHold[c]
      BY <1>1, <1>2 DEF ThreadOK, MoveOK
    <3> QED BY <1>1, <3>1, <3>2, DeviceAssumption
  <2> QED BY <1>1, <2>1, CellInPart
<1>4. \A c \in Cells \ DOMAIN mv : to[c] = Committed[c]
  <2>1. \A c \in p.cells \ DOMAIN mv : Committed[c] = bel[c]
    BY CommittedIs DEF HomeOf
  <2> QED BY <2>1
<1>5. /\ \A c \in Cells : Committed[c] \in CanHold[c]
      /\ \A c, d \in Cells : c # d => Committed[c] # Committed[d]
      /\ \A c \in Cells :
            {d \in Cells : TileOf(Committed[d]) = TileOf(Committed[c])} \in LegalTiles
      /\ \A c \in Cells : RootOf[c] # None =>
            Committed[c] = Shift(Committed[RootOf[c]], Offset[c])
  BY LegalIs
<1>6. \A c \in Cells : to[c] \in CanHold[c] /\ to[c] \in Bels
  BY <1>3, <1>5, DeviceAssumption
\* The cells of other parts are on bels that are not of this part.
<1>7. ASSUME NEW c \in Cells \ p.cells, p.cells # {} PROVE ~InPart(p, Committed[c])
  <2>1. PICK j \in DOMAIN t : c \in t[j].part.cells
    BY <1>1 DEF Split, PartsOf
  <2>2. ThreadOK(bel, t[j])
    BY ThisThread
  <2>3. Committed[c] = HomeOf(bel, t[j], c) /\ Committed[c] \in CanHold[c]
    BY <1>5, <2>1, CommittedIs
  <2>4. InPart(t[j].part, Committed[c])
    <3>1. CASE c \in DOMAIN t[j].moved_cells
      BY <2>2, <2>3, <3>1 DEF ThreadOK, MoveOK, HomeOf
    <3>2. CASE c \notin DOMAIN t[j].moved_cells
      BY <2>1, <2>2, <2>3, <3>2 DEF ThreadOK, WhereOK, HomeOf
    <3> QED BY <3>1, <3>2
  <2>5. j # i /\ Apart(t[i].part, t[j].part)
    BY <1>1, <2>1 DEF Split, PartsOf
  <2>6. Committed[c] \in Bels
    BY <2>3, DeviceAssumption
  <2> QED BY <1>7, <2>1, <2>4, <2>5, <2>6 DEF Apart
<1> HIDE DEF s, p, mv
<1>8. ASSUME NEW c \in Cells, NEW d \in Cells, c # d, to[c] = to[d] PROVE FALSE
  <2>1. CASE c \in p.cells /\ d \in p.cells
    BY <1>1, <1>3, <1>8, <2>1, NoBelShared DEF p, s
  <2>2. CASE c \notin p.cells /\ d \notin p.cells
    BY <1>5, <1>8, <2>2 DEF p, s
  <2>3. CASE c \in p.cells /\ d \notin p.cells
    BY <1>3, <1>7, <1>8, <2>3 DEF p, s
  <2>4. CASE c \notin p.cells /\ d \in p.cells
    BY <1>3, <1>7, <1>8, <2>4 DEF p, s
  <2> QED BY <2>1, <2>2, <2>3, <2>4
<1>9. ASSUME NEW c \in Cells
      PROVE  {d \in Cells : TileOf(to[d]) = TileOf(to[c])} \in LegalTiles
  <2> DEFINE x == TileOf(to[c])
  \* The tile is one that the move has touched, and the check has found good.
  <2>1. CASE \E m \in DOMAIN mv : TileOf(mv[m].old) = x \/ TileOf(mv[m].new) = x
    <3>1. PICK m \in DOMAIN mv : TileOf(mv[m].old) = x \/ TileOf(mv[m].new) = x
      BY <2>1
    <3>2. PICK b \in {mv[m].old, mv[m].new} : TileOf(b) = x /\ InPart(p, b)
      BY <1>2, <3>1
    <3>3. isBelLocationValid(b)
      BY <3>1, <3>2 DEF mv, s
    <3>4. {d \in Cells : bel[d] # None /\ TileOf(bel[d]) = x} \in LegalTiles
      BY <3>2, <3>3 DEF isBelLocationValid
    <3>5. \A a : TileOf(a) = x => InPart(p, a)
      BY <3>2 DEF InPart, TileOf, Axes
    <3>6. p.cells # {}
      BY <1>2, <3>1
    <3>7. ASSUME NEW d \in Cells
          PROVE  TileOf(to[d]) = x <=> bel[d] # None /\ TileOf(bel[d]) = x
      <4>1. CASE d \in p.cells
        BY <1>3, <4>1 DEF p, s
      <4>2. CASE d \notin p.cells
        <5>1. TileOf(to[d]) # x
          BY <1>7, <3>5, <3>6, <4>2 DEF p, s
        <5>2. bel[d] # None => TileOf(bel[d]) # x
          BY <3>5, <3>6, <4>2, BoundInPart DEF p, s
        <5> QED BY <5>1, <5>2
      <4> QED BY <4>1, <4>2
    <3> HIDE DEF x
    <3>8. {d \in Cells : TileOf(to[d]) = x}
             = {d \in Cells : bel[d] # None /\ TileOf(bel[d]) = x}
      BY <3>7
    <3> QED BY <3>4, <3>8 DEF x
  \* The tile is as it was.
  <2>2. CASE \A m \in DOMAIN mv : TileOf(mv[m].old) # x /\ TileOf(mv[m].new) # x
    <3>1. c \notin DOMAIN mv
      BY <1>2, <2>2
    <3>2. to[c] = Committed[c]
      BY <1>4, <3>1
    <3>3. \A d \in Cells : TileOf(to[d]) = x <=> TileOf(Committed[d]) = x
      BY <1>2, <1>4, <2>2
    <3>4. {d \in Cells : TileOf(Committed[d]) = TileOf(Committed[c])} \in LegalTiles
      BY <1>5
    <3>5. x = TileOf(Committed[c])
      BY <3>2
    <3> HIDE DEF x
    <3>6. {d \in Cells : TileOf(to[d]) = x} = {d \in Cells : TileOf(Committed[d]) = x}
      BY <3>3
    <3>7. {d \in Cells : TileOf(to[d]) = x} \in LegalTiles
      BY <3>4, <3>5, <3>6
    <3> QED BY <3>7 DEF x
  <2> QED BY <2>1, <2>2
<1>10. ASSUME NEW c \in Cells, RootOf[c] # None
       PROVE  to[c] = Shift(to[RootOf[c]], Offset[c])
  <2>1. RootOf[c] \in Cells /\ RootOf[RootOf[c]] = RootOf[c]
    BY <1>10, ClusterOf
  <2>2. CASE c \in DOMAIN mv
    BY <1>2, <1>10, <2>2 DEF Shaped
  <2>3. CASE c \notin DOMAIN mv
    <3>1. RootOf[c] \notin DOMAIN mv
      BY <1>2, <1>10, <2>1, <2>3 DEF Whole
    <3> QED BY <1>4, <1>5, <1>10, <2>1, <2>3, <3>1
  <2> QED BY <2>2, <2>3
<1>11. \A c \in Locked \cap Cells : to[c] = Committed[c]
  BY <1>2, <1>4
<1> QED BY <1>6, <1>8, <1>9, <1>10, <1>11

\* A move that is checked either fails, or is committed and is a legal move.
LEMMA CheckMoveIs ==
    ASSUME IInv, Abstract!Legal, NEW i \in DOMAIN t, CheckMove(i)
    PROVE  /\ IInv'
           /\ \/ UNCHANGED Committed
              \/ Abstract!Legal' /\ \A c \in Locked : Committed'[c] = Committed[c]
<1> DEFINE s == t[i]
           swapped == [s.tile2cell EXCEPT ![s.swap[1]] = s.tile2cell[s.swap[2]],
                                          ![s.swap[2]] = s.tile2cell[s.swap[1]]]
           y == [s EXCEPT !.tile2cell = IF s.swap = <<>> THEN @ ELSE swapped]
           z == reset_move_state(commit_move(y))
<1>1. /\ s.status = "bound" /\ UNCHANGED <<tables, globals>>
      /\ \/ /\ \A c \in DOMAIN s.moved_cells :
                 /\ isBelLocationValid(s.moved_cells[c].old)
                 /\ isBelLocationValid(s.moved_cells[c].new)
            /\ t' = [t EXCEPT ![i] = z]
         \/ t' = [t EXCEPT ![i] = [s EXCEPT !.status = "fail"]]
  BY DEF CheckMove
<1>2. ThreadOK(bel, s) /\ Tables
  BY ThisThread
<1>3. bel' = bel /\ bel_to_cell' = bel_to_cell /\ Tables' /\ UNCHANGED globals
  BY <1>1, <1>2 DEF tables, Tables
<1>4. CASE t' = [t EXCEPT ![i] = [s EXCEPT !.status = "fail"]]
  <2> DEFINE f == [s EXCEPT !.status = "fail"]
  <2>1. /\ ThreadOK(bel, f) /\ f.part = s.part
        /\ \A c \in s.part.cells : HomeOf(bel, f, c) = HomeOf(bel, s, c)
    <3>1. \A c \in DOMAIN s.moved_cells : bel[c] \in {s.moved_cells[c].new, None}
      BY <1>1, <1>2 DEF ThreadOK, WhereOK
    <3> HIDE DEF s
    <3> QED BY <1>1, <1>2, <3>1, MoveGoesOn
  <2> HIDE DEF f
  <2>2. Kept(i)
    BY <1>3, <1>4, <2>1 DEF Kept, f
  <2> QED BY <2>2, KeptIsStutter
<1>5. CASE /\ \A c \in DOMAIN s.moved_cells :
                 /\ isBelLocationValid(s.moved_cells[c].old)
                 /\ isBelLocationValid(s.moved_cells[c].new)
           /\ t' = [t EXCEPT ![i] = z]
  <2>1. ThreadOK(bel, z) /\ z.part = s.part /\ Idle(z)
    <3>1. swapped = [s.tile2cell EXCEPT ![s.swap[1]] = s.tile2cell[s.swap[2]],
                                        ![s.swap[2]] = s.tile2cell[s.swap[1]]]
      OBVIOUS
    <3> HIDE DEF swapped
    <3>2. y = [s EXCEPT !.tile2cell = IF s.swap = <<>> THEN @ ELSE swapped]
      OBVIOUS
    <3> HIDE DEF y
    <3>3. z = reset_move_state(commit_move(y))
      OBVIOUS
    <3> HIDE DEF s, z
    <3> QED BY <1>1, <1>2, <3>1, <3>2, <3>3, CommitOK
  <2> HIDE DEF z, y, swapped
  <2>2. IInv'
    BY <1>3, <1>5, <2>1, OneThread
  <2>3. /\ \A c \in Cells \ s.part.cells : Committed'[c] = Committed[c]
        /\ \A c \in s.part.cells : Committed'[c] = HomeOf(bel', z, c)
    BY <1>3, <1>5, <2>1, CommittedThen
  <2>4. \A c \in s.part.cells : Committed'[c] = bel[c]
    BY <1>3, <2>1, <2>3, NoMoveOK DEF HomeOf, Idle
  <2>5. /\ \A c \in Cells : Committed'[c] \in CanHold[c]
        /\ \A c, d \in Cells : c # d => Committed'[c] # Committed'[d]
        /\ \A c \in Cells :
              {d \in Cells : TileOf(Committed'[d]) = TileOf(Committed'[c])} \in LegalTiles
        /\ \A c \in Cells : RootOf[c] # None =>
              Committed'[c] = Shift(Committed'[RootOf[c]], Offset[c])
        /\ \A c \in Locked \cap Cells : Committed'[c] = Committed[c]
    BY <1>1, <1>5, <2>3, <2>4, CommitIsLegal
  <2>6. Abstract!Legal'
    BY <2>5 DEF Abstract!Legal, Abstract!TileOf, TileOf, Shift
  <2>7. \A c \in Locked : Committed'[c] = Committed[c]
    BY <2>5, DeviceAssumption
  <2> QED BY <2>2, <2>6, <2>7
<1> QED BY <1>1, <1>4, <1>5

-----------------------------------------------------------------------------
(* The steps of run() *)

\* So much for the steps of a thread.
LEMMA ThreadStepIs ==
    ASSUME IInv, Abstract!Legal, NEW i \in DOMAIN t, ThreadStep(i)
    PROVE  /\ IInv'
           /\ \/ UNCHANGED Committed
              \/ Abstract!Legal' /\ \A c \in Locked : Committed'[c] = Committed[c]
<1>1. CASE CheckMove(i)
  BY <1>1, CheckMoveIs
<1>2. CASE ~CheckMove(i)
  <2>1. Kept(i)
    BY <1>2, SkipKept, SwapCellKept, SwapClusterKept, DisplaceKept, CellsDoneKept,
       SwapTilesKept, TilesDoneKept, BindKept, RevertKept DEF ThreadStep
  <2> QED BY <2>1, KeptIsStutter
<1> QED BY <1>1, <1>2

\* With no thread busy, what is committed is where the cells are.
LEMMA NobodyBusy ==
    ASSUME IInv, \A i \in DOMAIN t : t[i].status = "idle"
    PROVE  Committed = [c \in Cells |-> bel[c]]
BY DEF Committed, Busy

\* The same after a step.
LEMMA NobodyBusyThen ==
    ASSUME \A i \in DOMAIN t' : t'[i].status = "idle"
    PROVE  Committed' = [c \in Cells |-> bel'[c]]
BY DEF Committed, Busy

\* Outside of the refinement proper every cell is on a bel that can hold it.
LEMMA NoThreads ==
    ASSUME IInv, stage # "refining"
    PROVE  /\ t = <<>> /\ DOMAIN t = {} /\ Tables
           /\ \A c \in Cells : bel[c] \in CanHold[c] /\ bel[c] \in Bels
<1>1. t = <<>> /\ Tables /\ \A c \in Cells : bel[c] \in CanHold[c]
  BY DEF IInv, Control
<1> QED BY <1>1, DeviceAssumption

\* A new iteration starts with the whole design as one part.
LEMMA IterateIs ==
    ASSUME IInv, Iterate
    PROVE  IInv' /\ UNCHANGED Committed
<1>1. /\ stage = "between" /\ stage' = "cutting" /\ parts' = <<WholeDesign>> /\ axis' = 1
      /\ UNCHANGED <<bel, bel_to_cell, iter, t>>
  BY DEF Iterate
<1>2. t = <<>> /\ DOMAIN t = {} /\ Tables /\ \A c \in Cells : bel[c] \in CanHold[c] /\ bel[c] \in Bels
  BY <1>1, NoThreads
<1>3. PartOK(WholeDesign) /\ WholeDesign.cells = Cells
  BY <1>2, WholeDesignIsAPart
<1> DEFINE w == WholeDesign
<1> HIDE DEF w
<1>4. parts' = <<w>> /\ PartOK(w) /\ w.cells = Cells
  BY <1>1, <1>3 DEF w
<1>5. DOMAIN parts' = {1} /\ parts'[1] = w /\ Len(parts') = 1
      /\ parts' = [k \in 1..Len(parts') |-> parts'[k]]
  BY <1>4
<1>6. Split(parts')
  BY <1>4, <1>5 DEF Split
<1>8. (\A k \in DOMAIN parts : PartOK(parts[k]))'
  BY <1>1, <1>4, <1>5 DEF PartOK, InPart
<1>9. Cutting'
  BY <1>5, <1>6, <1>8 DEF Cutting, Split
<1>10. Control'
  BY <1>1, <1>2 DEF Control, IInv, Axes
<1>11. Tables' /\ Refining'
  BY <1>1, <1>2 DEF Tables, Refining
<1>12. UNCHANGED Committed
  BY <1>1 DEF Committed, Busy
<1> QED BY <1>9, <1>10, <1>11, <1>12 DEF IInv

\* Cutting every part in two keeps the parts apart.
LEMMA CutIs ==
    ASSUME IInv, CutParts
    PROVE  IInv' /\ UNCHANGED Committed
<1>1. /\ stage = "cutting" /\ axis' = 3 - axis
      /\ UNCHANGED <<bel, bel_to_cell, iter, stage, t>>
  BY DEF CutParts
<1>2. t = <<>> /\ DOMAIN t = {} /\ Tables /\ \A c \in Cells : bel[c] \in CanHold[c] /\ bel[c] \in Bels
  BY <1>1, NoThreads
<1>3. axis \in Axes
  BY DEF IInv, Control
<1> DEFINE n == Len(parts)
<1>4. /\ n \in Nat /\ DOMAIN parts = 1..n /\ Split(parts)
      /\ \A k \in 1..n : PartOK(parts[k])
  <2>1. parts = [k \in 1..Len(parts) |-> parts[k]] /\ Len(parts) \in Nat
        /\ Split(parts) /\ \A k \in DOMAIN parts : PartOK(parts[k])
    BY <1>1 DEF IInv, Cutting
  <2>2. DOMAIN parts = 1..n
    BY <2>1
  <2> QED BY <2>1, <2>2
<1>5. PICK point : /\ \A k \in DOMAIN parts : point[k] \in PivotPoints(Cardinality(parts[k].cells))
                   /\ parts' = [j \in 1..(2 * Len(parts)) |->
                         LET k == (j + 1) \div 2
                         IN  Halves(parts[k], point[k])[IF j = 2 * k THEN 2 ELSE 1]]
  BY DEF CutParts
<1>6. Split(parts') /\ \A j \in 1..(2 * n) : PartOK(parts'[j])
  <2>1. \A k \in 1..n : point[k] \in PivotPoints(Cardinality(parts[k].cells))
    BY <1>4, <1>5
  <2> DEFINE ps == parts
  <2>2. parts' = [j \in 1..(2 * n) |->
                         LET k == (j + 1) \div 2
                         IN  Halves(parts[k], point[k])[IF j = 2 * k THEN 2 ELSE 1]]
    BY <1>5
  <2> HIDE DEF n
  <2> QED BY <1>2, <1>3, <1>4, <2>1, <2>2, CutPartsOK
<1>7. /\ DOMAIN parts' = 1..(2 * n) /\ 2 * n \in Nat
      /\ parts' = [j \in 1..(2 * n) |-> parts'[j]]
  <2>1. 2 * n \in Nat
    BY <1>4
  <2>2. DOMAIN parts' = 1..(2 * n)
    BY <1>5
  <2>3. \E f : parts' = [j \in 1..(2 * n) |-> f[j]]
    <3> DEFINE f == [j \in 1..(2 * n) |->
                         LET k == (j + 1) \div 2
                         IN  Halves(parts[k], point[k])[IF j = 2 * k THEN 2 ELSE 1]]
    <3>1. parts' = f /\ f = [j \in 1..(2 * n) |-> f[j]]
      BY <1>5
    <3> HIDE DEF f
    <3> QED BY <3>1
  <2>4. parts' = [j \in 1..(2 * n) |-> parts'[j]]
    BY <2>3
  <2> QED BY <2>1, <2>2, <2>4
<1> HIDE DEF n
<1>8. Len(parts') = 2 * n
  BY <1>7
<1>9. (\A j \in DOMAIN parts : PartOK(parts[j]))'
  BY <1>1, <1>6, <1>7 DEF PartOK, InPart
<1>10. Cutting'
  BY <1>6, <1>7, <1>8, <1>9 DEF Cutting, Split
<1>11. Control'
  BY <1>1, <1>2, <1>3 DEF Control, IInv, Axes
<1>12. Tables' /\ Refining'
  BY <1>1, <1>2 DEF Tables, Refining
<1>13. UNCHANGED Committed
  BY <1>1 DEF Committed, Busy
<1> QED BY <1>10, <1>11, <1>12, <1>13 DEF IInv

\* A thread at its start.
LEMMA ThreadStateIs ==
    ASSUME NEW p, NEW z, z = ThreadState(p)
    PROVE  /\ DOMAIN z = Fields /\ z.part = p /\ Idle(z)
           /\ z.pass = "cells" /\ z.todo = Movers(p.cells)
<1>1. PICK at, nb : z =
        [part |-> p, local_cell2bel |-> at, net_bounds |-> nb, new_net_bounds |-> nb,
         moved_cells |-> NoMove, status |-> "idle",
         displaced_clusters |-> <<>>, used_bels |-> {}, cursor |-> <<>>,
         pass |-> "cells", m |-> 0, todo |-> Movers(p.cells),
         tile2cell |-> <<>>, swap |-> <<>>]
  BY DEF ThreadState
<1> QED BY <1>1 DEF Fields, Idle

\* A thread starts with its part, and idle.
LEMMA StartIs ==
    ASSUME IInv, StartThreads
    PROVE  IInv' /\ UNCHANGED Committed
<1>1. /\ stage = "cutting" /\ stage' = "refining" /\ axis' = 1 /\ parts' = <<>>
      /\ t' = [i \in DOMAIN parts |-> ThreadState(parts[i])]
      /\ UNCHANGED <<bel, bel_to_cell, iter>>
  BY DEF StartThreads
<1>2. t = <<>> /\ DOMAIN t = {} /\ Tables /\ \A c \in Cells : bel[c] \in CanHold[c] /\ bel[c] \in Bels
  BY <1>1, NoThreads
<1>3. Split(parts) /\ \A i \in DOMAIN parts : PartOK(parts[i])
  BY <1>1 DEF IInv, Cutting
<1>4. DOMAIN t' = DOMAIN parts
  BY <1>1
<1>5. ASSUME NEW i \in DOMAIN parts
      PROVE  t'[i].part = parts[i] /\ t'[i].status = "idle" /\ ThreadOK(bel, t'[i])
  <2> DEFINE z == t'[i]
  <2>1. z = ThreadState(parts[i])
    BY <1>1
  <2> HIDE DEF z
  <2>2. /\ DOMAIN z = Fields /\ z.part = parts[i] /\ Idle(z)
        /\ z.pass = "cells" /\ z.todo = Movers(parts[i].cells)
    BY <2>1, ThreadStateIs
  <2>3. parts[i].cells \subseteq Cells /\ \A c \in parts[i].cells : InPart(parts[i], bel[c])
    BY <1>3 DEF PartOK
  <2>4. ThreadOK(bel, z)
    BY <1>2, <2>2, <2>3, IdleOK
  <2> QED BY <2>2, <2>4 DEF Idle, z
<1>6. PartsOf' = [i \in DOMAIN parts |-> t'[i].part]
  BY <1>4 DEF PartsOf
<1>7. DOMAIN PartsOf' = DOMAIN parts /\ \A i \in DOMAIN parts : PartsOf'[i] = parts[i]
  BY <1>5, <1>6
<1>8. Split(PartsOf')
  <2>1. /\ \A c \in Cells : \E i \in DOMAIN parts : c \in parts[i].cells
        /\ \A i, j \in DOMAIN parts : i # j => Apart(parts[i], parts[j])
    BY <1>3 DEF Split
  <2> QED BY <1>7, <2>1 DEF Split
<1>9. Refining'
  BY <1>1, <1>4, <1>5, <1>8 DEF Refining, Split
<1>10. Control'
  BY <1>1 DEF Control, IInv, Axes
<1>11. Tables' /\ Cutting'
  BY <1>1, <1>2 DEF Tables, Cutting
<1>12. UNCHANGED Committed
  <2>1. Committed = [c \in Cells |-> bel[c]]
    BY <1>2, NobodyBusy
  <2>2. Committed' = [c \in Cells |-> bel'[c]]
    BY <1>4, <1>5, NobodyBusyThen
  <2> QED BY <1>1, <2>1, <2>2
<1> QED BY <1>9, <1>10, <1>11, <1>12 DEF IInv

\* When all threads are through, every cell is on a bel that can hold it.
LEMMA JoinIs ==
    ASSUME IInv, Join
    PROVE  IInv' /\ UNCHANGED Committed
<1>1. /\ stage = "refining" /\ stage' = "between" /\ t' = <<>> /\ iter' = "later"
      /\ \A i \in DOMAIN t : t[i].pass = "over"
      /\ UNCHANGED <<bel, bel_to_cell, parts, axis>>
  BY DEF Join
<1>2. Tables /\ Split(PartsOf) /\ \A i \in DOMAIN t : ThreadOK(bel, t[i])
  BY <1>1 DEF IInv, Refining
<1>3. \A i \in DOMAIN t : t[i].status = "idle"
  BY <1>1, <1>2 DEF ThreadOK, StatusOK
<1>4. ASSUME NEW c \in Cells PROVE bel[c] \in CanHold[c]
  <2>1. PICK i \in DOMAIN t : c \in t[i].part.cells
    BY <1>2 DEF Split, PartsOf
  <2>2. AtHome(t[i].part)
    BY <1>2, <1>3, BetweenMovesAtHome
  <2> QED BY <2>1, <2>2 DEF AtHome
<1>5. Control'
  BY <1>1, <1>4 DEF Control, IInv
<1>6. Tables' /\ Cutting' /\ Refining'
  BY <1>1, <1>2 DEF Tables, Cutting, Refining
<1>7. UNCHANGED Committed
  <2>1. Committed = [c \in Cells |-> bel[c]]
    BY <1>3, NobodyBusy
  <2>2. Committed' = [c \in Cells |-> bel'[c]]
    BY <1>1, NobodyBusyThen
  <2> QED BY <1>1, <2>1, <2>2
<1> QED BY <1>5, <1>6, <1>7 DEF IInv

\* run() returns.
LEMMA ReturnIs ==
    ASSUME IInv, Return
    PROVE  IInv' /\ UNCHANGED Committed
<1>1. /\ stage = "between" /\ stage' = "returned"
      /\ UNCHANGED <<bel, bel_to_cell, iter, parts, axis, t>>
  BY DEF Return
<1>2. t = <<>> /\ Tables
  BY <1>1, NoThreads
<1>3. Control'
  BY <1>1 DEF Control, IInv
<1>4. Tables' /\ Cutting' /\ Refining'
  BY <1>1, <1>2 DEF Tables, Cutting, Refining
<1>5. UNCHANGED Committed
  BY <1>1 DEF Committed, Busy
<1> QED BY <1>3, <1>4, <1>5 DEF IInv

\* Nothing happens.
LEMMA StutterIs ==
    ASSUME IInv, UNCHANGED vars
    PROVE  IInv' /\ UNCHANGED Committed
<1>1. UNCHANGED <<bel, bel_to_cell, iter, stage, parts, axis, t>>
  BY DEF vars
<1>2. PartsOf' = PartsOf
  BY <1>1 DEF PartsOf
<1>3. Tables' /\ Control' /\ Refining'
  BY <1>1, <1>2 DEF IInv, Tables, Control, Refining
<1>4. Cutting'
  BY <1>1 DEF IInv, Cutting, PartOK, InPart
<1>5. UNCHANGED Committed
  BY <1>1 DEF Committed, Busy
<1> QED BY <1>3, <1>4, <1>5 DEF IInv

\* The placement that refinement is given is legal.
LEMMA InitIs ==
    ASSUME Init
    PROVE  IInv /\ Abstract!Legal
<1>1. /\ bel \in [Cells -> Bels] /\ t = <<>> /\ stage = "between" /\ iter = "first"
      /\ parts = <<>> /\ axis = 1 /\ Abstract!Legal
  BY DeviceAssumption DEF Init
<1>2. \A c \in Cells : Committed[c] = bel[c]
  BY <1>1 DEF Committed, Busy
<1>3. /\ \A c \in Cells : bel[c] \in CanHold[c] /\ bel[c] # None
      /\ \A c, d \in Cells : c # d => bel[c] # bel[d]
  BY <1>1, <1>2, LegalIs, DeviceAssumption
<1> DEFINE B(b) == IF \E c \in Cells : bel[c] = b
                   THEN CHOOSE c \in Cells : bel[c] = b ELSE None
<1>4. bel_to_cell = [b \in Bels |-> B(b)]
  BY DEF Init
<1>5. \A c \in Cells : B(bel[c]) = c
  <2> SUFFICES ASSUME NEW c \in Cells PROVE B(bel[c]) = c
    OBVIOUS
  <2>1. B(bel[c]) \in Cells /\ bel[B(bel[c])] = bel[c]
    OBVIOUS
  <2> HIDE DEF B
  <2> QED BY <1>3, <2>1
<1>6. \A b \in Bels : B(b) \in Cells \cup {None} /\ (B(b) # None => bel[B(b)] = b)
  OBVIOUS
<1> HIDE DEF B
<1>7. Tables
  BY <1>1, <1>4, <1>5, <1>6 DEF Tables
<1>8. Control
  BY <1>1, <1>3 DEF Control, Axes
<1>9. Cutting /\ Refining
  BY <1>1 DEF Cutting, Refining
<1> QED BY <1>1, <1>7, <1>8, <1>9 DEF IInv

-----------------------------------------------------------------------------
(* Folding, one member at a time *)

\* Counting up: a set with 0 that has k when it has k - 1 has all numbers to N.
LEMMA CountUp ==
    ASSUME NEW N \in Nat, NEW Q, 0 \in Q, \A k \in 1..N : k - 1 \in Q => k \in Q
    PROVE  \A k \in 0..N : k \in Q
<1> DEFINE Missing == {k \in 0..N : k \notin Q}
<1> SUFFICES ASSUME Missing # {} PROVE FALSE
  OBVIOUS
<1>1. Missing \subseteq Int /\ IsFiniteSet(Missing)
  <2>1. IsFiniteSet(0..N)
    BY FS_Interval
  <2>2. Missing \subseteq 0..N
    OBVIOUS
  <2> QED BY <2>1, <2>2, FS_Subset
<1> DEFINE k == Min(Missing)
<1>2. k \in Missing /\ \A j \in Missing : k <= j
  BY <1>1, LeastMember
<1> HIDE DEF k
<1>3. k \in 1..N /\ k - 1 \in 0..N
  BY <1>2
<1>4. k - 1 \notin Missing
  BY <1>2, <1>3
<1> QED BY <1>2, <1>3, <1>4

\* What a fold over a finite set needs.
Folds(S, X, base, G, pick) ==
    /\ IsFiniteSet(S) /\ base \in X /\ G \in [S \X X -> X]
    /\ \A s \in (SUBSET S) \ {{}} : pick[s] \in s

IsFold(f, S, base, G, pick) ==
    \A s \in SUBSET S :
        f[s] = IF s = {} THEN base ELSE G[<<pick[s], f[s \ {pick[s]}]>>]

\* A fold over a finite set is there, whichever element is taken next.
LEMMA FoldIsThere ==
    ASSUME NEW S, NEW X, NEW base, NEW G, NEW pick, Folds(S, X, base, G, pick)
    PROVE  \E f \in [SUBSET S -> X] : IsFold(f, S, base, G, pick)
<1> DEFINE F == [SUBSET S -> X]
           On(f) == [s \in SUBSET S |->
                        IF s = {} THEN base ELSE G[<<pick[s], f[s \ {pick[s]}]>>]]
           Right(f, k) == \A s \in SUBSET S : Cardinality(s) <= k => f[s] = On(f)[s]
           N == Cardinality(S)
           Q == {k \in 0..N : \E f \in F : Right(f, k)}
<1>0. /\ IsFiniteSet(S) /\ base \in X /\ G \in [S \X X -> X]
      /\ \A s \in (SUBSET S) \ {{}} : pick[s] \in s
  BY DEF Folds
<1>1. N \in Nat /\ \A s \in SUBSET S : IsFiniteSet(s) /\ Cardinality(s) \in 0..N
  <2>1. N \in Nat
    BY <1>0, FS_CardinalityType
  <2>2. ASSUME NEW s \in SUBSET S PROVE IsFiniteSet(s) /\ Cardinality(s) \in 0..N
    <3>1. IsFiniteSet(s) /\ Cardinality(s) <= N
      BY <1>0, FS_Subset
    <3>2. Cardinality(s) \in Nat
      BY <3>1, FS_CardinalityType
    <3> QED BY <2>1, <3>1, <3>2
  <2> QED BY <2>1, <2>2
<1>2. ASSUME NEW f \in F PROVE On(f) \in F
  <2>1. ASSUME NEW s \in SUBSET S, s # {} PROVE G[<<pick[s], f[s \ {pick[s]}]>>] \in X
    <3>1. pick[s] \in S /\ s \ {pick[s]} \in SUBSET S
      BY <1>0, <2>1
    <3> QED BY <1>0, <1>2, <3>1
  <2> QED BY <1>0, <2>1
<1>3. 0 \in Q
  <2> DEFINE f == [s \in SUBSET S |-> base]
  <2>1. f \in F
    BY <1>0
  <2>2. ASSUME NEW s \in SUBSET S, Cardinality(s) <= 0 PROVE s = {}
    BY <1>1, <2>2, FS_EmptySet
  <2>3. Right(f, 0)
    BY <2>2
  <2> HIDE DEF f, On
  <2> QED BY <1>1, <2>1, <2>3
<1>4. ASSUME NEW k \in 1..N, k - 1 \in Q PROVE k \in Q
  <2>1. PICK f \in F : Right(f, k - 1)
    BY <1>4
  <2>2. On(f) \in F
    BY <1>2
  <2>3. ASSUME NEW s \in SUBSET S, Cardinality(s) <= k PROVE On(f)[s] = On(On(f))[s]
    <3>1. CASE s = {}
      BY <3>1
    <3>2. CASE s # {}
      <4>1. pick[s] \in s /\ s \ {pick[s]} \in SUBSET S
        BY <1>0, <3>2
      <4>2. Cardinality(s \ {pick[s]}) = Cardinality(s) - 1
        BY <1>1, <4>1, FS_RemoveElement
      <4>3. Cardinality(s \ {pick[s]}) <= k - 1
        BY <1>1, <2>3, <4>1, <4>2
      <4>4. On(f)[s \ {pick[s]}] = f[s \ {pick[s]}]
        BY <2>1, <4>1, <4>3
      <4>5. On(f)[s] = G[<<pick[s], f[s \ {pick[s]}]>>]
        BY <3>2
      <4>6. On(On(f))[s] = G[<<pick[s], On(f)[s \ {pick[s]}]>>]
        BY <3>2
      <4> QED BY <4>4, <4>5, <4>6
    <3> QED BY <3>1, <3>2
  <2>4. Right(On(f), k)
    BY <2>3
  <2> HIDE DEF On
  <2> QED BY <1>1, <2>2, <2>4
<1>5. N \in Q
  <2> HIDE DEF Q, N
  <2>1. \A k \in 0..N : k \in Q
    BY <1>1, <1>3, <1>4, CountUp
  <2> QED BY <1>1, <2>1
<1>6. PICK f \in F : Right(f, N)
  BY <1>5
<1>7. ASSUME NEW s \in SUBSET S
      PROVE  f[s] = IF s = {} THEN base ELSE G[<<pick[s], f[s \ {pick[s]}]>>]
  <2>1. On(f)[s] = IF s = {} THEN base ELSE G[<<pick[s], f[s \ {pick[s]}]>>]
    OBVIOUS
  <2>2. f[s] = On(f)[s]
    <3>1. Cardinality(s) <= N
      BY <1>1
    <3> HIDE DEF On, N
    <3> QED BY <1>6, <3>1
  <2> HIDE DEF On
  <2> QED BY <2>1, <2>2
<1>8. IsFold(f, S, base, G, pick)
  BY <1>7 DEF IsFold
<1> QED BY <1>8

\* A function on sets of numbers that folds, the greatest number last.
FoldsFrom(N, X, base, G, it) ==
    /\ N \in Nat /\ base \in X /\ G \in [(1..N) \X X -> X] /\ it[{}] = base
    /\ \A s \in SUBSET (1..N) :
          (s # {} /\ it[s \ {Max(s)}] \in X) => it[s] = G[<<Max(s), it[s \ {Max(s)}]>>]

\* What a fold over a sequence does, one element after the other.
LEMMA FoldRuns ==
    ASSUME NEW N, NEW X, NEW base, NEW G, NEW it, FoldsFrom(N, X, base, G, it)
    PROVE  \E h \in [0..N -> X] :
              /\ h[0] = base /\ h[N] = it[1..N]
              /\ \A k \in 1..N : h[k] = G[<<k, h[k - 1]>>]
<1> DEFINE h == [k \in 0..N |-> it[1..k]]
           Q == {k \in 0..N : h[k] \in X}
<1>0. /\ N \in Nat /\ base \in X /\ G \in [(1..N) \X X -> X] /\ it[{}] = base
      /\ \A s \in SUBSET (1..N) :
            (s # {} /\ it[s \ {Max(s)}] \in X) => it[s] = G[<<Max(s), it[s \ {Max(s)}]>>]
  BY DEF FoldsFrom
<1>1. h[0] = base
  <2>1. 1..0 = {}
    OBVIOUS
  <2> QED BY <1>0, <2>1
<1>2. ASSUME NEW k \in 1..N, h[k - 1] \in X PROVE h[k] = G[<<k, h[k - 1]>>] /\ h[k] \in X
  <2>1. 1..k \subseteq 1..N /\ 1..k # {} /\ k - 1 \in 0..N
    BY <1>0
  <2>2. Max(1..k) = k
    <3>1. IsFiniteSet(1..k) /\ 1..k \subseteq Int
      BY FS_Interval
    <3>2. Max(1..k) \in 1..k /\ \A y \in 1..k : y <= Max(1..k)
      BY <2>1, <3>1, GreatestMember
    <3> QED BY <1>0, <3>2
  <2>3. (1..k) \ {k} = 1..(k - 1)
    BY <1>0
  <2>4. it[1..k] = G[<<k, it[1..(k - 1)]>>]
    BY <1>0, <1>2, <2>1, <2>2, <2>3
  <2>5. h[k] = it[1..k] /\ h[k - 1] = it[1..(k - 1)]
    BY <2>1
  <2> HIDE DEF h
  <2>6. <<k, h[k - 1]>> \in (1..N) \X X
    BY <1>2
  <2> QED BY <1>0, <2>4, <2>5, <2>6
<1>3. \A k \in 0..N : k \in Q
  <2>1. 0 \in Q
    BY <1>0, <1>1
  <2>2. ASSUME NEW k \in 1..N, k - 1 \in Q PROVE k \in Q
    <3>1. h[k] \in X
      BY <1>2, <2>2
    <3> HIDE DEF h
    <3> QED BY <3>1
  <2> HIDE DEF Q
  <2> QED BY <1>0, <2>1, <2>2, CountUp
<1>4. h \in [0..N -> X]
  BY <1>3
<1>5. h[N] = it[1..N]
  BY <1>0
<1>6. \A k \in 1..N : h[k] = G[<<k, h[k - 1]>>]
  <2> SUFFICES ASSUME NEW k \in 1..N PROVE h[k] = G[<<k, h[k - 1]>>]
    OBVIOUS
  <2>1. k - 1 \in 0..N
    BY <1>0
  <2>2. h[k - 1] \in X
    BY <1>3, <2>1
  <2> HIDE DEF h
  <2> QED BY <1>2, <2>2
<1> HIDE DEF h
<1> QED BY <1>1, <1>4, <1>5, <1>6

-----------------------------------------------------------------------------
(* The edge of a box *)

\* The lower edge of some pins and how many are on it.
OnEdge(pos, at, count) ==
    /\ \E i \in DOMAIN pos : pos[i] = at
    /\ \A i \in DOMAIN pos : at <= pos[i]
    /\ count = Cardinality({i \in DOMAIN pos : pos[i] = at})

\* When a pin moves and Edge() does not ask for all of them, what it says is right.
LEMMA EdgeMoves ==
    ASSUME NEW L \in Nat, NEW pos \in [1..L -> Int], NEW at \in Int, NEW count,
           OnEdge(pos, at, count), NEW k \in 1..L, NEW new \in Int,
           NEW e, e = Edge(at, count, pos[k], new), e.change # "FULL_RECOMPUTE"
    PROVE  OnEdge([pos EXCEPT ![k] = new], e.at, e.count)
<1> DEFINE p2 == [pos EXCEPT ![k] = new]
           On(p, x) == {i \in 1..L : p[i] = x}
<1>1. p2 \in [1..L -> Int] /\ p2[k] = new /\ \A i \in 1..L : i # k => p2[i] = pos[i]
  OBVIOUS
<1> HIDE DEF p2
<1>2. /\ IsFiniteSet(On(pos, at)) /\ count = Cardinality(On(pos, at))
      /\ \A i \in 1..L : at <= pos[i]
  <2>1. IsFiniteSet(1..L)
    BY FS_Interval
  <2>2. On(pos, at) \subseteq 1..L /\ DOMAIN pos = 1..L
    OBVIOUS
  <2> QED BY <2>1, <2>2, FS_Subset DEF OnEdge
<1>3. count \in Nat /\ count # 0
  <2>1. On(pos, at) # {}
    BY DEF OnEdge
  <2> HIDE DEF On
  <2> QED BY <1>2, <2>1, FS_CardinalityType, FS_EmptySet
<1> SUFFICES /\ \E i \in 1..L : p2[i] = e.at
             /\ \A i \in 1..L : e.at <= p2[i]
             /\ e.count = Cardinality(On(p2, e.at))
  BY <1>1 DEF OnEdge, p2
<1>4. CASE new < at
  <2>1. e.at = new /\ e.count = 1
    BY <1>4 DEF Edge
  <2>2. On(p2, new) = {k}
    BY <1>1, <1>2, <1>4
  <2>3. Cardinality({k}) = 1
    BY FS_Singleton
  <2>4. \A i \in 1..L : new <= p2[i]
    BY <1>1, <1>2, <1>4
  <2> HIDE DEF On
  <2> QED BY <1>1, <2>1, <2>2, <2>3, <2>4
<1>5. CASE new = at /\ pos[k] > at
  <2>1. e.at = at /\ e.count = count + 1
    BY <1>5 DEF Edge
  <2>2. On(p2, at) = On(pos, at) \cup {k} /\ k \notin On(pos, at)
    BY <1>1, <1>5
  <2>3. Cardinality(On(p2, at)) = count + 1
    BY <1>2, <2>2, FS_AddElement
  <2>4. \A i \in 1..L : at <= p2[i]
    BY <1>1, <1>2, <1>5
  <2> HIDE DEF On
  <2> QED BY <1>1, <1>5, <2>1, <2>3, <2>4
<1>6. CASE pos[k] = at /\ new > at
  <2>1. e.at = at /\ e.count = count - 1 /\ count # 1
    BY <1>6 DEF Edge
  <2>2. On(p2, at) = On(pos, at) \ {k} /\ k \in On(pos, at)
    BY <1>1, <1>6
  <2>3. Cardinality(On(p2, at)) = count - 1
    <3> HIDE DEF On
    <3> QED BY <1>2, <2>2, FS_RemoveElement
  <2>4. On(p2, at) # {}
    <3>1. Cardinality(On(p2, at)) # 0
      BY <1>3, <2>1, <2>3
    <3> HIDE DEF On
    <3> QED BY <3>1, FS_EmptySet
  <2>5. \A i \in 1..L : at <= p2[i]
    BY <1>1, <1>2, <1>6
  <2>6. \E i \in 1..L : p2[i] = at
    BY <2>4
  <2> HIDE DEF On
  <2> QED BY <2>1, <2>3, <2>5, <2>6
<1>7. CASE ~(new < at) /\ ~(new = at /\ pos[k] > at) /\ ~(pos[k] = at /\ new > at)
  <2>1. e.at = at /\ e.count = count
    BY <1>7 DEF Edge
  <2>2. (pos[k] = at /\ new = at) \/ (pos[k] > at /\ new > at)
    BY <1>2, <1>7
  <2>3. On(p2, at) = On(pos, at)
    BY <1>1, <2>2
  <2>4. \A i \in 1..L : at <= p2[i]
    BY <1>1, <1>2, <2>2
  <2>5. On(pos, at) # {}
    BY DEF OnEdge
  <2> QED BY <1>2, <2>1, <2>3, <2>4, <2>5
<1> QED BY <1>4, <1>5, <1>6, <1>7

\* The boxes the code can have on an axis.
Changes == {"NO_CHANGE", "CELL_MOVED", "FULL_RECOMPUTE"}
AxisBox == [lo : Int, nlo : Int, hi : Int, nhi : Int, change : Changes]

\* The coordinates upside down, as the upper edge is looked at.
Mirror(pos) == [i \in DOMAIN pos |-> -pos[i]]

\* The box is that of the pins on an axis.
IsBoxOf(b, pos) == OnEdge(pos, b.lo, b.nlo) /\ OnEdge(Mirror(pos), -b.hi, b.nhi)

\* Or it is marked to be computed afresh.
Trusted(b, pos) == b.change # "FULL_RECOMPUTE" => IsBoxOf(b, pos)

\* An edge that stays unmarked has not moved.
LEMMA EdgeTypes ==
    ASSUME NEW at \in Int, NEW count \in Int, NEW old \in Int, NEW new \in Int,
           NEW e, e = Edge(at, count, old, new)
    PROVE  /\ e.at \in Int /\ e.count \in Int /\ e.change \in Changes
           /\ e.change = "NO_CHANGE" => e.at = at /\ e.count = count
<1>1. CASE new < at
  BY <1>1 DEF Edge, Changes
<1>2. CASE ~(new < at) /\ new = at /\ old > at
  BY <1>2 DEF Edge, Changes
<1>3. CASE old = at /\ new > at
  BY <1>3 DEF Edge, Changes
<1>4. CASE ~(new < at) /\ ~(new = at /\ old > at) /\ ~(old = at /\ new > at)
  BY <1>4 DEF Edge, Changes
<1> QED BY <1>1, <1>2, <1>3, <1>4

\* A pin moves and the box follows.
LEMMA PinMovesBox ==
    ASSUME NEW L \in Nat, NEW pos \in [1..L -> Int], NEW b \in AxisBox, Trusted(b, pos),
           NEW k \in 1..L, NEW new \in Int,
           NEW r, r = PinMoves(b, pos[k], new)
    PROVE  /\ r \in AxisBox
           /\ r.change # "FULL_RECOMPUTE" => b.change # "FULL_RECOMPUTE"
           /\ Trusted(r, [pos EXCEPT ![k] = new])
           /\ r.change = "NO_CHANGE" => r = b
<1> DEFINE low == Edge(b.lo, b.nlo, pos[k], new)
           high == Edge(-b.hi, b.nhi, -pos[k], -new)
           seen == {b.change, low.change, high.change}
           change == IF "FULL_RECOMPUTE" \in seen THEN "FULL_RECOMPUTE"
                     ELSE IF "CELL_MOVED" \in seen THEN "CELL_MOVED"
                     ELSE "NO_CHANGE"
<1>1. /\ b.lo \in Int /\ b.nlo \in Int /\ b.hi \in Int /\ b.nhi \in Int /\ b.change \in Changes
      /\ b = [lo |-> b.lo, nlo |-> b.nlo, hi |-> b.hi, nhi |-> b.nhi, change |-> b.change]
  BY DEF AxisBox
<1>2. r = [lo |-> low.at, nlo |-> low.count, hi |-> -high.at, nhi |-> high.count,
           change |-> change]
  BY DEF PinMoves
<1>3. pos[k] \in Int /\ -pos[k] \in Int /\ -new \in Int /\ -b.hi \in Int
  BY <1>1
<1>4. /\ low.at \in Int /\ low.count \in Int /\ low.change \in Changes
      /\ low.change = "NO_CHANGE" => low.at = b.lo /\ low.count = b.nlo
  BY <1>1, <1>3, EdgeTypes, SMTT(60)
<1>5. /\ high.at \in Int /\ high.count \in Int /\ high.change \in Changes
      /\ high.change = "NO_CHANGE" => high.at = -b.hi /\ high.count = b.nhi
  BY <1>1, <1>3, EdgeTypes, SMTT(60)
<1>6. ASSUME OnEdge(pos, b.lo, b.nlo), low.change # "FULL_RECOMPUTE"
      PROVE  OnEdge([pos EXCEPT ![k] = new], low.at, low.count)
  BY <1>1, <1>6, EdgeMoves
<1>7. ASSUME OnEdge(Mirror(pos), -b.hi, b.nhi), high.change # "FULL_RECOMPUTE"
      PROVE  OnEdge(Mirror([pos EXCEPT ![k] = new]), high.at, high.count)
  <2>1. Mirror(pos) \in [1..L -> Int] /\ Mirror(pos)[k] = -pos[k]
    BY DEF Mirror
  <2>2. Mirror([pos EXCEPT ![k] = new]) = [Mirror(pos) EXCEPT ![k] = -new]
    BY DEF Mirror
  <2>3. high = Edge(-b.hi, b.nhi, Mirror(pos)[k], -new)
    BY <2>1
  <2>4. OnEdge([Mirror(pos) EXCEPT ![k] = -new], high.at, high.count)
    BY <1>3, <1>7, <2>1, <2>3, EdgeMoves
  <2> QED BY <2>2, <2>4
<1> HIDE DEF low, high
<1>8. r \in AxisBox
  BY <1>2, <1>4, <1>5 DEF AxisBox, Changes
<1>9. r.change # "FULL_RECOMPUTE" =>
         /\ b.change # "FULL_RECOMPUTE" /\ low.change # "FULL_RECOMPUTE"
         /\ high.change # "FULL_RECOMPUTE"
  BY <1>2
<1>10. Trusted(r, [pos EXCEPT ![k] = new])
  <2> SUFFICES ASSUME r.change # "FULL_RECOMPUTE" PROVE IsBoxOf(r, [pos EXCEPT ![k] = new])
    BY DEF Trusted
  <2>1. OnEdge(pos, b.lo, b.nlo) /\ OnEdge(Mirror(pos), -b.hi, b.nhi)
    BY <1>9 DEF Trusted, IsBoxOf
  <2>2. r.lo = low.at /\ r.nlo = low.count /\ -r.hi = high.at /\ r.nhi = high.count
    BY <1>2, <1>5
  <2> QED BY <1>6, <1>7, <1>9, <2>1, <2>2 DEF IsBoxOf
<1>11. ASSUME r.change = "NO_CHANGE" PROVE r = b
  <2>1. b.change = "NO_CHANGE" /\ low.change = "NO_CHANGE" /\ high.change = "NO_CHANGE"
    BY <1>1, <1>2, <1>4, <1>5, <1>11 DEF Changes
  <2>2. low.at = b.lo /\ low.count = b.nlo /\ -high.at = b.hi /\ high.count = b.nhi
    BY <1>1, <1>4, <1>5, <2>1
  <2> QED BY <1>1, <1>2, <1>11, <2>1, <2>2
<1> QED BY <1>8, <1>9, <1>10, <1>11

\* The coordinates of a net's pins when cells are where 'at' says.
PinsAt(n, at, a) == [i \in 1..Len(Pins[n]) |-> at[Pins[n][i]][a]]

\* Places of cells.
Placed(at, cs) == \A c \in cs : \A a \in Axes : at[c][a] \in Int

\* The box of a net is the one its pins have.
LEMMA BoundsAre ==
    ASSUME NEW n, Pins[n] \in Seq(Cells), Pins[n] # <<>>, NEW at, Placed(at, Range(Pins[n])),
           NEW a \in Axes
    PROVE  /\ PinsAt(n, at, a) \in [1..Len(Pins[n]) -> Int] /\ Len(Pins[n]) \in Nat
           /\ Bounds(n, at)[a] \in AxisBox /\ Bounds(n, at)[a].change = "NO_CHANGE"
           /\ IsBoxOf(Bounds(n, at)[a], PinsAt(n, at, a))
           /\ \A b \in AxisBox : IsBoxOf(b, PinsAt(n, at, a)) =>
                 [b EXCEPT !.change = "NO_CHANGE"] = Bounds(n, at)[a]
<1> DEFINE L == Len(Pins[n])
           pos == PinsAt(n, at, a)
           R == Range(pos)
           On(x) == {i \in 1..L : pos[i] = x}
           Under(x) == {i \in 1..L : Mirror(pos)[i] = -x}
<1>1. L \in Nat /\ L # 0 /\ DOMAIN Pins[n] = 1..L
  OBVIOUS
<1>2. pos \in [1..L -> Int]
  <2>1. \A i \in 1..L : Pins[n][i] \in Range(Pins[n])
    BY <1>1 DEF Range
  <2> QED BY <2>1 DEF PinsAt, Placed
<1>3. Bounds(n, at)[a] = [lo |-> Min(R), nlo |-> Cardinality(On(Min(R))),
                          hi |-> Max(R), nhi |-> Cardinality(On(Max(R))),
                          change |-> "NO_CHANGE"]
  BY <1>1, <1>2 DEF Bounds, PinsAt
<1> HIDE DEF pos
<1>4. R \subseteq Int /\ IsFiniteSet(R) /\ R # {}
  <2>1. R = {pos[i] : i \in 1..L}
    BY <1>2 DEF Range
  <2>2. IsFiniteSet(1..L) /\ 1 \in 1..L
    BY <1>1, FS_Interval
  <2>3. pos \in Surjection(1..L, R)
    BY <1>2, <2>1 DEF Surjection
  <2>4. IsFiniteSet(R)
    BY <2>2, <2>3, FS_Surjection
  <2> HIDE DEF R
  <2> QED BY <1>2, <2>1, <2>2, <2>4
<1>5. /\ Min(R) \in R /\ \A y \in R : Min(R) <= y
      /\ Max(R) \in R /\ \A y \in R : y <= Max(R)
  BY <1>4, LeastMember, GreatestMember
<1>6. \A i \in 1..L : pos[i] \in R
  BY <1>2 DEF Range
<1>7. \A x \in R : \E i \in 1..L : pos[i] = x
  BY <1>2 DEF Range
<1>8. /\ Mirror(pos) \in [1..L -> Int] /\ \A i \in 1..L : Mirror(pos)[i] = -pos[i]
  BY <1>2 DEF Mirror
<1>9. \A x \in Int : Under(x) = On(x)
  BY <1>2, <1>8
<1> DEFINE least == Min(R)
           greatest == Max(R)
<1>9a. /\ least \in Int /\ (\E i \in 1..L : pos[i] = least) /\ \A i \in 1..L : least <= pos[i]
       /\ greatest \in Int /\ (\E i \in 1..L : pos[i] = greatest)
       /\ \A i \in 1..L : pos[i] <= greatest
  <2> HIDE DEF R
  <2> QED BY <1>4, <1>5, <1>6, <1>7
<1> HIDE DEF R, least, greatest
<1>10. \A x \in Int : \A m : OnEdge(pos, x, m) <=> x = least /\ m = Cardinality(On(x))
  <2> SUFFICES ASSUME NEW x \in Int, NEW m
               PROVE  OnEdge(pos, x, m) <=> x = least /\ m = Cardinality(On(x))
    OBVIOUS
  <2>1. (\E i \in 1..L : pos[i] = x) /\ (\A i \in 1..L : x <= pos[i]) <=> x = least
    BY <1>2, <1>9a
  <2>2. DOMAIN pos = 1..L
    BY <1>2
  <2> QED BY <2>1, <2>2 DEF OnEdge
<1>11. \A x \in Int : \A m : OnEdge(Mirror(pos), -x, m) <=> x = greatest /\ m = Cardinality(On(x))
  <2> SUFFICES ASSUME NEW x \in Int, NEW m
               PROVE  OnEdge(Mirror(pos), -x, m) <=> x = greatest /\ m = Cardinality(On(x))
    OBVIOUS
  <2>1. (\E i \in 1..L : pos[i] = x) /\ (\A i \in 1..L : pos[i] <= x) <=> x = greatest
    BY <1>2, <1>9a
  <2>2. DOMAIN Mirror(pos) = 1..L
    BY <1>8
  <2>3. ASSUME NEW i \in 1..L
        PROVE  (Mirror(pos)[i] = -x <=> pos[i] = x) /\ (-x <= Mirror(pos)[i] <=> pos[i] <= x)
    <3>1. pos[i] \in Int /\ Mirror(pos)[i] = -pos[i]
      BY <1>2, <1>8
    <3> QED BY <3>1
  <2>4. OnEdge(Mirror(pos), -x, m) <=>
           /\ \E i \in 1..L : Mirror(pos)[i] = -x
           /\ \A i \in 1..L : -x <= Mirror(pos)[i]
           /\ m = Cardinality(Under(x))
    BY <2>2 DEF OnEdge
  <2> QED BY <1>9, <2>1, <2>3, <2>4
<1> DEFINE box == Bounds(n, at)[a]
<1>12. \A x : IsFiniteSet(On(x)) /\ Cardinality(On(x)) \in Int
  <2> TAKE x
  <2>1. IsFiniteSet(1..L)
    BY <1>1, FS_Interval
  <2>2. IsFiniteSet(On(x))
    BY <2>1, FS_Subset
  <2>3. Cardinality(On(x)) \in Nat
    BY <2>2, FS_CardinalityType
  <2> QED BY <2>2, <2>3
<1> HIDE DEF On
<1>13. /\ box.lo = least /\ box.nlo = Cardinality(On(least))
       /\ box.hi = greatest /\ box.nhi = Cardinality(On(greatest))
       /\ box.change = "NO_CHANGE"
  BY <1>3 DEF least, greatest
<1>14. box \in AxisBox
  BY <1>3, <1>12, <1>13, <1>9a DEF AxisBox, Changes, least, greatest
<1>15. IsBoxOf(box, pos)
  BY <1>10, <1>11, <1>13, <1>9a DEF IsBoxOf
<1>16. ASSUME NEW b \in AxisBox, IsBoxOf(b, pos)
       PROVE  [b EXCEPT !.change = "NO_CHANGE"] = box
  <2>1. /\ b.lo \in Int /\ b.nlo \in Int /\ b.hi \in Int /\ b.nhi \in Int
        /\ b = [lo |-> b.lo, nlo |-> b.nlo, hi |-> b.hi, nhi |-> b.nhi, change |-> b.change]
    BY DEF AxisBox
  <2>2. /\ b.lo = least /\ b.nlo = Cardinality(On(least))
        /\ b.hi = greatest /\ b.nhi = Cardinality(On(greatest))
    BY <1>10, <1>11, <1>16, <2>1 DEF IsBoxOf
  <2>3. [b EXCEPT !.change = "NO_CHANGE"]
          = [lo |-> b.lo, nlo |-> b.nlo, hi |-> b.hi, nhi |-> b.nhi, change |-> "NO_CHANGE"]
    BY <2>1
  <2> QED BY <1>3, <2>2, <2>3 DEF least, greatest
<1> HIDE DEF box
<1> QED BY <1>1, <1>2, <1>13, <1>14, <1>15, <1>16 DEF pos, box

-----------------------------------------------------------------------------
(* The boxes of the nets when cells move *)

\* What a cell's move does to the box of a net on one axis, pin by pin.
OnePin(n, c, old, new, b, k) == IF Pins[n][k] = c THEN PinMoves(b, old, new) ELSE b

BoxAfter(n, c, old, new, box) ==
    FoldLeft(LAMBDA b, d : IF d = c THEN PinMoves(b, old, new) ELSE b, box, Pins[n])

\* The pins of the cell, as far as the k-th.
PinsMoved(n, at, a, c, new, k) ==
    [i \in 1..Len(Pins[n]) |->
        IF i <= k /\ Pins[n][i] = c THEN new ELSE at[Pins[n][i]][a]]

\* Box b of net n on axis a is right or marked, and cell c, when it is on the net,
\* is at 'old'.
BoxReady(n, at, a, c, old, new, b) ==
    /\ Pins[n] \in Seq(Cells) /\ Placed(at, Range(Pins[n]))
    /\ a \in Axes /\ old \in Int /\ new \in Int
    /\ c \in Range(Pins[n]) => at[c][a] = old
    /\ b \in AxisBox /\ Trusted(b, PinsAt(n, at, a))

\* The box of a net on one axis, pin by pin.
PinByPin(n, c, old, new, b0, r, h) ==
    /\ h \in [0..Len(Pins[n]) -> AxisBox] /\ h[0] = b0 /\ h[Len(Pins[n])] = r
    /\ \A k \in 1..Len(Pins[n]) : h[k] = OnePin(n, c, old, new, h[k - 1], k)

\* compute_changes_for_cell() goes pin by pin: there is a box after each of them.
LEMMA BoxAfterRuns ==
    ASSUME NEW n, Pins[n] \in Seq(Cells), NEW c, NEW old \in Int, NEW new \in Int,
           NEW b0 \in AxisBox, NEW r, r = BoxAfter(n, c, old, new, b0)
    PROVE  \E h : PinByPin(n, c, old, new, b0, r, h)
<1> DEFINE N == Len(Pins[n])
           S == 1..N
           G == [x \in S \X AxisBox |-> OnePin(n, c, old, new, x[2], x[1])]
           pick == [s \in (SUBSET S) \ {{}} |-> Max(s)]
           Body(f) == [s \in SUBSET S |->
                         IF s = {} THEN b0 ELSE OnePin(n, c, old, new, f[s \ {Max(s)}], Max(s))]
           it == CHOOSE f : f = Body(f)
<1>1. N \in Nat /\ DOMAIN Pins[n] = S /\ IsFiniteSet(S) /\ S \subseteq Int
  BY FS_Interval
<1>2. r = it[S]
  BY <1>1 DEF BoxAfter, FoldLeft, MapThenFoldSet, OnePin
<1>3. ASSUME NEW b \in AxisBox, NEW o \in Int
      PROVE  PinMoves(b, o, new) \in AxisBox
  <2> DEFINE low == Edge(b.lo, b.nlo, o, new)
             high == Edge(-b.hi, b.nhi, -o, -new)
  <2>1. b.lo \in Int /\ b.nlo \in Int /\ -b.hi \in Int /\ b.nhi \in Int /\ -o \in Int /\ -new \in Int
    BY <1>3 DEF AxisBox
  <2>2. low.at \in Int /\ low.count \in Int
    BY <1>3, <2>1, EdgeTypes, ZenonT(60)
  <2>3. high.at \in Int /\ high.count \in Int
    BY <2>1, EdgeTypes, ZenonT(60)
  <2>4. PinMoves(b, o, new) = [lo |-> low.at, nlo |-> low.count, hi |-> -high.at,
                               nhi |-> high.count, change |-> PinMoves(b, o, new).change]
    BY DEF PinMoves
  <2>5. PinMoves(b, o, new).change \in Changes
    BY DEF PinMoves, Changes
  <2> DEFINE z == PinMoves(b, o, new)
             e == -high.at
  <2>6. e \in Int
    BY <2>3
  <2>7. z = [lo |-> low.at, nlo |-> low.count, hi |-> e, nhi |-> high.count, change |-> z.change]
    BY <2>4
  <2>8. z.change \in Changes
    BY <2>5
  <2> HIDE DEF low, high, z, e
  <2>9. z \in AxisBox
    BY <2>2, <2>3, <2>6, <2>7, <2>8 DEF AxisBox
  <2> QED BY <2>9 DEF z
<1>4. G \in [S \X AxisBox -> AxisBox]
  <2> SUFFICES ASSUME NEW x \in S \X AxisBox
               PROVE  OnePin(n, c, old, new, x[2], x[1]) \in AxisBox
    OBVIOUS
  <2>1. x[2] \in AxisBox
    OBVIOUS
  <2> QED BY <1>3, <2>1 DEF OnePin
<1>5. \A s \in (SUBSET S) \ {{}} : pick[s] \in s /\ pick[s] = Max(s)
  <2> SUFFICES ASSUME NEW s \in (SUBSET S) \ {{}} PROVE Max(s) \in s
    OBVIOUS
  <2>1. IsFiniteSet(s) /\ s \subseteq Int
    BY <1>1, FS_Subset
  <2> QED BY <2>1, GreatestMember
<1>6. it = Body(it)
  <2> HIDE DEF G, pick, S
  <2>1. PICK f \in [SUBSET S -> AxisBox] : IsFold(f, S, b0, G, pick)
    <3>1. \A s \in (SUBSET S) \ {{}} : pick[s] \in s
      BY <1>5
    <3>2. Folds(S, AxisBox, b0, G, pick)
      BY <1>1, <1>4, <3>1 DEF Folds
    <3> HIDE DEF AxisBox, Body, it
    <3> QED BY <3>2, FoldIsThere
  <2>2. ASSUME NEW s \in SUBSET S, s # {}
        PROVE  G[<<pick[s], f[s \ {pick[s]}]>>] = OnePin(n, c, old, new, f[s \ {Max(s)}], Max(s))
    <3>1. pick[s] = Max(s) /\ Max(s) \in S /\ s \ {Max(s)} \in SUBSET S
      BY <1>5, <2>2
    <3>2. <<Max(s), f[s \ {Max(s)}]>> \in S \X AxisBox
      BY <3>1
    <3> QED BY <3>1, <3>2 DEF G
  <2>3. f = Body(f)
    BY <2>1, <2>2 DEF IsFold
  <2> HIDE DEF Body
  <2> QED BY <2>3
<1> HIDE DEF it
<1>7. it[{}] = b0
  <2>1. Body(it)[{}] = b0
    OBVIOUS
  <2> HIDE DEF Body
  <2> QED BY <1>6, <2>1
<1>8. ASSUME NEW s \in SUBSET S, s # {}, it[s \ {Max(s)}] \in AxisBox
      PROVE  it[s] = G[<<Max(s), it[s \ {Max(s)}]>>]
  <2>1. Body(it)[s] = OnePin(n, c, old, new, it[s \ {Max(s)}], Max(s))
    BY <1>8
  <2>2. Max(s) \in S
    BY <1>5, <1>8
  <2>3. G[<<Max(s), it[s \ {Max(s)}]>>] = OnePin(n, c, old, new, it[s \ {Max(s)}], Max(s))
    BY <1>8, <2>2
  <2> HIDE DEF Body, G
  <2> QED BY <1>6, <2>1, <2>3
<1>9. PICK h \in [0..N -> AxisBox] :
         /\ h[0] = b0 /\ h[N] = r
         /\ \A k \in 1..N : h[k] = G[<<k, h[k - 1]>>]
  <2> HIDE DEF G, Body
  <2>1. G \in [(1..N) \X AxisBox -> AxisBox]
    BY <1>4
  <2>2. \A s \in SUBSET (1..N) :
           (s # {} /\ it[s \ {Max(s)}] \in AxisBox) => it[s] = G[<<Max(s), it[s \ {Max(s)}]>>]
    BY <1>8
  <2>3. r = it[1..N]
    BY <1>2
  <2>4. FoldsFrom(N, AxisBox, b0, G, it)
    BY <1>1, <1>7, <2>1, <2>2 DEF FoldsFrom
  <2>5. \E h \in [0..N -> AxisBox] :
           /\ h[0] = b0 /\ h[N] = it[1..N]
           /\ \A k \in 1..N : h[k] = G[<<k, h[k - 1]>>]
    BY <2>4, FoldRuns
  <2> QED BY <2>3, <2>5
<1>10. \A k \in 1..N : h[k] = OnePin(n, c, old, new, h[k - 1], k)
  <2> SUFFICES ASSUME NEW k \in 1..N PROVE h[k] = OnePin(n, c, old, new, h[k - 1], k)
    OBVIOUS
  <2>1. k - 1 \in 0..N
    BY <1>1
  <2>2. <<k, h[k - 1]>> \in S \X AxisBox
    BY <2>1
  <2> QED BY <1>9, <2>2
<1> HIDE DEF G, Body, pick
<1>11. PinByPin(n, c, old, new, b0, r, h)
  BY <1>9, <1>10 DEF PinByPin
<1> QED BY <1>11

\* All pins of a cell have moved: a box that was right is, unless it is marked, and
\* marks do not go away.
LEMMA CellMovesBox ==
    ASSUME NEW n, NEW at, NEW a, NEW c, NEW old, NEW new, NEW b0,
           BoxReady(n, at, a, c, old, new, b0),
           NEW r, r = BoxAfter(n, c, old, new, b0)
    PROVE  /\ r \in AxisBox
           /\ r.change # "FULL_RECOMPUTE" => b0.change # "FULL_RECOMPUTE"
           /\ Trusted(r, PinsMoved(n, at, a, c, new, Len(Pins[n])))
           /\ r.change = "NO_CHANGE" => r = b0
<1> DEFINE N == Len(Pins[n])
           S == 1..N
           pos == PinsAt(n, at, a)
           upto(k) == PinsMoved(n, at, a, c, new, k)
<1>0. /\ Pins[n] \in Seq(Cells) /\ Placed(at, Range(Pins[n]))
      /\ a \in Axes /\ old \in Int /\ new \in Int
      /\ c \in Range(Pins[n]) => at[c][a] = old
      /\ b0 \in AxisBox /\ Trusted(b0, PinsAt(n, at, a))
  BY DEF BoxReady
<1> USE <1>0
<1>1. N \in Nat /\ DOMAIN Pins[n] = S
  OBVIOUS
<1>8. PICK h : PinByPin(n, c, old, new, b0, r, h)
  BY BoxAfterRuns
<1>9. h \in [0..N -> AxisBox] /\ h[0] = b0 /\ h[N] = r
  BY <1>8 DEF PinByPin
<1>10. \A k \in 1..N : h[k] = OnePin(n, c, old, new, h[k - 1], k)
  BY <1>8 DEF PinByPin
<1> DEFINE Follows(k) == /\ h[k].change # "FULL_RECOMPUTE" => b0.change # "FULL_RECOMPUTE"
                         /\ Trusted(h[k], upto(k))
                         /\ h[k].change = "NO_CHANGE" => h[k] = b0
           Q == {k \in 0..N : Follows(k)}
<1>11. \A i \in S : at[Pins[n][i]][a] \in Int
  BY <1>1 DEF Placed, Range
<1>12. 0 \in Q
  <2>1. upto(0) = pos
    BY <1>1 DEF PinsMoved, PinsAt
  <2> QED BY <1>1, <1>9, <2>1
<1>13. ASSUME NEW k \in 1..N, k - 1 \in Q PROVE k \in Q
  <2>1. k \in 0..N /\ k - 1 \in 0..N /\ h[k - 1] \in AxisBox /\ Follows(k - 1)
    BY <1>1, <1>9, <1>13
  <2>2. h[k] = OnePin(n, c, old, new, h[k - 1], k)
    BY <1>10
  <2>3. CASE Pins[n][k] # c
    <3>1. h[k] = h[k - 1]
      BY <2>2, <2>3 DEF OnePin
    <3>2. upto(k) = upto(k - 1)
      <4>1. \A i \in S : (i <= k /\ Pins[n][i] = c) <=> (i <= k - 1 /\ Pins[n][i] = c)
        BY <1>1, <2>3
      <4> QED BY <4>1 DEF PinsMoved
    <3> QED BY <2>1, <3>1, <3>2
  <2>4. CASE Pins[n][k] = c
    <3>1. upto(k - 1) \in [1..N -> Int]
      BY <1>11 DEF PinsMoved
    <3>2. upto(k - 1)[k] = old
      <4>1. c \in Range(Pins[n])
        BY <1>1, <2>4 DEF Range
      <4>2. ~(k <= k - 1)
        OBVIOUS
      <4> QED BY <2>4, <4>1, <4>2 DEF PinsMoved
    <3>3. upto(k) = [upto(k - 1) EXCEPT ![k] = new]
      <4>1. \A i \in S : i # k => ((i <= k /\ Pins[n][i] = c) <=> (i <= k - 1 /\ Pins[n][i] = c))
        BY <1>1
      <4>2. upto(k)[k] = new
        BY <2>4 DEF PinsMoved
      <4> QED BY <3>1, <4>1, <4>2, <2>4 DEF PinsMoved
    <3>4. h[k] = PinMoves(h[k - 1], upto(k - 1)[k], new)
      BY <2>2, <2>4, <3>2 DEF OnePin
    <3>5. Trusted(h[k - 1], upto(k - 1)) /\ N \in Nat
      BY <1>1, <2>1
    <3> HIDE DEF upto, N, AxisBox
    <3>6. /\ h[k].change # "FULL_RECOMPUTE" => h[k - 1].change # "FULL_RECOMPUTE"
          /\ Trusted(h[k], [upto(k - 1) EXCEPT ![k] = new])
          /\ h[k].change = "NO_CHANGE" => h[k] = h[k - 1]
      BY <2>1, <3>1, <3>4, <3>5, PinMovesBox
    <3> QED BY <2>1, <3>3, <3>6
  <2> QED BY <2>3, <2>4
<1>14. Follows(N)
  <2> HIDE DEF Follows
  <2>1. \A k \in 0..N : k \in Q
    <3> HIDE DEF Q
    <3> QED BY <1>1, <1>12, <1>13, CountUp
  <2> QED BY <1>1, <2>1
<1> QED BY <1>1, <1>9, <1>14

\* compute_changes_for_cell() is that for each net and axis.
LEMMA CellChangesAre ==
    ASSUME NEW boxes, NEW c, NEW old, NEW new
    PROVE  compute_changes_for_cell(boxes, c, old, new) =
              [n \in DOMAIN boxes |->
                  [a \in Axes |-> BoxAfter(n, c, old[a], new[a], boxes[n][a])]]
BY DEF compute_changes_for_cell, BoxAfter, FoldLeft, MapThenFoldSet

\* The nets that have a box in a thread.
Boxable(D) == \A n \in D : Pins[n] \in Seq(Cells) /\ Pins[n] # <<>>

BoxTable(D) == [D -> [Axes -> AxisBox]]

\* Each box is right or marked, when cells are where 'at' says.
Tracked(D, boxes, at) ==
    /\ boxes \in BoxTable(D)
    /\ \A n \in D : \A a \in Axes : Trusted(boxes[n][a], PinsAt(n, at, a))

\* A box that was not touched is as it was.
Untouched(D, now, was) ==
    \A n \in D : \A a \in Axes : now[n][a].change = "NO_CHANGE" => now[n][a] = was[n][a]

AllPlaced(D, at) == \A n \in D : Placed(at, Range(Pins[n]))

\* A cell moves, and all the boxes follow.
CellMoves(D, at, c, old, new) ==
    /\ Boxable(D) /\ AllPlaced(D, at)
    /\ \A a \in Axes : old[a] \in Int /\ new[a] \in Int
    /\ \A n \in D : c \in Range(Pins[n]) => at[c] = old

\* One cell has moved: the boxes of all nets follow it.
LEMMA CellMovesBoxes ==
    ASSUME NEW D, NEW boxes, NEW at, Tracked(D, boxes, at),
           NEW c, NEW old, NEW new, CellMoves(D, at, c, old, new),
           NEW to, \A n \in D : \A d \in Range(Pins[n]) : to[d] = IF d = c THEN new ELSE at[d],
           NEW r, r = compute_changes_for_cell(boxes, c, old, new)
    PROVE  Tracked(D, r, to) /\ Untouched(D, r, boxes) /\ AllPlaced(D, to)
<1>1. boxes \in [D -> [Axes -> AxisBox]] /\ DOMAIN boxes = D
  BY DEF Tracked, BoxTable
<1>2. r = [n \in D |-> [a \in Axes |-> BoxAfter(n, c, old[a], new[a], boxes[n][a])]]
  <2>1. r = [n \in DOMAIN boxes |->
               [a \in Axes |-> BoxAfter(n, c, old[a], new[a], boxes[n][a])]]
    BY CellChangesAre
  <2> QED BY <1>1, <2>1
<1>3. ASSUME NEW n \in D, NEW a \in Axes
      PROVE  /\ r[n][a] \in AxisBox
             /\ Trusted(r[n][a], PinsAt(n, to, a))
             /\ r[n][a].change = "NO_CHANGE" => r[n][a] = boxes[n][a]
  <2>1. r[n][a] = BoxAfter(n, c, old[a], new[a], boxes[n][a])
    BY <1>2
  <2>2. /\ boxes[n][a] \in AxisBox /\ Trusted(boxes[n][a], PinsAt(n, at, a))
    BY <1>1 DEF Tracked
  <2>3. /\ Pins[n] \in Seq(Cells) /\ Placed(at, Range(Pins[n]))
        /\ old[a] \in Int /\ new[a] \in Int
        /\ c \in Range(Pins[n]) => at[c][a] = old[a]
    BY DEF CellMoves, Boxable, AllPlaced
  <2>3a. BoxReady(n, at, a, c, old[a], new[a], boxes[n][a])
    BY <2>2, <2>3 DEF BoxReady
  <2>4. /\ r[n][a] \in AxisBox
        /\ Trusted(r[n][a], PinsMoved(n, at, a, c, new[a], Len(Pins[n])))
        /\ r[n][a].change = "NO_CHANGE" => r[n][a] = boxes[n][a]
    BY <2>1, <2>3a, CellMovesBox
  <2>5. PinsMoved(n, at, a, c, new[a], Len(Pins[n])) = PinsAt(n, to, a)
    <3>1. \A i \in 1..Len(Pins[n]) : Pins[n][i] \in Range(Pins[n]) /\ i <= Len(Pins[n])
      BY <2>3 DEF Range
    <3>2. \A i \in 1..Len(Pins[n]) :
             to[Pins[n][i]][a] = IF Pins[n][i] = c THEN new[a] ELSE at[Pins[n][i]][a]
      BY <3>1
    <3> QED BY <3>1, <3>2 DEF PinsMoved, PinsAt
  <2> QED BY <2>4, <2>5
<1>4. r \in BoxTable(D)
  BY <1>2, <1>3 DEF BoxTable
<1>5. AllPlaced(D, to)
  BY DEF AllPlaced, Placed, CellMoves
<1> QED BY <1>3, <1>4, <1>5 DEF Tracked, Untouched

\* The order in which a set is gone through: each member comes once.
LEMMA EachOnce ==
    ASSUME NEW T, IsFiniteSet(T)
    PROVE  /\ Cardinality(T) \in Nat
           /\ SetToSeq(T) \in [1..Cardinality(T) -> T]
           /\ \A i, j \in 1..Cardinality(T) : SetToSeq(T)[i] = SetToSeq(T)[j] => i = j
           /\ \A x \in T : \E i \in 1..Cardinality(T) : SetToSeq(T)[i] = x
<1> DEFINE K == Cardinality(T)
           q == SetToSeq(T)
<1>1. K \in Nat /\ ExistsBijection(1..K, T)
  BY FS_CardinalityType
<1>2. \E f \in [1..K -> T] : IsInjective(f)
  BY <1>1 DEF ExistsBijection, Bijection, Injection
<1>3. q \in [1..K -> T] /\ IsInjective(q)
  BY <1>2 DEF SetToSeq
<1>4. q \in Injection(1..K, T)
  BY <1>3 DEF Injection
<1>5. IsFiniteSet(1..K) /\ Cardinality(1..K) = K
  BY <1>1, FS_Interval
<1>6. q \in Surjection(1..K, T)
  <2> HIDE DEF q, K
  <2> QED BY <1>4, <1>5, FS_Injection DEF K
<1>7. \A x \in T : \E i \in 1..K : q[i] = x
  BY <1>6 DEF Surjection
<1>8. \A i, j \in 1..K : q[i] = q[j] => i = j
  BY <1>3 DEF IsInjective
<1> QED BY <1>1, <1>3, <1>7, <1>8

\* The boxes after the cells of 'to' have moved, one after the other.
BoxesAfter(boxes, from, to) ==
    FoldLeft(LAMBDA bs, c : compute_changes_for_cell(bs, c, from[c], to[c]),
             boxes, SetToSeq(DOMAIN to))

\* The cells that 'to' moves are where 'from' says, and go where there are coordinates.
CellsMove(D, at, from, to) ==
    /\ Boxable(D) /\ AllPlaced(D, at)
    /\ \A n \in D : Range(Pins[n]) \subseteq DOMAIN at
    /\ IsFiniteSet(DOMAIN to)
    /\ \A c \in DOMAIN to : /\ at[c] = from[c]
                            /\ \A a \in Axes : from[c][a] \in Int /\ to[c][a] \in Int

\* All cells of a move have moved: the boxes follow them, whatever the order.
LEMMA CellsMoveBoxes ==
    ASSUME NEW D, NEW boxes, NEW at, Tracked(D, boxes, at),
           NEW from, NEW to, CellsMove(D, at, from, to),
           NEW r, r = BoxesAfter(boxes, from, to)
    PROVE  Tracked(D, r, Put(to, at)) /\ Untouched(D, r, boxes) /\ AllPlaced(D, Put(to, at))
<1> DEFINE T == DOMAIN to
           N == Cardinality(T)
           q == SetToSeq(T)
           S == 1..N
           X == BoxTable(D)
           Then(bs, i) == compute_changes_for_cell(bs, q[i], from[q[i]], to[q[i]])
           G == [x \in S \X X |-> Then(x[2], x[1])]
           pick == [s \in (SUBSET S) \ {{}} |-> Max(s)]
           Body(f) == [s \in SUBSET S |->
                         IF s = {} THEN boxes ELSE Then(f[s \ {Max(s)}], Max(s))]
           it == CHOOSE f : f = Body(f)
           upto(k) == [c \in T \cup DOMAIN at |->
                         IF \E j \in 1..k : q[j] = c THEN to[c] ELSE at[c]]
<1>0. /\ Boxable(D) /\ AllPlaced(D, at) /\ IsFiniteSet(T)
      /\ \A n \in D : Range(Pins[n]) \subseteq DOMAIN at
      /\ \A c \in T : /\ at[c] = from[c]
                      /\ \A a \in Axes : from[c][a] \in Int /\ to[c][a] \in Int
      /\ boxes \in X
  BY DEF CellsMove, Tracked
<1>1. /\ N \in Nat /\ q \in [S -> T]
      /\ \A i, j \in S : q[i] = q[j] => i = j
      /\ \A x \in T : \E i \in S : q[i] = x
  BY <1>0, EachOnce
<1> HIDE DEF q, N
<1>2. IsFiniteSet(S) /\ S \subseteq Int
  BY <1>1, FS_Interval
<1>3. r = it[S]
  <2>1. DOMAIN q = S
    BY <1>1
  <2> QED BY <2>1 DEF BoxesAfter, FoldLeft, MapThenFoldSet, q
<1>4. ASSUME NEW bs \in X, NEW i \in S PROVE Then(bs, i) \in X
  <2> DEFINE c == q[i]
  <2>1. c \in T
    BY <1>1
  <2>2. Then(bs, i) = [n \in D |-> [a \in Axes |->
                          BoxAfter(n, c, from[c][a], to[c][a], bs[n][a])]]
    <3>1. DOMAIN bs = D
      BY <1>4 DEF BoxTable
    <3> HIDE DEF c
    <3> QED BY <3>1, CellChangesAre DEF c
  <2>3. ASSUME NEW n \in D, NEW a \in Axes
        PROVE  BoxAfter(n, c, from[c][a], to[c][a], bs[n][a]) \in AxisBox
    <3>1. Pins[n] \in Seq(Cells) /\ from[c][a] \in Int /\ to[c][a] \in Int
      BY <1>0, <2>1 DEF Boxable
    <3>2. bs[n][a] \in AxisBox
      BY <1>4 DEF BoxTable
    <3>3. PICK h : PinByPin(n, c, from[c][a], to[c][a], bs[n][a],
                            BoxAfter(n, c, from[c][a], to[c][a], bs[n][a]), h)
      BY <3>1, <3>2, BoxAfterRuns
    <3>4. Len(Pins[n]) \in 0..Len(Pins[n])
      BY <3>1
    <3> QED BY <3>3, <3>4 DEF PinByPin
  <2> HIDE DEF c
  <2> QED BY <2>2, <2>3 DEF BoxTable
<1> HIDE DEF Then
<1>5. G \in [S \X X -> X]
  BY <1>4
<1>6. \A s \in (SUBSET S) \ {{}} : pick[s] \in s /\ pick[s] = Max(s)
  <2> SUFFICES ASSUME NEW s \in (SUBSET S) \ {{}} PROVE Max(s) \in s
    OBVIOUS
  <2>1. IsFiniteSet(s) /\ s \subseteq Int
    BY <1>2, FS_Subset
  <2> QED BY <2>1, GreatestMember
<1>7. it = Body(it)
  <2> HIDE DEF G, pick, S
  <2>1. PICK f \in [SUBSET S -> X] : IsFold(f, S, boxes, G, pick)
    <3>1. \A s \in (SUBSET S) \ {{}} : pick[s] \in s
      BY <1>6
    <3>2. Folds(S, X, boxes, G, pick)
      BY <1>0, <1>2, <1>5, <3>1 DEF Folds
    <3> HIDE DEF X, Body, it
    <3> QED BY <3>2, FoldIsThere
  <2>2. ASSUME NEW s \in SUBSET S, s # {}
        PROVE  G[<<pick[s], f[s \ {pick[s]}]>>] = Then(f[s \ {Max(s)}], Max(s))
    <3>1. pick[s] = Max(s) /\ Max(s) \in S /\ s \ {Max(s)} \in SUBSET S
      BY <1>6, <2>2
    <3>2. <<Max(s), f[s \ {Max(s)}]>> \in S \X X
      BY <3>1
    <3> QED BY <3>1, <3>2 DEF G
  <2>3. f = Body(f)
    BY <2>1, <2>2 DEF IsFold
  <2> HIDE DEF Body
  <2> QED BY <2>3
<1> HIDE DEF it
<1>8. it[{}] = boxes
  <2>1. Body(it)[{}] = boxes
    OBVIOUS
  <2> HIDE DEF Body
  <2> QED BY <1>7, <2>1
<1>9. ASSUME NEW s \in SUBSET S, s # {}, it[s \ {Max(s)}] \in X
      PROVE  it[s] = G[<<Max(s), it[s \ {Max(s)}]>>]
  <2>1. Body(it)[s] = Then(it[s \ {Max(s)}], Max(s))
    BY <1>9
  <2>2. Max(s) \in S
    BY <1>6, <1>9
  <2>3. G[<<Max(s), it[s \ {Max(s)}]>>] = Then(it[s \ {Max(s)}], Max(s))
    BY <1>9, <2>2
  <2> HIDE DEF Body, G
  <2> QED BY <1>7, <2>1, <2>3
<1>10. PICK h \in [0..N -> X] :
          /\ h[0] = boxes /\ h[N] = r
          /\ \A k \in 1..N : h[k] = G[<<k, h[k - 1]>>]
  <2> HIDE DEF G, Body, X
  <2>1. G \in [(1..N) \X X -> X]
    BY <1>5
  <2>2. \A s \in SUBSET (1..N) :
           (s # {} /\ it[s \ {Max(s)}] \in X) => it[s] = G[<<Max(s), it[s \ {Max(s)}]>>]
    BY <1>9
  <2>3. r = it[1..N]
    BY <1>3
  <2>4. FoldsFrom(N, X, boxes, G, it)
    BY <1>0, <1>1, <1>8, <2>1, <2>2 DEF FoldsFrom
  <2>5. \E h \in [0..N -> X] :
           /\ h[0] = boxes /\ h[N] = it[1..N]
           /\ \A k \in 1..N : h[k] = G[<<k, h[k - 1]>>]
    BY <2>4, FoldRuns
  <2> QED BY <2>3, <2>5
<1>11. \A k \in 1..N : h[k] = Then(h[k - 1], k)
  <2> SUFFICES ASSUME NEW k \in 1..N PROVE h[k] = Then(h[k - 1], k)
    OBVIOUS
  <2>1. k - 1 \in 0..N
    BY <1>1
  <2>2. <<k, h[k - 1]>> \in S \X X
    BY <1>10, <2>1
  <2> QED BY <1>10, <2>2
<1> HIDE DEF G, Body, pick
<1> DEFINE Follows(k) == /\ Tracked(D, h[k], upto(k)) /\ Untouched(D, h[k], boxes)
                         /\ AllPlaced(D, upto(k))
           Q == {k \in 0..N : Follows(k)}
<1>12. 0 \in Q
  <2>1. \A n \in D : \A c \in Range(Pins[n]) : upto(0)[c] = at[c]
    BY <1>0
  <2>2. AllPlaced(D, upto(0))
    BY <1>0, <2>1 DEF AllPlaced, Placed
  <2>3. ASSUME NEW n \in D, NEW a \in Axes PROVE PinsAt(n, upto(0), a) = PinsAt(n, at, a)
    <3>1. \A j \in 1..Len(Pins[n]) : Pins[n][j] \in Range(Pins[n])
      BY <1>0 DEF Boxable, Range
    <3> HIDE DEF upto
    <3> QED BY <2>1, <3>1 DEF PinsAt
  <2>4. Tracked(D, h[0], upto(0))
    BY <1>10, <2>3 DEF Tracked
  <2>5. Untouched(D, h[0], boxes)
    BY <1>10 DEF Untouched
  <2> QED BY <1>1, <2>2, <2>4, <2>5
<1>13. ASSUME NEW k \in 1..N, k - 1 \in Q PROVE k \in Q
  <2> DEFINE c == q[k]
  <2>1. k \in 0..N /\ k - 1 \in 0..N /\ Follows(k - 1) /\ c \in T
    BY <1>1, <1>13
  <2>2. h[k] = compute_changes_for_cell(h[k - 1], c, from[c], to[c])
    BY <1>11 DEF Then
  <2>3. ASSUME NEW n \in D, NEW d \in Range(Pins[n])
        PROVE  upto(k)[d] = IF d = c THEN to[c] ELSE upto(k - 1)[d]
    <3>1. d \in DOMAIN at
      BY <1>0
    <3>2. (\E j \in 1..k : q[j] = d) <=> d = c \/ \E j \in 1..(k - 1) : q[j] = d
      <4>1. \A j \in 1..k : j = k \/ j \in 1..(k - 1)
        BY <1>1
      <4>2. k \in 1..k /\ \A j \in 1..(k - 1) : j \in 1..k
        BY <1>1
      <4> QED BY <4>1, <4>2
    <3> QED BY <3>1, <3>2
  <2>4. ASSUME NEW n \in D, c \in Range(Pins[n]) PROVE upto(k - 1)[c] = from[c]
    <3>1. ~\E j \in 1..(k - 1) : q[j] = c
      <4>1. \A j \in 1..(k - 1) : j \in S /\ j # k
        BY <1>1
      <4> QED BY <1>1, <4>1
    <3>2. c \in DOMAIN at /\ at[c] = from[c]
      BY <1>0, <2>1, <2>4
    <3> HIDE DEF c
    <3> QED BY <3>1, <3>2
  <2> HIDE DEF upto, c
  <2>5. CellMoves(D, upto(k - 1), c, from[c], to[c])
    BY <1>0, <2>1, <2>4 DEF CellMoves
  <2>6. Tracked(D, h[k - 1], upto(k - 1))
    BY <2>1
  <2>7. Tracked(D, h[k], upto(k)) /\ Untouched(D, h[k], h[k - 1]) /\ AllPlaced(D, upto(k))
    BY <2>2, <2>3, <2>5, <2>6, CellMovesBoxes
  <2>8. Untouched(D, h[k], boxes)
    BY <2>1, <2>7 DEF Untouched
  <2>9. Follows(k)
    BY <2>7, <2>8
  <2> HIDE DEF Follows
  <2> QED BY <2>1, <2>9
<1>14. Follows(N)
  <2> HIDE DEF Follows
  <2>1. \A k \in 0..N : k \in Q
    <3> HIDE DEF Q
    <3> QED BY <1>1, <1>12, <1>13, CountUp
  <2> QED BY <1>1, <2>1
<1>15. Put(to, at) = upto(N)
  <2>1. \A c \in T : \E j \in 1..N : q[j] = c
    BY <1>1
  <2>2. \A j \in 1..N : q[j] \in T
    BY <1>1
  <2> QED BY <2>1, <2>2 DEF Put
<1> HIDE DEF upto
<1> QED BY <1>10, <1>14, <1>15

-----------------------------------------------------------------------------
(* A thread's map and its boxes *)

\* Where the cells of a thread's map were before its move.
Before(s) ==
    Put([c \in DOMAIN s.moved_cells |-> s.moved_cells[c].old], s.local_cell2bel)

\* The thread's map has its cells and those on its nets, all with coordinates, and
\* those of its move where the move takes them.
MapOK(s) ==
    /\ s.local_cell2bel = [c \in DOMAIN s.local_cell2bel |-> s.local_cell2bel[c]]
    /\ s.part.cells \subseteq DOMAIN s.local_cell2bel
    /\ \A n \in DOMAIN s.net_bounds : Range(Pins[n]) \subseteq DOMAIN s.local_cell2bel
    /\ \A c \in DOMAIN s.local_cell2bel : \A a \in Axes : s.local_cell2bel[c][a] \in Int
    /\ \A c \in DOMAIN s.moved_cells :
          /\ c \in DOMAIN s.local_cell2bel
          /\ s.local_cell2bel[c] = s.moved_cells[c].new
          /\ \A a \in Axes : s.moved_cells[c].old[a] \in Int

BoundsOf(D, at) == [n \in D |-> Bounds(n, at)]

\* The committed boxes are those before the move; the new ones follow it, and are
\* the committed ones where it has not changed them.
BoxesOK(s) ==
    /\ DOMAIN s.net_bounds \subseteq Nets \ Skipped
    /\ s.net_bounds = BoundsOf(DOMAIN s.net_bounds, Before(s))
    /\ Tracked(DOMAIN s.net_bounds, s.new_net_bounds, s.local_cell2bel)
    /\ Untouched(DOMAIN s.net_bounds, s.new_net_bounds, s.net_bounds)

Making(s) == MapOK(s) /\ BoxesOK(s)

\* What is known of the new boxes outside planning.
Finished(s) ==
    /\ s.status # "planning" =>
          \A n \in DOMAIN s.net_bounds :
              Settled(s.new_net_bounds[n]) = Bounds(n, s.local_cell2bel)
    /\ s.status = "idle" => \A n \in DOMAIN s.net_bounds : ~Changed(s.new_net_bounds[n])

\* The same map, boxes and move.
SameMap(s, z) ==
    /\ z.part = s.part /\ z.local_cell2bel = s.local_cell2bel
    /\ z.net_bounds = s.net_bounds /\ z.new_net_bounds = s.new_net_bounds
    /\ z.moved_cells = s.moved_cells

\* Nothing else of a thread's state is of matter for its map and boxes.
LEMMA SameMapMakes ==
    ASSUME NEW s, Making(s), NEW z, SameMap(s, z)
    PROVE  Making(z) /\ Before(z) = Before(s)
<1>1. Before(z) = Before(s)
  BY DEF SameMap, Before
<1>2. MapOK(z)
  BY DEF SameMap, Making, MapOK
<1>3. BoxesOK(z)
  <2>1. BoxesOK(s)
    BY DEF Making
  <2>2. /\ z.net_bounds = s.net_bounds /\ z.new_net_bounds = s.new_net_bounds
        /\ z.local_cell2bel = s.local_cell2bel
    BY DEF SameMap
  <2> QED BY <1>1, <2>1, <2>2 DEF BoxesOK
<1> QED BY <1>1, <1>2, <1>3 DEF Making

\* The box of coordinates on an axis.
BoxOf(pos) ==
    LET On(p) == Cardinality({i \in DOMAIN pos : pos[i] = p})
    IN  [lo |-> Min(Range(pos)), nlo |-> On(Min(Range(pos))),
         hi |-> Max(Range(pos)), nhi |-> On(Max(Range(pos))),
         change |-> "NO_CHANGE"]

\* Boxes only depend on where the cells on the net are.
LEMMA BoundsSame ==
    ASSUME NEW n, Pins[n] \in Seq(Cells), NEW at, NEW to,
           \A c \in Range(Pins[n]) : at[c] = to[c]
    PROVE  Bounds(n, at) = Bounds(n, to) /\ \A a \in Axes : PinsAt(n, at, a) = PinsAt(n, to, a)
<1>1. \A i \in DOMAIN Pins[n] : at[Pins[n][i]] = to[Pins[n][i]]
  BY DEF Range
<1>2. \A a \in Axes : [i \in DOMAIN Pins[n] |-> at[Pins[n][i]][a]]
                        = [i \in DOMAIN Pins[n] |-> to[Pins[n][i]][a]]
  BY <1>1
<1>3. Bounds(n, at) = Bounds(n, to)
  <2>1. Bounds(n, at) = [a \in Axes |-> BoxOf([i \in DOMAIN Pins[n] |-> at[Pins[n][i]][a]])]
    BY DEF Bounds, BoxOf
  <2>2. Bounds(n, to) = [a \in Axes |-> BoxOf([i \in DOMAIN Pins[n] |-> to[Pins[n][i]][a]])]
    BY DEF Bounds, BoxOf
  <2> QED BY <1>2, <2>1, <2>2
<1>4. DOMAIN Pins[n] = 1..Len(Pins[n])
  OBVIOUS
<1> QED BY <1>2, <1>3, <1>4 DEF PinsAt

\* The nets of a thread that have boxes.
LEMMA NetsAre ==
    ASSUME NEW D, D \subseteq Nets \ Skipped
    PROVE  Boxable(D)
BY PinsAssumption DEF Boxable

\* Boxes that are the nets' own follow and are not marked.
LEMMA BoundsFollow ==
    ASSUME NEW D, Boxable(D), NEW at, AllPlaced(D, at), NEW boxes, boxes = BoundsOf(D, at)
    PROVE  /\ Tracked(D, boxes, at)
           /\ \A n \in D : ~Changed(boxes[n]) /\ Settled(boxes[n]) = Bounds(n, at)
<1>1. ASSUME NEW n \in D, NEW a \in Axes
      PROVE  /\ boxes[n][a] \in AxisBox /\ boxes[n][a].change = "NO_CHANGE"
             /\ Trusted(boxes[n][a], PinsAt(n, at, a))
             /\ [boxes[n][a] EXCEPT !.change = "NO_CHANGE"] = Bounds(n, at)[a]
  <2>1. Pins[n] \in Seq(Cells) /\ Pins[n] # <<>> /\ Placed(at, Range(Pins[n]))
    BY DEF Boxable, AllPlaced
  <2>2. boxes[n] = Bounds(n, at)
    BY DEF BoundsOf
  <2>3. /\ Bounds(n, at)[a] \in AxisBox /\ Bounds(n, at)[a].change = "NO_CHANGE"
        /\ IsBoxOf(Bounds(n, at)[a], PinsAt(n, at, a))
    BY <2>1, BoundsAre
  <2>4. \A b \in AxisBox : IsBoxOf(b, PinsAt(n, at, a)) =>
           [b EXCEPT !.change = "NO_CHANGE"] = Bounds(n, at)[a]
    BY <2>1, BoundsAre
  <2> QED BY <2>2, <2>3, <2>4 DEF Trusted
<1>2. ASSUME NEW n \in D PROVE boxes[n] = Bounds(n, at) /\ DOMAIN boxes[n] = Axes
  BY DEF BoundsOf, Bounds
<1>3. boxes \in BoxTable(D)
  <2>1. DOMAIN boxes = D /\ boxes = [n \in D |-> boxes[n]]
    BY DEF BoundsOf
  <2>2. \A n \in D : boxes[n] \in [Axes -> AxisBox]
    <3> SUFFICES ASSUME NEW n \in D PROVE boxes[n] \in [Axes -> AxisBox]
      OBVIOUS
    <3>1. boxes[n] = [a \in Axes |-> boxes[n][a]]
      BY DEF BoundsOf, Bounds
    <3> QED BY <1>1, <3>1
  <2> QED BY <2>1, <2>2 DEF BoxTable
<1>4. ASSUME NEW n \in D PROVE Settled(boxes[n]) = Bounds(n, at)
  <2>1. Bounds(n, at) = [a \in Axes |-> Bounds(n, at)[a]]
    BY DEF Bounds
  <2> QED BY <1>1, <2>1 DEF Settled
<1>5. ASSUME NEW n \in D PROVE ~Changed(boxes[n])
  BY <1>1 DEF Changed
<1> QED BY <1>1, <1>3, <1>4, <1>5 DEF Tracked

\* Right boxes, whatever mark they have, settle to the nets' own.
LEMMA TrackedSettle ==
    ASSUME NEW D, Boxable(D), NEW at, AllPlaced(D, at), NEW boxes, Tracked(D, boxes, at),
           NEW n \in D, \A a \in Axes : boxes[n][a].change # "FULL_RECOMPUTE"
    PROVE  Settled(boxes[n]) = Bounds(n, at)
<1>1. ASSUME NEW a \in Axes
      PROVE  [boxes[n][a] EXCEPT !.change = "NO_CHANGE"] = Bounds(n, at)[a]
  <2>1. Pins[n] \in Seq(Cells) /\ Pins[n] # <<>> /\ Placed(at, Range(Pins[n]))
    BY DEF Boxable, AllPlaced
  <2>2. boxes[n][a] \in AxisBox /\ IsBoxOf(boxes[n][a], PinsAt(n, at, a))
    BY DEF Tracked, BoxTable, Trusted
  <2> QED BY <2>1, <2>2, BoundsAre
<1>2. Bounds(n, at) = [a \in Axes |-> Bounds(n, at)[a]]
  BY DEF Bounds
<1> QED BY <1>1, <1>2 DEF Settled

\* A thread's nets have their cells on its map, before the move and after it.
LEMMA NetsPlaced ==
    ASSUME NEW s, MapOK(s), DOMAIN s.net_bounds \subseteq Nets \ Skipped
    PROVE  LET D == DOMAIN s.net_bounds
           IN  Boxable(D) /\ AllPlaced(D, s.local_cell2bel) /\ AllPlaced(D, Before(s))
<1> DEFINE D == DOMAIN s.net_bounds
           was == Before(s)
<1>1. Boxable(D)
  BY NetsAre
<1>2. AllPlaced(D, s.local_cell2bel)
  BY DEF AllPlaced, Placed, MapOK
<1>3. ASSUME NEW c \in DOMAIN s.local_cell2bel, NEW a \in Axes PROVE was[c][a] \in Int
  <2>1. was[c] = IF c \in DOMAIN s.moved_cells THEN s.moved_cells[c].old
                 ELSE s.local_cell2bel[c]
    BY DEF Before, Put
  <2> HIDE DEF was
  <2> QED BY <2>1 DEF MapOK
<1>4. AllPlaced(D, was)
  <2> HIDE DEF was
  <2> QED BY <1>3 DEF AllPlaced, Placed, MapOK
<1> QED BY <1>1, <1>2, <1>4

\* A move that grows: the boxes follow it.
LEMMA GrowMakes ==
    ASSUME NEW s, DOMAIN s = Fields, Making(s), NEW to, IsFiniteSet(DOMAIN to),
           DOMAIN to \subseteq DOMAIN s.local_cell2bel,
           DOMAIN to \cap DOMAIN s.moved_cells = {},
           \A c \in DOMAIN to : /\ s.local_cell2bel[c] = bel[c]
                                /\ \A a \in Axes : to[c][a] \in Int,
           NEW z, z = add_to_move(s, to)
    PROVE  Making(z) /\ Before(z) = Before(s)
<1> DEFINE mv2 == Grown(s.moved_cells, to)
           at == s.local_cell2bel
           at2 == Put(to, at)
           D == DOMAIN s.net_bounds
           nb2 == BoxesAfter(s.new_net_bounds, bel, to)
<1>1. z = [s EXCEPT !.moved_cells = mv2, !.local_cell2bel = at2, !.new_net_bounds = nb2]
  BY DEF add_to_move, Grown, BoxesAfter, FoldLeft, MapThenFoldSet
<1> HIDE DEF mv2, nb2, at2
<1>2. /\ z.moved_cells = mv2 /\ z.local_cell2bel = at2 /\ z.new_net_bounds = nb2
      /\ z.part = s.part /\ z.net_bounds = s.net_bounds
  BY <1>1 DEF Fields
<1>3. /\ \A n \in D : Range(Pins[n]) \subseteq DOMAIN at
      /\ \A c \in DOMAIN at : \A a \in Axes : at[c][a] \in Int
      /\ \A c \in DOMAIN s.moved_cells :
            c \in DOMAIN at /\ at[c] = s.moved_cells[c].new
            /\ \A a \in Axes : s.moved_cells[c].old[a] \in Int
  BY DEF Making, MapOK
<1>4. /\ D \subseteq Nets \ Skipped /\ Tracked(D, s.new_net_bounds, at)
      /\ Untouched(D, s.new_net_bounds, s.net_bounds)
      /\ s.net_bounds = BoundsOf(D, Before(s))
  BY DEF Making, BoxesOK
<1>5. Boxable(D) /\ AllPlaced(D, at)
  BY <1>4, NetsPlaced DEF Making
<1>6. CellsMove(D, at, bel, to)
  BY <1>3, <1>5 DEF CellsMove
<1>7. Tracked(D, nb2, at2) /\ Untouched(D, nb2, s.new_net_bounds)
  BY <1>4, <1>6, CellsMoveBoxes DEF nb2, at2
<1>8. Untouched(D, nb2, s.net_bounds)
  BY <1>4, <1>7 DEF Untouched
<1>9. /\ DOMAIN at2 = DOMAIN at
      /\ \A c \in DOMAIN at : at2[c] = IF c \in DOMAIN to THEN to[c] ELSE at[c]
  BY DEF at2, Put
<1>10. /\ DOMAIN mv2 = DOMAIN to \cup DOMAIN s.moved_cells
       /\ \A c \in DOMAIN to : mv2[c].old = bel[c] /\ mv2[c].new = to[c]
       /\ \A c \in DOMAIN s.moved_cells : mv2[c] = s.moved_cells[c]
  BY DEF mv2, Grown
<1>11. Before(z) = Before(s)
  <2> DEFINE was(v, w) == [c \in DOMAIN v \cup DOMAIN w |-> IF c \in DOMAIN v THEN v[c].old ELSE w[c]]
  <2>1. Before(z) = was(mv2, at2) /\ Before(s) = was(s.moved_cells, at)
    BY <1>2 DEF Before, Put
  <2>2. DOMAIN mv2 \cup DOMAIN at2 = DOMAIN s.moved_cells \cup DOMAIN at
    BY <1>9, <1>10
  <2>3. ASSUME NEW c \in DOMAIN mv2 \cup DOMAIN at2
        PROVE  (IF c \in DOMAIN mv2 THEN mv2[c].old ELSE at2[c])
                 = IF c \in DOMAIN s.moved_cells THEN s.moved_cells[c].old ELSE at[c]
    BY <1>9, <1>10
  <2> QED BY <2>1, <2>2, <2>3
<1>12. MapOK(z)
  <2>1. s.part.cells \subseteq DOMAIN at2
    BY <1>9 DEF Making, MapOK
  <2>2. \A c \in DOMAIN at2 : \A a \in Axes : at2[c][a] \in Int
    BY <1>3, <1>9
  <2>3. ASSUME NEW c \in DOMAIN mv2
        PROVE  c \in DOMAIN at2 /\ at2[c] = mv2[c].new /\ \A a \in Axes : mv2[c].old[a] \in Int
    BY <1>3, <1>9, <1>10
  <2>4. at2 = [c \in DOMAIN at2 |-> at2[c]]
    BY DEF at2, Put
  <2> QED BY <1>2, <1>3, <1>9, <2>1, <2>2, <2>3, <2>4 DEF MapOK
<1>13. BoxesOK(z)
  BY <1>2, <1>4, <1>7, <1>8, <1>11 DEF BoxesOK
<1> QED BY <1>11, <1>12, <1>13 DEF Making

\* A move that has been given up: the boxes are the committed ones again.
LEMMA GiveUpMakes ==
    ASSUME NEW s, DOMAIN s = Fields, Making(s),
           NEW z, z = reset_move_state(RevertLocal(s))
    PROVE  Making(z) /\ Finished(z) /\ Before(z) = Before(s)
<1> DEFINE D == DOMAIN s.net_bounds
           was == Before(s)
           nb == [n \in DOMAIN s.new_net_bounds |->
                    IF Changed(s.new_net_bounds[n]) THEN s.net_bounds[n]
                    ELSE s.new_net_bounds[n]]
<1>1. RevertLocal(s) = [s EXCEPT !.local_cell2bel = was]
  BY DEF RevertLocal, Before
<1> DEFINE y == RevertLocal(s)
<1> HIDE DEF was
<1>2. /\ y.net_bounds = s.net_bounds /\ y.new_net_bounds = s.new_net_bounds
      /\ y.part = s.part /\ y.local_cell2bel = was /\ DOMAIN y = Fields
  BY <1>1 DEF Fields
<1> HIDE DEF y
<1>3. z = [y EXCEPT !.moved_cells = NoMove, !.swap = <<>>, !.status = "idle",
                    !.displaced_clusters = <<>>, !.used_bels = {}, !.cursor = <<>>,
                    !.new_net_bounds = nb]
  BY <1>2 DEF reset_move_state, y
<1>4. DOMAIN s.new_net_bounds = D
  BY DEF Making, BoxesOK, Tracked, BoxTable
<1>5. nb = s.net_bounds
  <2>1. ASSUME NEW n \in D PROVE nb[n] = s.net_bounds[n]
    <3>1. ~Changed(s.new_net_bounds[n]) =>
             \A a \in Axes : s.new_net_bounds[n][a] = s.net_bounds[n][a]
      BY DEF Making, BoxesOK, Untouched, Changed
    <3>2. s.new_net_bounds[n] = [a \in Axes |-> s.new_net_bounds[n][a]]
      BY DEF Making, BoxesOK, Tracked, BoxTable
    <3>3. s.net_bounds[n] = [a \in Axes |-> s.net_bounds[n][a]]
      BY DEF Making, BoxesOK, BoundsOf, Bounds
    <3>4. ~Changed(s.new_net_bounds[n]) => s.new_net_bounds[n] = s.net_bounds[n]
      BY <3>1, <3>2, <3>3
    <3> QED BY <1>4, <3>4
  <2>2. s.net_bounds = [n \in D |-> s.net_bounds[n]]
    BY DEF Making, BoxesOK, BoundsOf
  <2>3. nb = [n \in D |-> nb[n]]
    BY <1>4
  <2> HIDE DEF nb
  <2> QED BY <2>1, <2>2, <2>3
<1> HIDE DEF nb
<1>6. /\ z.moved_cells = NoMove /\ z.part = s.part /\ z.net_bounds = s.net_bounds
      /\ z.new_net_bounds = nb /\ z.local_cell2bel = was /\ z.status = "idle"
  BY <1>2, <1>3 DEF Fields
<1>7. /\ Boxable(D) /\ AllPlaced(D, was) /\ s.net_bounds = BoundsOf(D, was)
      /\ D \subseteq Nets \ Skipped
  BY NetsPlaced DEF Making, BoxesOK, was
<1>8. /\ Tracked(D, s.net_bounds, was)
      /\ \A n \in D : ~Changed(s.net_bounds[n]) /\ Settled(s.net_bounds[n]) = Bounds(n, was)
  BY <1>7, BoundsFollow
<1>9. /\ DOMAIN was = DOMAIN s.local_cell2bel
      /\ \A c \in DOMAIN was : was[c] = IF c \in DOMAIN s.moved_cells
                                        THEN s.moved_cells[c].old ELSE s.local_cell2bel[c]
  BY DEF was, Before, Put, Making, MapOK
<1>10. MapOK(z)
  <2>1. \A c \in DOMAIN was : \A a \in Axes : was[c][a] \in Int
    BY <1>9 DEF Making, MapOK
  <2>2. DOMAIN z.moved_cells = {}
    BY <1>6 DEF NoMove
  <2>3. was = [c \in DOMAIN was |-> was[c]]
    BY DEF was, Before, Put
  <2> QED BY <1>6, <1>9, <2>1, <2>2, <2>3 DEF Making, MapOK
<1>11. Before(z) = was
  <2>1. DOMAIN NoMove = {}
    BY DEF NoMove
  <2>2. was = [c \in DOMAIN was |-> was[c]]
    BY DEF was, Before, Put
  <2>3. Before(z) = [c \in DOMAIN was |-> was[c]]
    BY <1>6, <2>1 DEF Before, Put
  <2> QED BY <2>2, <2>3
<1>12. BoxesOK(z)
  BY <1>5, <1>6, <1>7, <1>8, <1>11 DEF BoxesOK, Untouched
<1>13. Finished(z)
  BY <1>5, <1>6, <1>8 DEF Finished
<1> QED BY <1>10, <1>11, <1>12, <1>13 DEF Making, was

\* A box with another mark.
Marked(b, mark) == [b EXCEPT !.change = mark]

\* The mark says nothing of where the edges are.
LEMMA MarkedIs ==
    ASSUME NEW b \in AxisBox, b.change = "NO_CHANGE", NEW mark \in Changes, NEW pos
    PROVE  /\ Marked(b, mark) \in AxisBox /\ Marked(b, mark).change = mark
           /\ IsBoxOf(b, pos) => IsBoxOf(Marked(b, mark), pos)
           /\ [Marked(b, mark) EXCEPT !.change = "NO_CHANGE"] = b
           /\ mark = "NO_CHANGE" => Marked(b, mark) = b
<1> DEFINE z == Marked(b, mark)
<1>1. /\ b = [lo |-> b.lo, nlo |-> b.nlo, hi |-> b.hi, nhi |-> b.nhi, change |-> b.change]
      /\ b.lo \in Int /\ b.nlo \in Int /\ b.hi \in Int /\ b.nhi \in Int
  BY DEF AxisBox
<1>2. z = [lo |-> b.lo, nlo |-> b.nlo, hi |-> b.hi, nhi |-> b.nhi, change |-> mark]
  BY <1>1 DEF Marked
<1> HIDE DEF z
<1>3. z \in AxisBox
  BY <1>1, <1>2 DEF AxisBox
<1>4. z.lo = b.lo /\ z.nlo = b.nlo /\ z.hi = b.hi /\ z.nhi = b.nhi /\ z.change = mark
  BY <1>2
<1>5. [z EXCEPT !.change = "NO_CHANGE"] = b
  BY <1>1, <1>2
<1>6. mark = "NO_CHANGE" => z = b
  BY <1>1, <1>2
<1>7. IsBoxOf(b, pos) => IsBoxOf(z, pos)
  BY <1>4 DEF IsBoxOf
<1> QED BY <1>3, <1>4, <1>5, <1>6, <1>7 DEF z

\* A move that is complete: all its boxes are right.
LEMMA PlanMakes ==
    ASSUME NEW s, DOMAIN s = Fields, Making(s),
           NEW z, z = [compute_total_change(s) EXCEPT
                         !.status = "planned", !.used_bels = {}, !.cursor = <<>>]
    PROVE  Making(z) /\ Finished(z) /\ Before(z) = Before(s)
<1> DEFINE D == DOMAIN s.net_bounds
           at == s.local_cell2bel
           nb == s.new_net_bounds
           Stale(n) == \E a \in Axes : nb[n][a].change = "FULL_RECOMPUTE"
           Fresh(n) == [a \in Axes |-> Marked(Bounds(n, at)[a], nb[n][a].change)]
           nb2 == [n \in DOMAIN nb |-> IF Stale(n) THEN Fresh(n) ELSE nb[n]]
<1>1. compute_total_change(s) = [s EXCEPT !.new_net_bounds = nb2]
  BY DEF compute_total_change, Marked
<1>2. DOMAIN nb = D
  BY DEF Making, BoxesOK, Tracked, BoxTable
<1>3. \A n \in D : nb2[n] = IF Stale(n) THEN Fresh(n) ELSE nb[n]
  BY <1>2
<1>3a. DOMAIN nb2 = D /\ nb2 = [n \in D |-> nb2[n]]
  BY <1>2
<1> HIDE DEF nb2
<1>4. z = [[s EXCEPT !.new_net_bounds = nb2] EXCEPT
                         !.status = "planned", !.used_bels = {}, !.cursor = <<>>]
  BY <1>1
<1>5. /\ z.moved_cells = s.moved_cells /\ z.part = s.part /\ z.net_bounds = s.net_bounds
      /\ z.new_net_bounds = nb2 /\ z.local_cell2bel = at /\ z.status = "planned"
  BY <1>4 DEF Fields
<1>6. /\ Boxable(D) /\ AllPlaced(D, at) /\ D \subseteq Nets \ Skipped
      /\ s.net_bounds = BoundsOf(D, Before(s))
      /\ Tracked(D, nb, at) /\ Untouched(D, nb, s.net_bounds)
  BY NetsPlaced DEF Making, BoxesOK
<1>7. ASSUME NEW n \in D, NEW a \in Axes
      PROVE  /\ nb[n] \in [Axes -> AxisBox] /\ nb[n][a] \in AxisBox
             /\ nb[n][a].change \in Changes /\ Trusted(nb[n][a], PinsAt(n, at, a))
             /\ nb[n][a].change = "NO_CHANGE" => nb[n][a] = s.net_bounds[n][a]
  BY <1>6 DEF Tracked, BoxTable, Untouched, AxisBox
<1>8. ASSUME NEW n \in D, NEW a \in Axes
      PROVE  /\ Bounds(n, at)[a] \in AxisBox /\ Bounds(n, at)[a].change = "NO_CHANGE"
             /\ IsBoxOf(Bounds(n, at)[a], PinsAt(n, at, a))
             /\ \A b \in AxisBox : IsBoxOf(b, PinsAt(n, at, a)) =>
                   [b EXCEPT !.change = "NO_CHANGE"] = Bounds(n, at)[a]
  <2>1. Pins[n] \in Seq(Cells) /\ Pins[n] # <<>> /\ Placed(at, Range(Pins[n]))
    BY <1>6 DEF Boxable, AllPlaced
  <2> QED BY <2>1, BoundsAre
<1>9. ASSUME NEW n \in D, NEW a \in Axes
      PROVE  /\ Fresh(n)[a] \in AxisBox /\ Trusted(Fresh(n)[a], PinsAt(n, at, a))
             /\ [Fresh(n)[a] EXCEPT !.change = "NO_CHANGE"] = Bounds(n, at)[a]
             /\ Fresh(n)[a].change = "NO_CHANGE" => Fresh(n)[a] = s.net_bounds[n][a]
  <2>1. Fresh(n)[a] = Marked(Bounds(n, at)[a], nb[n][a].change)
    OBVIOUS
  <2> HIDE DEF Fresh
  <2>2. /\ Fresh(n)[a] \in AxisBox /\ Fresh(n)[a].change = nb[n][a].change
        /\ IsBoxOf(Fresh(n)[a], PinsAt(n, at, a))
        /\ [Fresh(n)[a] EXCEPT !.change = "NO_CHANGE"] = Bounds(n, at)[a]
        /\ nb[n][a].change = "NO_CHANGE" => Fresh(n)[a] = Bounds(n, at)[a]
    BY <1>7, <1>8, <2>1, MarkedIs
  <2>3. ASSUME nb[n][a].change = "NO_CHANGE" PROVE nb[n][a] = Bounds(n, at)[a]
    <3>1. IsBoxOf(nb[n][a], PinsAt(n, at, a))
      BY <1>7, <2>3 DEF Trusted
    <3>2. [nb[n][a] EXCEPT !.change = "NO_CHANGE"] = Bounds(n, at)[a]
      BY <1>7, <1>8, <3>1
    <3>3. [nb[n][a] EXCEPT !.change = "NO_CHANGE"] = nb[n][a]
      BY <1>7, <2>3 DEF AxisBox
    <3> QED BY <3>2, <3>3
  <2> QED BY <1>7, <2>2, <2>3 DEF Trusted
<1>10. Tracked(D, nb2, at)
  <2>1. ASSUME NEW n \in D PROVE nb2[n] \in [Axes -> AxisBox]
    <3>1. Fresh(n) \in [Axes -> AxisBox]
      BY <1>9
    <3>2. nb[n] \in [Axes -> AxisBox]
      BY <1>6 DEF Tracked, BoxTable
    <3> QED BY <1>3, <3>1, <3>2
  <2>2. nb2 \in BoxTable(D)
    BY <1>3a, <2>1 DEF BoxTable
  <2>3. ASSUME NEW n \in D, NEW a \in Axes PROVE Trusted(nb2[n][a], PinsAt(n, at, a))
    <3> HIDE DEF Fresh, Stale
    <3> QED BY <1>3, <1>7, <1>9
  <2> QED BY <2>2, <2>3 DEF Tracked
<1>11. Untouched(D, nb2, s.net_bounds)
  <2> SUFFICES ASSUME NEW n \in D, NEW a \in Axes, nb2[n][a].change = "NO_CHANGE"
               PROVE  nb2[n][a] = s.net_bounds[n][a]
    BY DEF Untouched
  <2> DEFINE fresh == Fresh(n)
  <2>1. fresh[a].change = "NO_CHANGE" => fresh[a] = s.net_bounds[n][a]
    BY <1>9
  <2>2. nb[n][a].change = "NO_CHANGE" => nb[n][a] = s.net_bounds[n][a]
    BY <1>7
  <2>3. nb2[n] = fresh \/ nb2[n] = nb[n]
    BY <1>3
  <2> HIDE DEF fresh
  <2> QED BY <2>1, <2>2, <2>3
<1>12. ASSUME NEW n \in D PROVE Settled(nb2[n]) = Bounds(n, at)
  <2>1. CASE Stale(n)
    <3>1. Bounds(n, at) = [a \in Axes |-> Bounds(n, at)[a]]
      BY DEF Bounds
    <3>2. nb2[n] = Fresh(n)
      BY <1>3, <2>1
    <3>3. Settled(Fresh(n)) = [a \in Axes |-> [Fresh(n)[a] EXCEPT !.change = "NO_CHANGE"]]
      BY DEF Settled
    <3> HIDE DEF Fresh, Stale
    <3> QED BY <1>9, <3>1, <3>2, <3>3
  <2>2. CASE ~Stale(n)
    <3>1. nb2[n] = nb[n]
      BY <1>3, <2>2
    <3>2. Settled(nb[n]) = Bounds(n, at)
      BY <1>6, <2>2, TrackedSettle
    <3> QED BY <3>1, <3>2
  <2> QED BY <2>1, <2>2
<1>13. Before(z) = Before(s)
  BY <1>5 DEF Before
<1>14. MapOK(z)
  BY <1>5 DEF Making, MapOK
<1>15. BoxesOK(z)
  BY <1>5, <1>6, <1>10, <1>11, <1>13 DEF BoxesOK
<1>16. Finished(z)
  BY <1>5, <1>12 DEF Finished
<1> QED BY <1>13, <1>14, <1>15, <1>16 DEF Making

\* A move that is committed: its boxes are the committed ones.
LEMMA CommitMakes ==
    ASSUME NEW s, DOMAIN s = Fields, Making(s), Finished(s), s.status # "planning",
           NEW tiles, NEW z,
           z = reset_move_state(commit_move([s EXCEPT !.tile2cell = tiles]))
    PROVE  Making(z) /\ Finished(z) /\ Before(z) = s.local_cell2bel
<1> DEFINE D == DOMAIN s.net_bounds
           at == s.local_cell2bel
           nb == s.new_net_bounds
           x == [s EXCEPT !.tile2cell = tiles]
           nets == [n \in DOMAIN s.net_bounds |->
                      IF Changed(nb[n]) THEN Settled(nb[n]) ELSE s.net_bounds[n]]
           y == [x EXCEPT !.net_bounds = nets]
           nb2 == [n \in DOMAIN nb |-> IF Changed(nb[n]) THEN nets[n] ELSE nb[n]]
<1>1. /\ x.net_bounds = s.net_bounds /\ x.new_net_bounds = nb /\ x.part = s.part
      /\ x.local_cell2bel = at /\ DOMAIN x = Fields
  BY DEF Fields
<1>2. commit_move(x) = y
  <2> HIDE DEF x
  <2> QED BY <1>1 DEF commit_move
<1> HIDE DEF nets
<1>3. /\ y.net_bounds = nets /\ y.new_net_bounds = nb /\ y.part = s.part
      /\ y.local_cell2bel = at /\ DOMAIN y = Fields
  BY <1>1 DEF Fields
<1> HIDE DEF x, y
<1>4. z = [y EXCEPT !.moved_cells = NoMove, !.swap = <<>>, !.status = "idle",
                    !.displaced_clusters = <<>>, !.used_bels = {}, !.cursor = <<>>,
                    !.new_net_bounds = nb2]
  BY <1>2, <1>3 DEF reset_move_state, x
<1> HIDE DEF nb2
<1>5. /\ z.moved_cells = NoMove /\ z.part = s.part /\ z.net_bounds = nets
      /\ z.new_net_bounds = nb2 /\ z.local_cell2bel = at /\ z.status = "idle"
  BY <1>3, <1>4 DEF Fields
<1>6. /\ Boxable(D) /\ AllPlaced(D, at) /\ D \subseteq Nets \ Skipped
      /\ s.net_bounds = BoundsOf(D, Before(s)) /\ nb \in BoxTable(D)
      /\ Untouched(D, nb, s.net_bounds)
  BY NetsPlaced DEF Making, BoxesOK, Tracked
<1>7. ASSUME NEW n \in D
      PROVE  /\ Settled(nb[n]) = Bounds(n, at)
             /\ ~Changed(nb[n]) => nb[n] = s.net_bounds[n] /\ nb[n] = Settled(nb[n])
  <2>1. Settled(nb[n]) = Bounds(n, at)
    BY DEF Finished
  <2>2. nb[n] = [a \in Axes |-> nb[n][a]] /\ \A a \in Axes : nb[n][a] \in AxisBox
    BY <1>6 DEF BoxTable
  <2>3. ASSUME ~Changed(nb[n]) PROVE nb[n] = s.net_bounds[n]
    <3>1. \A a \in Axes : nb[n][a] = s.net_bounds[n][a]
      BY <1>6, <2>3 DEF Untouched, Changed
    <3>2. s.net_bounds[n] = [a \in Axes |-> s.net_bounds[n][a]]
      BY <1>6 DEF BoundsOf, Bounds
    <3> QED BY <2>2, <3>1, <3>2
  <2>4. ASSUME ~Changed(nb[n]) PROVE nb[n] = Settled(nb[n])
    <3>1. \A a \in Axes : [nb[n][a] EXCEPT !.change = "NO_CHANGE"] = nb[n][a]
      <4>1. \A a \in Axes : nb[n][a].change = "NO_CHANGE"
        BY <2>4 DEF Changed
      <4> QED BY <2>2, <4>1 DEF AxisBox
    <3> QED BY <2>2, <3>1 DEF Settled
  <2> QED BY <2>1, <2>3, <2>4
<1>8. nets = BoundsOf(D, at)
  <2>1. \A n \in D : nets[n] = Bounds(n, at)
    BY <1>7 DEF nets
  <2>2. nets = [n \in D |-> nets[n]]
    BY DEF nets
  <2> QED BY <2>1, <2>2 DEF BoundsOf
<1>9. nb2 = nets
  <2>1. DOMAIN nb = D
    BY <1>6 DEF BoxTable
  <2>2. \A n \in D : nb2[n] = nets[n]
    BY <1>7, <2>1 DEF nb2, nets
  <2>3. nb2 = [n \in D |-> nb2[n]] /\ nets = [n \in D |-> nets[n]]
    BY <2>1 DEF nb2, nets
  <2> QED BY <2>2, <2>3
<1>10. /\ Tracked(D, nets, at)
       /\ \A n \in D : ~Changed(nets[n]) /\ Settled(nets[n]) = Bounds(n, at)
  BY <1>6, <1>8, BoundsFollow
<1>11. DOMAIN nets = D
  BY DEF nets
<1>12. MapOK(z)
  <2>1. DOMAIN z.moved_cells = {}
    BY <1>5 DEF NoMove
  <2> QED BY <1>5, <1>11, <2>1 DEF Making, MapOK
<1>13. Before(z) = at
  <2>1. DOMAIN NoMove = {}
    BY DEF NoMove
  <2>2. at = [c \in DOMAIN at |-> at[c]]
    BY DEF Making, MapOK
  <2> QED BY <1>5, <2>1, <2>2 DEF Before, Put
<1>14. BoxesOK(z)
  BY <1>5, <1>6, <1>8, <1>9, <1>10, <1>11, <1>13 DEF BoxesOK, Untouched
<1>15. Finished(z)
  BY <1>5, <1>9, <1>10, <1>11 DEF Finished
<1> QED BY <1>12, <1>13, <1>14, <1>15 DEF Making

-----------------------------------------------------------------------------
(* The steps of a thread keep its map and boxes *)

\* The rectangle of a thread that has cells, and its tiles, have coordinates.
Grounded(s) ==
    s.part.cells # {} =>
        /\ \A a \in Axes : s.part.lo[a] \in Int /\ s.part.hi[a] \in Int
        /\ s.pass = "tiles" => \A x \in DOMAIN s.tile2cell : x[1] \in Int /\ x[2] \in Int

\* A thread's map and boxes, 'at' being CellInfo::bel.
Exact(at, s) ==
    /\ Making(s) /\ Finished(s) /\ Grounded(s)
    /\ \A c \in s.part.cells : Before(s)[c] = HomeOf(at, s, c)

\* A step of thread i that keeps its map and boxes right and commits nothing.
Follows(i) ==
    \E z : /\ t' = [t EXCEPT ![i] = z]
           /\ z.part = t[i].part /\ Before(z) = Before(t[i])
           /\ Making(z) /\ Finished(z) /\ Grounded(z)

\* The state of thread i on the way to the end of a step.
Midway(i, x) ==
    /\ DOMAIN x = Fields /\ Making(x) /\ Before(x) = Before(t[i])
    /\ x.part = t[i].part /\ x.pass = t[i].pass /\ x.tile2cell = t[i].tile2cell

\* The fields that say nothing of where cells are may change.
LEMMA MidwaySame ==
    ASSUME NEW i, NEW x, Midway(i, x), NEW z, DOMAIN z = Fields, SameMap(x, z),
           z.pass = x.pass, z.tile2cell = x.tile2cell
    PROVE  Midway(i, z)
<1>1. Making(z) /\ Before(z) = Before(x)
  BY SameMapMakes DEF Midway
<1> QED BY <1>1 DEF Midway, SameMap

\* A step starts from the state the thread is in.
LEMMA MidwayStart ==
    ASSUME NEW i \in DOMAIN t, DOMAIN t[i] = Fields, Exact(bel, t[i])
    PROVE  Midway(i, t[i])
BY DEF Midway, Exact

\* While nothing is bound, the cells of the part that have not been moved are on
\* the thread's map where they are.
LEMMA UnmovedOnMap ==
    ASSUME IInv, NEW i \in DOMAIN t, t[i].status \in Unbound, Exact(bel, t[i]),
           NEW x, Midway(i, x), NEW c \in t[i].part.cells, c \notin DOMAIN x.moved_cells
    PROVE  c \in DOMAIN x.local_cell2bel /\ x.local_cell2bel[c] = bel[c]
<1>1. c \in DOMAIN x.local_cell2bel
  BY DEF Midway, Making, MapOK
<1>2. Before(x)[c] = x.local_cell2bel[c]
  BY <1>1 DEF Before, Put
<1>3. Before(x)[c] = HomeOf(bel, t[i], c)
  BY DEF Midway, Exact
<1>4. HomeOf(bel, t[i], c) = bel[c]
  BY ThisThread, HomeIsBel
<1> QED BY <1>1, <1>2, <1>3, <1>4

\* The move grows.
LEMMA MidwayGrows ==
    ASSUME IInv, NEW i \in DOMAIN t, t[i].status \in Unbound, Exact(bel, t[i]),
           NEW x, Midway(i, x), NEW to, DOMAIN to \subseteq t[i].part.cells,
           DOMAIN to \cap DOMAIN x.moved_cells = {},
           \A c \in DOMAIN to : \A a \in Axes : to[c][a] \in Int,
           NEW y, y = add_to_move(x, to)
    PROVE  Midway(i, y) /\ Like(x, y) /\ y.status = x.status
           /\ y.moved_cells = Grown(x.moved_cells, to)
<1>1. /\ Like(x, y) /\ y.moved_cells = Grown(x.moved_cells, to) /\ y.status = x.status
  BY AddToMoveIs DEF Midway
<1>2. \A c \in DOMAIN to : c \in DOMAIN x.local_cell2bel /\ x.local_cell2bel[c] = bel[c]
  BY UnmovedOnMap
<1>3. IsFiniteSet(DOMAIN to)
  <2>1. DOMAIN to \subseteq Cells
    BY ThisThread DEF ThreadOK
  <2> QED BY <2>1, DeviceAssumption, FS_Subset
<1>4. DOMAIN to \subseteq DOMAIN x.local_cell2bel
  BY <1>2
<1>5. DOMAIN x = Fields /\ Making(x)
  BY DEF Midway
<1>6. Making(y) /\ Before(y) = Before(x)
  BY <1>2, <1>3, <1>4, <1>5, GrowMakes
<1> QED BY <1>1, <1>6 DEF Midway, Like

\* Coordinates depend on the part and the tiles only.
LEMMA GroundedSame ==
    ASSUME NEW s, Grounded(s), NEW z, z.part = s.part, z.pass = s.pass,
           z.tile2cell = s.tile2cell
    PROVE  Grounded(z)
BY DEF Grounded

\* The move is complete.
LEMMA PlanFollows ==
    ASSUME NEW i \in DOMAIN t, Exact(bel, t[i]), NEW x, Midway(i, x), Plan(i, x)
    PROVE  Follows(i)
<1> DEFINE z == [compute_total_change(x) EXCEPT
                   !.status = "planned", !.used_bels = {}, !.cursor = <<>>]
<1>1. t' = [t EXCEPT ![i] = z]
  BY DEF Plan
<1>2. DOMAIN x = Fields /\ Making(x) /\ Grounded(t[i])
  BY DEF Midway, Exact
<1>3. Making(z) /\ Finished(z) /\ Before(z) = Before(x)
  BY <1>2, PlanMakes
<1>4. PICK y : t' = [t EXCEPT ![i] = y] /\ Like(x, y)
  BY <1>2, PlanIs
<1> HIDE DEF z
<1>5. y = z
  BY <1>1, <1>4
<1>6. z.part = t[i].part /\ z.pass = t[i].pass /\ z.tile2cell = t[i].tile2cell
  BY <1>4, <1>5 DEF Like, Midway
<1>7. Grounded(z)
  BY <1>2, <1>6, GroundedSame
<1> QED BY <1>1, <1>3, <1>6, <1>7 DEF Follows, Midway

\* The move is given up.
LEMMA GiveUpFollows ==
    ASSUME NEW i \in DOMAIN t, Exact(bel, t[i]), NEW x, Midway(i, x), GiveUp(i, x)
    PROVE  Follows(i)
<1> DEFINE z == reset_move_state(RevertLocal(x))
<1>1. t' = [t EXCEPT ![i] = z]
  BY DEF GiveUp
<1>2. DOMAIN x = Fields /\ Making(x) /\ Grounded(t[i])
  BY DEF Midway, Exact
<1>3. Making(z) /\ Finished(z) /\ Before(z) = Before(x)
  BY <1>2, GiveUpMakes
<1>4. PICK y : t' = [t EXCEPT ![i] = y] /\ Like(x, y)
  BY <1>2, GiveUpIs
<1> HIDE DEF z
<1>5. y = z
  BY <1>1, <1>4
<1>6. z.part = t[i].part /\ z.pass = t[i].pass /\ z.tile2cell = t[i].tile2cell
  BY <1>4, <1>5 DEF Like, Midway
<1>7. Grounded(z)
  BY <1>2, <1>6, GroundedSame
<1> QED BY <1>1, <1>3, <1>6, <1>7 DEF Follows, Midway

\* The move is not complete yet.
LEMMA PlanningFollows ==
    ASSUME NEW i \in DOMAIN t, Exact(bel, t[i]), NEW x, Midway(i, x),
           x.status = "planning", t' = [t EXCEPT ![i] = x]
    PROVE  Follows(i)
<1>1. Grounded(x)
  BY GroundedSame DEF Midway, Exact
<1>2. Finished(x)
  BY DEF Finished
<1> QED BY <1>1, <1>2 DEF Follows, Midway

\* A thread that neither plans nor changes its map.
LEMMA SameFollows ==
    ASSUME NEW i \in DOMAIN t, Exact(bel, t[i]), NEW z, SameMap(t[i], z),
           t' = [t EXCEPT ![i] = z], Grounded(z), z.status # "planning",
           t[i].status # "planning", z.status = "idle" => t[i].status = "idle"
    PROVE  Follows(i)
<1>1. Making(z) /\ Before(z) = Before(t[i])
  BY SameMapMakes DEF Exact
<1>2. Finished(z)
  BY DEF Exact, Finished, SameMap
<1> QED BY <1>1, <1>2 DEF Follows, SameMap

\* A cell whose own bel was drawn is skipped.
LEMMA SkipFollows ==
    ASSUME IInv, NEW i \in DOMAIN t, Exact(bel, t[i]), Skip(i)
    PROVE  Follows(i)
<1>1. ThreadOK(bel, t[i]) /\ DOMAIN t[i] = Fields /\ t[i].status = "idle"
  BY ThisThread DEF Skip, ThreadOK
<1>2. PICK c : t' = [t EXCEPT ![i].todo = @ \ {c}]
  BY DEF Skip
<1> DEFINE z == [t[i] EXCEPT !.todo = @ \ {c}]
<1>3. t' = [t EXCEPT ![i] = z]
  BY <1>2
<1>4. /\ z.part = t[i].part /\ z.pass = t[i].pass /\ z.tile2cell = t[i].tile2cell
      /\ z.status = t[i].status /\ SameMap(t[i], z)
  BY <1>1 DEF Fields, SameMap
<1> HIDE DEF z
<1>5. Grounded(z)
  BY <1>4, GroundedSame DEF Exact
<1> QED BY <1>1, <1>3, <1>4, <1>5, SameFollows

\* The pass over the cells is over; the tiles are taken from the part.
LEMMA CellsDoneFollows ==
    ASSUME IInv, NEW i \in DOMAIN t, Exact(bel, t[i]), CellsDone(i)
    PROVE  Follows(i)
<1> DEFINE s == t[i]
           At(tile) == {c \in s.part.cells : TileOf(bel[c]) = tile}
           tiles == (s.part.lo[1]..s.part.hi[1]) \X (s.part.lo[2]..s.part.hi[2])
           t2c == [x \in tiles |-> At(x)]
           todo == {x \in tiles : At(x) # {}}
           z == [s EXCEPT !.pass = "tiles", !.tile2cell = t2c, !.todo = todo]
<1>1. /\ s.status = "idle" /\ s.pass = "cells"
      /\ t' = [t EXCEPT ![i] = NextPass(s)] \/ t' = [t EXCEPT ![i] = z]
  BY DEF CellsDone
<1>2. DOMAIN s = Fields
  BY ThisThread DEF ThreadOK
<1>3. CASE t' = [t EXCEPT ![i] = NextPass(s)]
  <2> DEFINE y == NextPass(s)
  <2>1. /\ SameMap(s, y) /\ y.status = "idle" /\ y.pass \in {"cells", "over"}
    BY <1>1, <1>2 DEF NextPass, SameMap, Fields
  <2>2. t' = [t EXCEPT ![i] = y]
    BY <1>3
  <2> HIDE DEF y
  <2>3. Grounded(y)
    BY <2>1 DEF Grounded, Exact, SameMap
  <2> QED BY <1>1, <2>1, <2>2, <2>3, SameFollows
<1>4. CASE t' = [t EXCEPT ![i] = z]
  <2>1. DOMAIN t2c = tiles
    OBVIOUS
  <2>2. ASSUME s.part.cells # {}, NEW x \in tiles PROVE x[1] \in Int /\ x[2] \in Int
    OBVIOUS
  <2> HIDE DEF t2c, todo, tiles
  <2>3. /\ SameMap(s, z) /\ z.status = "idle" /\ z.tile2cell = t2c /\ z.part = s.part
    BY <1>1, <1>2 DEF SameMap, Fields
  <2> HIDE DEF z
  <2>4. Grounded(z)
    BY <2>1, <2>2, <2>3 DEF Grounded, Exact
  <2> QED BY <1>1, <1>4, <2>3, <2>4, SameFollows
<1> QED BY <1>1, <1>3, <1>4

\* The pass over the tiles is over.
LEMMA TilesDoneFollows ==
    ASSUME IInv, NEW i \in DOMAIN t, Exact(bel, t[i]), TilesDone(i)
    PROVE  Follows(i)
<1> DEFINE s == [t[i] EXCEPT !.tile2cell = <<>>]
           z == NextPass(s)
<1>1. t[i].status = "idle" /\ t' = [t EXCEPT ![i] = z]
  BY DEF TilesDone
<1>2. DOMAIN t[i] = Fields
  BY ThisThread DEF ThreadOK
<1>3. SameMap(t[i], s) /\ s.status = "idle" /\ DOMAIN s = Fields
  BY <1>1, <1>2 DEF SameMap, Fields
<1> HIDE DEF s
<1>4. SameMap(s, z) /\ z.status = "idle" /\ z.pass \in {"cells", "over"}
  BY <1>3 DEF NextPass, SameMap, Fields
<1> HIDE DEF z
<1>5. SameMap(t[i], z)
  BY <1>3, <1>4 DEF SameMap
<1>6. Grounded(z)
  BY <1>4, <1>5 DEF Grounded, Exact, SameMap
<1> QED BY <1>1, <1>4, <1>5, <1>6, SameFollows

\* bind_move() does not look at the map.
LEMMA BindFollows ==
    ASSUME IInv, NEW i \in DOMAIN t, Exact(bel, t[i]), bind_move(i)
    PROVE  Follows(i)
<1>1. t[i].status = "planned" /\ \E st \in {"bound", "fail"} : t' = [t EXCEPT ![i].status = st]
  BY DEF bind_move
<1>2. DOMAIN t[i] = Fields
  BY ThisThread DEF ThreadOK
<1>3. PICK st \in {"bound", "fail"} : t' = [t EXCEPT ![i].status = st]
  BY <1>1
<1> DEFINE z == [t[i] EXCEPT !.status = st]
<1>4. t' = [t EXCEPT ![i] = z]
  BY <1>3
<1>5. /\ SameMap(t[i], z) /\ z.status = st
      /\ z.part = t[i].part /\ z.pass = t[i].pass /\ z.tile2cell = t[i].tile2cell
  BY <1>2 DEF SameMap, Fields
<1> HIDE DEF z
<1>6. Grounded(z)
  BY <1>5, GroundedSame DEF Exact
<1> QED BY <1>1, <1>3, <1>4, <1>5, <1>6, SameFollows

\* revert_move() puts the map back too.
LEMMA RevertFollows ==
    ASSUME IInv, NEW i \in DOMAIN t, Exact(bel, t[i]), RevertMove(i)
    PROVE  Follows(i)
<1>1. GiveUp(i, t[i])
  BY DEF RevertMove, GiveUp
<1>2. DOMAIN t[i] = Fields
  BY ThisThread DEF ThreadOK
<1> QED BY <1>1, <1>2, MidwayStart, GiveUpFollows

\* The coordinates of bels a cell may be on.
LEMMA HoldCoordinates ==
    ASSUME NEW c \in Cells, NEW b \in CanHold[c]
    PROVE  b \in Bels /\ b # None /\ \A a \in Axes : b[a] \in Int
<1>1. b \in Bels
  BY DeviceAssumption
<1> QED BY <1>1, BelCoordinates, DeviceAssumption

\* One or two cells move on the map.
LEMMA SwapCellFollows ==
    ASSUME IInv, NEW i \in DOMAIN t, Exact(bel, t[i]), SwapCell(i)
    PROVE  Follows(i)
<1> DEFINE old == t[i]
           p == t[i].part
<1>1. /\ ThreadOK(bel, old) /\ Tables /\ old.status = "idle" /\ old.pass = "cells"
      /\ DOMAIN old = Fields /\ p.cells \subseteq Cells /\ AtHome(p)
  BY ThisThread, BetweenMovesAtHome DEF SwapCell, ThreadOK
<1>2. PICK c \in old.todo :
        \E b \in RandomBels(old, c) \ {bel[c]} :
            LET bound == bel_to_cell[b]
                s == add_to_move([old EXCEPT !.todo = @ \ {c}],
                                 [d \in {c, bound} \ {None} |-> IF d = c THEN b ELSE bel[c]])
            IN  Plan(i, s) \/ GiveUp(i, s)
  BY DEF SwapCell
<1>3. PICK b \in RandomBels(old, c) \ {bel[c]} :
            LET bound == bel_to_cell[b]
                s == add_to_move([old EXCEPT !.todo = @ \ {c}],
                                 [d \in {c, bound} \ {None} |-> IF d = c THEN b ELSE bel[c]])
            IN  Plan(i, s) \/ GiveUp(i, s)
  BY <1>2
<1> DEFINE bound == bel_to_cell[b]
           s0 == [old EXCEPT !.todo = @ \ {c}]
           to == [d \in {c, bound} \ {None} |-> IF d = c THEN b ELSE bel[c]]
           s == add_to_move(s0, to)
<1>4. Plan(i, s) \/ GiveUp(i, s)
  BY <1>3
<1>5. c \in p.cells /\ c \in Cells /\ bel[c] \in CanHold[c] /\ InPart(p, bel[c])
  BY <1>1, TriedCell
<1>6. b \in CanHold[c] /\ InPart(p, b) /\ b \in Bels /\ b # None
  BY <1>5, DeviceAssumption DEF RandomBels
<1>7. bound # None => bound \in p.cells
  <2>1. bound # None => bound \in Cells /\ bel[bound] = b
    BY <1>1, <1>6 DEF Tables
  <2> QED BY <1>5, <1>6, <2>1, BoundInPart
<1>8. /\ DOMAIN s0 = Fields /\ SameMap(old, s0)
      /\ s0.pass = old.pass /\ s0.tile2cell = old.tile2cell /\ s0.moved_cells = NoMove
  <2>1. old.moved_cells = NoMove
    BY <1>1 DEF ThreadOK, StatusOK
  <2> QED BY <1>1, <2>1 DEF SameMap, Fields
<1> HIDE DEF s0
<1>9. Midway(i, s0)
  BY <1>1, <1>8, MidwayStart, MidwaySame
<1>10. /\ DOMAIN to \subseteq p.cells
       /\ \A d \in DOMAIN to : \A a \in Axes : to[d][a] \in Int
  <2>1. DOMAIN to \subseteq {c, bound} \ {None}
    OBVIOUS
  <2>2. \A d \in DOMAIN to : to[d] \in {b, bel[c]}
    OBVIOUS
  <2> HIDE DEF to, bound
  <2>3. \A a \in Axes : b[a] \in Int /\ bel[c][a] \in Int
    BY <1>5, <1>6, HoldCoordinates
  <2> QED BY <1>5, <1>7, <2>1, <2>2, <2>3
<1>11. DOMAIN to \cap DOMAIN s0.moved_cells = {}
  BY <1>8, NoMoveOK
<1> HIDE DEF to
<1>12. Midway(i, s)
  BY <1>1, <1>9, <1>10, <1>11, MidwayGrows DEF Unbound
<1> HIDE DEF s
<1> QED BY <1>4, <1>12, PlanFollows, GiveUpFollows

\* A chain of clusters starts.
LEMMA SwapClusterFollows ==
    ASSUME IInv, NEW i \in DOMAIN t, Exact(bel, t[i]), SwapCluster(i)
    PROVE  Follows(i)
<1>1. DOMAIN t[i] = Fields
  BY ThisThread DEF ThreadOK
<1>2. PICK c, b :
        LET s == [t[i] EXCEPT !.todo = @ \ {c}]
        IN  \/ t' = [t EXCEPT ![i] = [s EXCEPT !.status = "planning",
                                              !.cursor = <<c, b, 0>>]]
            \/ GiveUp(i, s)
  BY DEF SwapCluster
<1> DEFINE s == [t[i] EXCEPT !.todo = @ \ {c}]
           z == [s EXCEPT !.status = "planning", !.cursor = <<c, b, 0>>]
<1>3. t' = [t EXCEPT ![i] = z] \/ GiveUp(i, s)
  BY <1>2
<1>4. /\ DOMAIN s = Fields /\ SameMap(t[i], s)
      /\ s.pass = t[i].pass /\ s.tile2cell = t[i].tile2cell
  BY <1>1 DEF SameMap, Fields
<1> HIDE DEF s
<1>5. /\ DOMAIN z = Fields /\ SameMap(s, z) /\ z.status = "planning"
      /\ z.pass = s.pass /\ z.tile2cell = s.tile2cell
  BY <1>4 DEF SameMap, Fields
<1> HIDE DEF z
<1>6. Midway(i, s)
  BY <1>1, <1>4, MidwayStart, MidwaySame
<1>7. Midway(i, z)
  BY <1>5, <1>6, MidwaySame
<1> QED BY <1>3, <1>5, <1>6, <1>7, PlanningFollows, GiveUpFollows

\* After a member of a cluster.
LEMMA OnwardFollows ==
    ASSUME IInv, NEW i \in DOMAIN t, Exact(bel, t[i]), NEW x, Midway(i, x),
           x.status = "planning", Onward(i, x)
    PROVE  Follows(i)
<1>1. DOMAIN x = Fields
  BY DEF Midway
<1> DEFINE y == [x EXCEPT !.cursor[3] = @ + 1]
           next == Head(x.displaced_clusters)
           z == [x EXCEPT !.cursor = <<next[1], next[2], 0>>,
                          !.displaced_clusters = Tail(@)]
<1>2. \/ t' = [t EXCEPT ![i] = y]
      \/ t' = [t EXCEPT ![i] = z]
      \/ Plan(i, x) \/ GiveUp(i, x)
  BY DEF Onward
<1>3. /\ DOMAIN y = Fields /\ SameMap(x, y) /\ y.status = "planning"
      /\ y.pass = x.pass /\ y.tile2cell = x.tile2cell
  BY <1>1 DEF SameMap, Fields
<1> HIDE DEF y
<1>4. /\ DOMAIN z = Fields /\ SameMap(x, z) /\ z.status = "planning"
      /\ z.pass = x.pass /\ z.tile2cell = x.tile2cell
  BY <1>1 DEF SameMap, Fields
<1> HIDE DEF z
<1>5. Midway(i, y) /\ Midway(i, z)
  BY <1>3, <1>4, MidwaySame
<1> QED BY <1>2, <1>3, <1>4, <1>5, PlanFollows, GiveUpFollows, PlanningFollows

\* A member of a cluster moves on the map, and a cell in its way.
LEMMA DisplaceFollows ==
    ASSUME IInv, NEW i \in DOMAIN t, Exact(bel, t[i]), Displace(i)
    PROVE  Follows(i)
<1> DEFINE s == t[i]
           r == s.cursor[1]
           k == s.cursor[3]
           c == Member(r, k)
           new == PlaceOf(r, s.cursor[2], k)
           old == bel[c]
           bound == bel_to_cell[new]
           toNew == [d \in {c} |-> new]
           toOld == [d \in {bound} |-> old]
           added == add_to_move(s, toNew)
           entered == [added EXCEPT !.used_bels = @ \cup {new}]
           both == add_to_move(entered, toOld)
           root == Shift(old, [j \in 1..3 |-> bel[RootOf[bound]][j] - bel[bound][j]])
           x == [both EXCEPT !.used_bels = @ \cup {old}]
           y == [entered EXCEPT !.displaced_clusters = Append(@, <<RootOf[bound], root>>)]
           Enters == c \notin DOMAIN s.moved_cells /\ MayMove(s, c, new)
           Yields == bound # None /\ bound \notin DOMAIN s.moved_cells \cup {c}
<1>1. /\ s.status = "planning"
      /\ \/ Enters /\ Onward(i, entered)
         \/ Enters /\ Yields /\ Onward(i, x)
         \/ Enters /\ Onward(i, y)
         \/ GiveUp(i, s)
  BY DEF Displace
<1>2. /\ ThreadOK(bel, s) /\ Tables /\ DOMAIN s = Fields /\ PlanningOK(s)
      /\ s.part.cells \subseteq Cells /\ s.status \in Unbound
  BY <1>1, ThisThread DEF ThreadOK, Unbound
<1>3. Mine(s.part, r) /\ s.cursor[2] \in Bels /\ k \in 0..Len(Children[r])
  BY <1>2 DEF PlanningOK
<1>4. /\ r \in DOMAIN Children /\ c \in Cells /\ RootOf[c] = r
  BY <1>3, MemberIs DEF Mine
<1>5. Midway(i, s)
  BY <1>2, MidwayStart
<1> HIDE DEF s, r, k, c, new, old, bound, toNew, toOld, added, entered, both, root, x, y,
             Enters, Yields
<1>6. ASSUME Enters
      PROVE  /\ c \in s.part.cells /\ new \in CanHold[c] /\ InPart(s.part, new)
             /\ Midway(i, entered) /\ entered.status = "planning"
             /\ entered.moved_cells = Grown(s.moved_cells, toNew)
  <2>1. /\ c \notin DOMAIN s.moved_cells
        /\ InPart(s.part, bel[c]) /\ InPart(s.part, new) /\ new \in CanHold[c]
    BY <1>6 DEF Enters, MayMove
  <2>2. c \in s.part.cells
    BY <1>2, <1>3, <1>4, <2>1, MemberInPart DEF s
  <2>3. DOMAIN toNew = {c} /\ toNew[c] = new
    BY DEF toNew
  <2>4. /\ DOMAIN toNew \subseteq s.part.cells /\ DOMAIN toNew \cap DOMAIN s.moved_cells = {}
        /\ \A d \in DOMAIN toNew : \A a \in Axes : toNew[d][a] \in Int
    BY <1>4, <2>1, <2>2, <2>3, HoldCoordinates
  <2>5. /\ Midway(i, added) /\ added.status = "planning"
        /\ added.moved_cells = Grown(s.moved_cells, toNew)
    BY <1>1, <1>2, <1>5, <2>4, MidwayGrows DEF added, s
  <2>6. /\ DOMAIN entered = Fields /\ SameMap(added, entered)
        /\ entered.status = "planning" /\ entered.pass = added.pass
        /\ entered.tile2cell = added.tile2cell
        /\ entered.moved_cells = added.moved_cells
    BY <2>5 DEF entered, SameMap, Midway, Fields
  <2>7. Midway(i, entered)
    BY <2>5, <2>6, MidwaySame
  <2> QED BY <2>1, <2>2, <2>5, <2>6, <2>7
<1>7. ASSUME Enters, Yields PROVE Midway(i, x) /\ x.status = "planning"
  <2>1. new \in Bels /\ new # None /\ Midway(i, entered) /\ entered.status = "planning"
    BY <1>4, <1>6, <1>7, HoldCoordinates
  <2>2. bound \in Cells /\ bel[bound] = new
    BY <1>2, <1>7, <2>1 DEF Tables, Yields, bound
  <2>3. bound \in s.part.cells
    BY <1>6, <1>7, <2>1, <2>2, BoundInPart DEF s
  <2>4. bound \notin DOMAIN entered.moved_cells
    BY <1>6, <1>7 DEF Yields, Grown, toNew
  <2>5. DOMAIN toOld = {bound} /\ toOld[bound] = old
    BY DEF toOld
  <2>6. \A a \in Axes : old[a] \in Int
    <3>1. old \in CanHold[c]
      BY <1>2, <1>6, <1>7, BetweenMovesAtHome DEF AtHome, Unbound, old
    <3> QED BY <1>4, <3>1, HoldCoordinates
  <2>7. /\ DOMAIN toOld \subseteq s.part.cells
        /\ DOMAIN toOld \cap DOMAIN entered.moved_cells = {}
        /\ \A d \in DOMAIN toOld : \A a \in Axes : toOld[d][a] \in Int
    BY <2>3, <2>4, <2>5, <2>6
  <2>8. Midway(i, both) /\ both.status = "planning"
    BY <1>2, <2>1, <2>7, MidwayGrows DEF both, s
  <2>9. /\ DOMAIN x = Fields /\ SameMap(both, x)
        /\ x.status = "planning" /\ x.pass = both.pass /\ x.tile2cell = both.tile2cell
    BY <2>8 DEF x, SameMap, Midway, Fields
  <2> QED BY <2>8, <2>9, MidwaySame
<1>8. ASSUME Enters PROVE Midway(i, y) /\ y.status = "planning"
  <2>1. Midway(i, entered) /\ entered.status = "planning"
    BY <1>6, <1>8
  <2>2. /\ DOMAIN y = Fields /\ SameMap(entered, y)
        /\ y.status = "planning" /\ y.pass = entered.pass /\ y.tile2cell = entered.tile2cell
    BY <2>1 DEF y, SameMap, Midway, Fields
  <2> QED BY <2>1, <2>2, MidwaySame
<1>9. CASE GiveUp(i, s)
  BY <1>5, <1>9, GiveUpFollows
<1> QED BY <1>1, <1>6, <1>7, <1>8, <1>9, OnwardFollows

\* The cells of two tiles move on the map.
LEMMA SwapTilesFollows ==
    ASSUME IInv, NEW i \in DOMAIN t, Exact(bel, t[i]), SwapTiles(i)
    PROVE  Follows(i)
<1> DEFINE old == t[i]
           p == old.part
           t2c == old.tile2cell
<1>1. /\ ThreadOK(bel, old) /\ old.status = "idle" /\ old.pass = "tiles"
      /\ DOMAIN old = Fields /\ p.cells \subseteq Cells /\ TilesOK(bel, old)
  BY ThisThread DEF SwapTiles, ThreadOK
<1>2. PICK from \in old.todo : \E to \in DOMAIN t2c :
        LET s == [old EXCEPT !.todo = @ \ {from}, !.swap = <<from, to>>]
            cells == s.tile2cell[from] \cup s.tile2cell[to]
            Dest(c) == IF c \in s.tile2cell[from] THEN <<to[1], to[2], bel[c][3]>>
                       ELSE <<from[1], from[2], bel[c][3]>>
            moved == add_to_move(s, [c \in cells |-> Dest(c)])
        IN  \/ t' = [t EXCEPT ![i].todo = @ \ {from}]
            \/ Plan(i, moved)
            \/ GiveUp(i, moved)
  BY ZenonT(60) DEF SwapTiles
<1>3. PICK to \in DOMAIN t2c :
        LET s == [old EXCEPT !.todo = @ \ {from}, !.swap = <<from, to>>]
            cells == s.tile2cell[from] \cup s.tile2cell[to]
            Dest(c) == IF c \in s.tile2cell[from] THEN <<to[1], to[2], bel[c][3]>>
                       ELSE <<from[1], from[2], bel[c][3]>>
            moved == add_to_move(s, [c \in cells |-> Dest(c)])
        IN  \/ t' = [t EXCEPT ![i].todo = @ \ {from}]
            \/ Plan(i, moved)
            \/ GiveUp(i, moved)
  BY <1>2
<1> DEFINE s == [old EXCEPT !.todo = @ \ {from}, !.swap = <<from, to>>]
           cells == s.tile2cell[from] \cup s.tile2cell[to]
           Dest(c) == IF c \in s.tile2cell[from] THEN <<to[1], to[2], bel[c][3]>>
                      ELSE <<from[1], from[2], bel[c][3]>>
           dest == [c \in cells |-> Dest(c)]
           moved == add_to_move(s, dest)
           z == [old EXCEPT !.todo = @ \ {from}]
<1>4. t' = [t EXCEPT ![i] = z] \/ Plan(i, moved) \/ GiveUp(i, moved)
  BY <1>3
<1>5. /\ DOMAIN s = Fields /\ SameMap(old, s) /\ s.pass = old.pass /\ s.tile2cell = t2c
      /\ s.status = "idle"
  BY <1>1 DEF SameMap, Fields
<1>6. s.moved_cells = NoMove
  BY <1>1, <1>5 DEF ThreadOK, StatusOK, SameMap
<1>7. /\ DOMAIN dest = t2c[from] \cup t2c[to]
      /\ \A c \in DOMAIN dest : dest[c] = IF c \in t2c[from] THEN <<to[1], to[2], bel[c][3]>>
                                          ELSE <<from[1], from[2], bel[c][3]>>
  BY <1>5
<1> HIDE DEF s, dest
<1>8. Midway(i, s)
  BY <1>1, <1>5, MidwayStart, MidwaySame
<1>9. DOMAIN dest \subseteq p.cells
  <2>1. from \in DOMAIN t2c
    BY <1>1 DEF TilesOK
  <2>2. t2c[from] \subseteq p.cells /\ t2c[to] \subseteq p.cells
    BY <1>1, <2>1 DEF TilesOK
  <2> QED BY <1>7, <2>2
<1>10. \A c \in DOMAIN dest : \A a \in Axes : dest[c][a] \in Int
  <2> SUFFICES ASSUME NEW c \in DOMAIN dest PROVE \A a \in Axes : dest[c][a] \in Int
    OBVIOUS
  <2>1. p.cells # {} /\ from \in DOMAIN t2c
    BY <1>1, <1>9 DEF TilesOK
  <2>2. /\ from[1] \in Int /\ from[2] \in Int /\ to[1] \in Int /\ to[2] \in Int
    BY <1>1, <2>1 DEF Exact, Grounded
  <2> DEFINE e == bel[c][3]
  <2>3. dest[c] = <<to[1], to[2], e>> \/ dest[c] = <<from[1], from[2], e>>
    BY <1>7
  <2> HIDE DEF e
  <2>4. dest[c][1] \in {to[1], from[1]} /\ dest[c][2] \in {to[2], from[2]}
    BY <2>3
  <2> QED BY <2>2, <2>4 DEF Axes
<1>11. DOMAIN dest \cap DOMAIN s.moved_cells = {}
  BY <1>6, NoMoveOK
<1>12. Midway(i, moved)
  BY <1>1, <1>8, <1>9, <1>10, <1>11, MidwayGrows DEF Unbound
<1> HIDE DEF moved
<1>13. CASE t' = [t EXCEPT ![i] = z]
  <2>1. /\ SameMap(old, z) /\ z.part = old.part /\ z.pass = old.pass
        /\ z.tile2cell = old.tile2cell /\ z.status = "idle"
    BY <1>1 DEF SameMap, Fields
  <2> HIDE DEF z
  <2>2. Grounded(z)
    BY <2>1, GroundedSame DEF Exact
  <2> QED BY <1>1, <1>13, <2>1, <2>2, SameFollows
<1> HIDE DEF z
<1> QED BY <1>4, <1>12, <1>13, PlanFollows, GiveUpFollows

-----------------------------------------------------------------------------
(* The boxes of all threads *)

\* A step of thread i after which its map and boxes are right.
StaysExact(i) ==
    \E z : t' = [t EXCEPT ![i] = z] /\ z.part = t[i].part /\ Exact(bel', z)

\* A step that commits nothing leaves the cells where the map has them.
LEMMA KeptStaysExact ==
    ASSUME NEW i \in DOMAIN t, Exact(bel, t[i]), Kept(i), Follows(i)
    PROVE  StaysExact(i)
<1>1. PICK z : /\ t' = [t EXCEPT ![i] = z]
               /\ \A c \in t[i].part.cells : HomeOf(bel', z, c) = HomeOf(bel, t[i], c)
  BY DEF Kept
<1>2. PICK y : /\ t' = [t EXCEPT ![i] = y]
               /\ y.part = t[i].part /\ Before(y) = Before(t[i])
               /\ Making(y) /\ Finished(y) /\ Grounded(y)
  BY DEF Follows
<1>3. y = z
  BY <1>1, <1>2
<1>4. \A c \in y.part.cells : Before(y)[c] = HomeOf(bel', y, c)
  BY <1>1, <1>2, <1>3 DEF Exact
<1> QED BY <1>2, <1>4 DEF Exact, StaysExact

\* A move that is committed: the map then is where the cells are.
LEMMA CheckStaysExact ==
    ASSUME IInv, NEW i \in DOMAIN t, Exact(bel, t[i]), CheckMove(i)
    PROVE  StaysExact(i)
<1> DEFINE s == t[i]
           swapped == [s.tile2cell EXCEPT ![s.swap[1]] = s.tile2cell[s.swap[2]],
                                          ![s.swap[2]] = s.tile2cell[s.swap[1]]]
           tiles == IF s.swap = <<>> THEN s.tile2cell ELSE swapped
           y == [s EXCEPT !.tile2cell = tiles]
           z == reset_move_state(commit_move(y))
           f == [s EXCEPT !.status = "fail"]
<1>1. /\ s.status = "bound" /\ bel' = bel
      /\ t' = [t EXCEPT ![i] = z] \/ t' = [t EXCEPT ![i] = f]
  BY DEF CheckMove, tables
<1>2. ThreadOK(bel, s) /\ DOMAIN s = Fields
  BY ThisThread DEF ThreadOK
<1>3. Making(s) /\ Finished(s) /\ Grounded(s)
      /\ \A c \in s.part.cells : Before(s)[c] = HomeOf(bel, s, c)
  BY DEF Exact
<1>4. CASE t' = [t EXCEPT ![i] = f]
  <2>1. /\ SameMap(s, f) /\ f.status = "fail" /\ f.part = s.part
        /\ f.pass = s.pass /\ f.tile2cell = s.tile2cell /\ f.moved_cells = s.moved_cells
    BY <1>2 DEF SameMap, Fields
  <2> HIDE DEF f
  <2>2. Making(f) /\ Before(f) = Before(s) /\ Grounded(f)
    BY <1>3, <2>1, SameMapMakes, GroundedSame
  <2>3. Finished(f)
    BY <1>1, <1>3, <2>1 DEF Finished, SameMap
  <2>4. \A c \in f.part.cells : Before(f)[c] = HomeOf(bel', f, c)
    BY <1>1, <1>3, <2>1, <2>2 DEF HomeOf
  <2> QED BY <1>4, <2>1, <2>2, <2>3, <2>4 DEF StaysExact, Exact
<1>5. CASE t' = [t EXCEPT ![i] = z]
  <2>1. DOMAIN tiles = DOMAIN s.tile2cell
    OBVIOUS
  <2> HIDE DEF tiles
  <2>2. /\ DOMAIN y = Fields /\ y.part = s.part /\ y.pass = s.pass /\ y.tile2cell = tiles
    BY <1>2 DEF Fields
  <2>3. z = reset_move_state(commit_move([s EXCEPT !.tile2cell = tiles]))
    OBVIOUS
  <2>4. Like(y, z) /\ Idle(z)
    <3> HIDE DEF y
    <3>1. Like(y, commit_move(y))
      BY <2>2, CommitIs
    <3>2. Like(commit_move(y), z) /\ Idle(z)
      BY <3>1, ResetIs DEF Like
    <3> QED BY <3>1, <3>2, LikeTrans
  <2> HIDE DEF y, z
  <2>5. Making(z) /\ Finished(z) /\ Before(z) = s.local_cell2bel
    <3> HIDE DEF s
    <3>1. s.status # "planning"
      BY <1>1
    <3> QED BY <1>2, <1>3, <2>3, <3>1, CommitMakes
  <2>6. z.part = s.part /\ z.pass = s.pass /\ z.tile2cell = tiles /\ z.moved_cells = NoMove
    BY <2>2, <2>4 DEF Like, Idle
  <2>7. Grounded(z)
    BY <1>3, <2>1, <2>6 DEF Grounded
  <2>8. ASSUME NEW c \in s.part.cells PROVE s.local_cell2bel[c] = bel[c]
    <3>1. c \in DOMAIN s.local_cell2bel
      BY <1>3 DEF Making, MapOK
    <3>2. CASE c \in DOMAIN s.moved_cells
      BY <1>1, <1>2, <1>3, <3>2 DEF Making, MapOK, ThreadOK, WhereOK
    <3>3. CASE c \notin DOMAIN s.moved_cells
      BY <1>3, <3>1, <3>3 DEF Before, Put, HomeOf
    <3> QED BY <3>2, <3>3
  <2>9. \A c \in z.part.cells : Before(z)[c] = HomeOf(bel', z, c)
    BY <1>1, <2>5, <2>6, <2>8, NoMoveOK DEF HomeOf
  <2> QED BY <1>5, <2>5, <2>6, <2>7, <2>9 DEF StaysExact, Exact
<1> QED BY <1>1, <1>4, <1>5

\* The maps and boxes of all threads are right.
Boxes == \A i \in DOMAIN t : Exact(bel, t[i])

\* A thread's map does not depend on where the cells of other parts are.
LEMMA ExactFrame ==
    ASSUME NEW at, NEW to, NEW s, Exact(at, s), \A c \in s.part.cells : to[c] = at[c]
    PROVE  Exact(to, s)
BY DEF Exact, HomeOf

\* No step of a thread changes where the cells of other parts are.
LEMMA OnlyItsCells ==
    ASSUME IInv, Abstract!Legal, NEW i \in DOMAIN t, ThreadStep(i)
    PROVE  /\ \A c \in Cells \ t[i].part.cells : bel'[c] = bel[c]
           /\ CheckMove(i) \/ Kept(i)
<1>1. CASE CheckMove(i)
  BY <1>1 DEF CheckMove, tables
<1>2. CASE ~CheckMove(i)
  <2>1. Kept(i)
    BY <1>2, SkipKept, SwapCellKept, SwapClusterKept, DisplaceKept, CellsDoneKept,
       SwapTilesKept, TilesDoneKept, BindKept, RevertKept DEF ThreadStep
  <2> QED BY <2>1 DEF Kept
<1> QED BY <1>1, <1>2

\* The steps of a thread keep all maps and boxes right.
LEMMA ThreadKeepsBoxes ==
    ASSUME IInv, Abstract!Legal, Boxes, NEW i \in DOMAIN t, ThreadStep(i)
    PROVE  Boxes'
<1>1. Exact(bel, t[i])
  BY DEF Boxes
<1>2. /\ \A c \in Cells \ t[i].part.cells : bel'[c] = bel[c]
      /\ CheckMove(i) \/ Kept(i)
  BY OnlyItsCells
<1>3. StaysExact(i)
  <2>1. CASE CheckMove(i)
    BY <1>1, <2>1, CheckStaysExact
  <2>2. CASE ~CheckMove(i)
    <3>1. Follows(i)
      BY <1>1, <2>2, SkipFollows, SwapCellFollows, SwapClusterFollows, DisplaceFollows,
         CellsDoneFollows, SwapTilesFollows, TilesDoneFollows, BindFollows,
         RevertFollows DEF ThreadStep
    <3> QED BY <1>1, <1>2, <2>2, <3>1, KeptStaysExact
  <2> QED BY <2>1, <2>2
<1>4. PICK z : t' = [t EXCEPT ![i] = z] /\ z.part = t[i].part /\ Exact(bel', z)
  BY <1>3 DEF StaysExact
<1>5. DOMAIN t' = DOMAIN t /\ \A j \in DOMAIN t : t'[j] = IF j = i THEN z ELSE t[j]
  BY <1>4
<1>6. ASSUME NEW j \in DOMAIN t PROVE Exact(bel', t'[j])
  <2>1. CASE j = i
    BY <1>4, <1>5, <2>1
  <2>2. CASE j # i
    <3>1. t[j].part.cells \subseteq Cells
      BY ThisThread DEF ThreadOK
    <3>2. \A c \in t[j].part.cells : bel'[c] = bel[c]
      BY <1>2, <2>2, <3>1, OneOwner
    <3>3. Exact(bel, t[j])
      BY DEF Boxes
    <3>4. Exact(bel', t[j])
      BY <3>2, <3>3, ExactFrame
    <3> QED BY <1>5, <2>2, <3>4
  <2> QED BY <2>1, <2>2
<1> QED BY <1>5, <1>6 DEF Boxes

\* A thread's map and boxes at its start.
LEMMA StartsExact ==
    ASSUME NEW p, PartOK(p), \A c \in Cells : bel[c] \in Bels,
           NEW z, z = ThreadState(p)
    PROVE  Exact(bel, z)
<1> DEFINE nets == {n \in Nets : Range(Pins[n]) \cap p.cells # {}}
           cells == p.cells \cup UNION {Range(Pins[n]) : n \in nets}
           D == nets \ Skipped
           at == [c \in cells |-> bel[c]]
           nb == [n \in D |-> Bounds(n, bel)]
<1>1. z = [part |-> p, local_cell2bel |-> at, net_bounds |-> nb, new_net_bounds |-> nb,
           moved_cells |-> NoMove, status |-> "idle",
           displaced_clusters |-> <<>>, used_bels |-> {}, cursor |-> <<>>,
           pass |-> "cells", m |-> 0, todo |-> Movers(p.cells),
           tile2cell |-> <<>>, swap |-> <<>>]
  BY DEF ThreadState
<1>2. /\ D \subseteq Nets \ Skipped /\ p.cells \subseteq cells
      /\ \A n \in D : Range(Pins[n]) \subseteq cells
  OBVIOUS
<1>3. cells \subseteq Cells
  <2>1. \A n \in nets : Range(Pins[n]) \subseteq Cells
    <3> SUFFICES ASSUME NEW n \in nets PROVE Range(Pins[n]) \subseteq Cells
      OBVIOUS
    <3>1. Pins[n] \in Seq(Cells)
      BY PinsAssumption
    <3> QED BY <3>1 DEF Range
  <2> QED BY <2>1 DEF PartOK
<1>4. \A c \in cells : \A a \in Axes : bel[c][a] \in Int
  BY <1>3, BelCoordinates
<1>5. DOMAIN nb = D /\ DOMAIN at = cells /\ at = [c \in DOMAIN at |-> at[c]]
      /\ \A c \in cells : at[c] = bel[c]
  OBVIOUS
<1>6. nb = BoundsOf(D, at)
  <2>1. ASSUME NEW n \in D PROVE Bounds(n, bel) = Bounds(n, at)
    <3>1. Pins[n] \in Seq(Cells)
      BY PinsAssumption
    <3>2. \A c \in Range(Pins[n]) : bel[c] = at[c]
      BY <1>2, <1>5
    <3> HIDE DEF at, D
    <3> QED BY <3>1, <3>2, BoundsSame
  <2> HIDE DEF D
  <2> QED BY <2>1 DEF BoundsOf
<1> HIDE DEF nets, cells, D, at, nb
<1>7. /\ z.part = p /\ z.local_cell2bel = at /\ z.net_bounds = nb /\ z.new_net_bounds = nb
      /\ z.moved_cells = NoMove /\ z.status = "idle" /\ z.pass = "cells"
  BY <1>1
<1>8. MapOK(z)
  BY <1>2, <1>4, <1>5, <1>7, NoMoveOK DEF MapOK
<1>9. Before(z) = at
  <2>1. Before(z) = [c \in DOMAIN at |-> at[c]]
    BY <1>7, NoMoveOK DEF Before, Put, NoMove
  <2> QED BY <1>5, <2>1
<1>10. Boxable(D) /\ AllPlaced(D, at)
  BY <1>2, <1>5, <1>7, <1>8, NetsPlaced
<1>11. /\ Tracked(D, nb, at)
       /\ \A n \in D : ~Changed(nb[n]) /\ Settled(nb[n]) = Bounds(n, at)
  BY <1>6, <1>10, BoundsFollow
<1>12. BoxesOK(z)
  BY <1>2, <1>5, <1>6, <1>7, <1>9, <1>11 DEF BoxesOK, Untouched
<1>13. Finished(z)
  BY <1>5, <1>7, <1>11 DEF Finished
<1>14. Grounded(z)
  BY <1>7 DEF Grounded, PartOK
<1>15. \A c \in z.part.cells : Before(z)[c] = HomeOf(bel, z, c)
  BY <1>2, <1>5, <1>7, <1>9, NoMoveOK DEF HomeOf
<1> QED BY <1>8, <1>12, <1>13, <1>14, <1>15 DEF Exact, Making

\* Every step keeps all maps and boxes right.
LEMMA StepKeepsBoxes ==
    ASSUME IInv, Abstract!Legal, Boxes, [Next]_vars
    PROVE  Boxes'
<1>1. CASE \E i \in DOMAIN t : ThreadStep(i)
  BY <1>1, ThreadKeepsBoxes
<1>2. CASE StartThreads
  <2>1. /\ stage = "cutting" /\ bel' = bel
        /\ t' = [i \in DOMAIN parts |-> ThreadState(parts[i])]
    BY <1>2 DEF StartThreads
  <2>2. \A c \in Cells : bel[c] \in Bels
    BY <2>1, NoThreads
  <2>3. \A i \in DOMAIN parts : PartOK(parts[i])
    BY <2>1 DEF IInv, Cutting
  <2>4. \A i \in DOMAIN parts : Exact(bel, ThreadState(parts[i]))
    BY <2>2, <2>3, StartsExact
  <2>5. DOMAIN t' = DOMAIN parts /\ \A i \in DOMAIN parts : t'[i] = ThreadState(parts[i])
    BY <2>1
  <2> QED BY <2>1, <2>4, <2>5 DEF Boxes
<1>3. CASE Join
  BY <1>3 DEF Join, Boxes
<1>4. CASE Iterate \/ CutParts \/ Return \/ UNCHANGED vars
  <2>1. UNCHANGED <<bel, t>>
    BY <1>4 DEF Iterate, CutParts, Return, vars
  <2> QED BY <2>1 DEF Boxes
<1> QED BY <1>1, <1>2, <1>3, <1>4 DEF Next, Step, MainStep, Returned

\* Right maps and boxes are what BoundsAreExact speaks of.
LEMMA BoxesAreExact ==
    ASSUME IInv, Boxes
    PROVE  BoundsAreExact
<1> SUFFICES ASSUME NEW i \in DOMAIN t
             PROVE  LET s == t[i]
                        before == RevertLocal(s).local_cell2bel
                    IN  /\ \A n \in DOMAIN s.net_bounds :
                              /\ s.net_bounds[n] = Bounds(n, before)
                              /\ s.status # "planning" =>
                                    Settled(s.new_net_bounds[n]) = Bounds(n, s.local_cell2bel)
                        /\ \A c \in s.part.cells : before[c] = Committed[c]
                        /\ \A c \in DOMAIN s.moved_cells :
                              s.local_cell2bel[c] = s.moved_cells[c].new
  BY DEF BoundsAreExact
<1> DEFINE s == t[i]
<1>1. DOMAIN s = Fields
  BY ThisThread DEF ThreadOK
<1>2. Exact(bel, s)
  BY DEF Boxes
<1>3. RevertLocal(s).local_cell2bel = Before(s)
  <2> DEFINE was == Before(s)
  <2>1. RevertLocal(s) = [s EXCEPT !.local_cell2bel = was]
    BY DEF RevertLocal, Before
  <2> HIDE DEF was
  <2>2. RevertLocal(s).local_cell2bel = was
    BY <1>1, <2>1 DEF Fields
  <2> QED BY <2>2 DEF was
<1>4. \A c \in s.part.cells : Committed[c] = HomeOf(bel, s, c)
  BY CommittedIs
<1> HIDE DEF s
<1>5. \A n \in DOMAIN s.net_bounds : s.net_bounds[n] = Bounds(n, Before(s))
  BY <1>2 DEF Exact, Making, BoxesOK, BoundsOf
<1>6. \A n \in DOMAIN s.net_bounds : s.status # "planning" =>
          Settled(s.new_net_bounds[n]) = Bounds(n, s.local_cell2bel)
  BY <1>2 DEF Exact, Finished
<1>7. \A c \in DOMAIN s.moved_cells : s.local_cell2bel[c] = s.moved_cells[c].new
  BY <1>2 DEF Exact, Making, MapOK
<1>8. \A c \in s.part.cells : Before(s)[c] = Committed[c]
  BY <1>2, <1>4 DEF Exact
<1> QED BY <1>3, <1>5, <1>6, <1>7, <1>8 DEF s

-----------------------------------------------------------------------------
(* The theorems *)

\* Every step keeps the invariant, and either commits nothing or takes the
\* committed placement to another legal one, the locked cells where they are.
LEMMA StepIs ==
    ASSUME IInv, Abstract!Legal, [Next]_vars
    PROVE  /\ IInv' /\ Abstract!Legal'
           /\ [Abstract!Move]_Committed
<1>1. \/ IInv' /\ UNCHANGED Committed
      \/ IInv' /\ Abstract!Legal' /\ \A c \in Locked : Committed'[c] = Committed[c]
  <2>1. CASE UNCHANGED vars
    BY <2>1, StutterIs
  <2>2. CASE Next
    <3>1. CASE \E i \in DOMAIN t : ThreadStep(i)
      BY <3>1, ThreadStepIs
    <3>2. CASE MainStep
      BY <3>2, IterateIs, CutIs, StartIs, JoinIs, ReturnIs DEF MainStep
    <3>3. CASE Returned
      BY <3>3, StutterIs DEF Returned
    <3> QED BY <2>2, <3>1, <3>2, <3>3 DEF Next, Step
  <2> QED BY <2>1, <2>2
<1>2. CASE IInv' /\ UNCHANGED Committed
  <2>1. Abstract!Legal'
    BY <1>2 DEF Abstract!Legal, Abstract!TileOf
  <2> QED BY <1>2, <2>1
<1>3. CASE IInv' /\ Abstract!Legal' /\ \A c \in Locked : Committed'[c] = Committed[c]
  BY <1>3 DEF Abstract!Move
<1> QED BY <1>1, <1>2, <1>3

\* The inductive invariant holds throughout.
LEMMA Invariance == Spec => [](IInv /\ Abstract!Legal)
<1>1. Init => IInv /\ Abstract!Legal
  BY InitIs
<1>2. IInv /\ Abstract!Legal /\ [Next]_vars => (IInv /\ Abstract!Legal)'
  BY StepIs
<1> QED BY <1>1, <1>2, PTL DEF Spec

\* Refinement with threads only ever takes the committed placement from one
\* legal placement to another, however the threads' steps interleave.
THEOREM PlacementRefined == Spec => PlacementSpec
<1>1. Init => Abstract!Init
  BY InitIs DEF Abstract!Init
<1>2. IInv /\ Abstract!Legal /\ [Next]_vars => [Abstract!Move]_Committed
  BY StepIs
<1> QED BY <1>1, <1>2, Invariance, PTL DEF Spec, PlacementSpec, Abstract!Spec

\* The states are as TypeOK says.
THEOREM TypesHold == Spec => []TypeOK
<1>1. IInv => TypeOK
  <2> SUFFICES ASSUME IInv PROVE TypeOK
    OBVIOUS
  <2>1. \A i \in DOMAIN t :
          /\ t[i].status \in Statuses /\ t[i].pass \in {"cells", "tiles", "over"}
          /\ t[i].status = "idle" => t[i].moved_cells = NoMove /\ t[i].used_bels = {}
          /\ t[i].status = "planning" <=> t[i].cursor # <<>>
    <3> SUFFICES ASSUME NEW i \in DOMAIN t
                 PROVE  /\ t[i].status \in Statuses /\ t[i].pass \in {"cells", "tiles", "over"}
                        /\ t[i].status = "idle" => t[i].moved_cells = NoMove /\ t[i].used_bels = {}
                        /\ t[i].status = "planning" <=> t[i].cursor # <<>>
      OBVIOUS
    <3>1. ThreadOK(bel, t[i])
      BY ThisThread
    <3>2. t[i].status = "planning" => t[i].cursor # <<>>
      <4> SUFFICES ASSUME t[i].status = "planning" PROVE t[i].cursor # <<>>
        OBVIOUS
      <4>1. t[i].cursor = <<t[i].cursor[1], t[i].cursor[2], t[i].cursor[3]>>
        BY <3>1 DEF ThreadOK, PlanningOK
      <4> QED BY <4>1
    <3> QED BY <3>1, <3>2 DEF ThreadOK, StatusOK
  <2> QED BY <2>1 DEF TypeOK, IInv, Tables, Control
<1> QED BY <1>1, Invariance, PTL

\* The two tables of the placement agree at any moment, and only a move that
\* failed half-way leaves cells without a bel.
THEOREM PlacementStaysIntact == Spec => []PlacementIsIntact
<1>1. IInv => PlacementIsIntact
  <2> SUFFICES ASSUME IInv PROVE PlacementIsIntact
    OBVIOUS
  <2>1. ASSUME NEW c \in Cells, bel[c] = None
        PROVE  \E i \in DOMAIN t : t[i].status = "fail" /\ c \in DOMAIN t[i].moved_cells
    <3>1. CanHold[c] \subseteq Bels /\ None \notin Bels
      BY DeviceAssumption
    <3>2. stage = "refining"
      BY <2>1, <3>1 DEF IInv, Control
    <3>3. PICK i \in DOMAIN t : c \in t[i].part.cells
      BY <3>2 DEF IInv, Refining, Split, PartsOf
    <3>4. ThreadOK(bel, t[i])
      BY ThisThread
    <3>5. c \in DOMAIN t[i].moved_cells
      BY <2>1, <3>1, <3>3, <3>4 DEF ThreadOK, WhereOK
    <3>6. t[i].moved_cells[c].old # None /\ t[i].moved_cells[c].new # None
      BY <3>1, <3>4, <3>5 DEF ThreadOK, MoveOK
    <3>7. t[i].status # "idle"
      BY <3>4, <3>5, BusyOwner
    <3>8. t[i].status = "fail"
      BY <2>1, <3>4, <3>5, <3>6, <3>7 DEF ThreadOK, WhereOK, StatusOK, Statuses
    <3> QED BY <3>5, <3>8
  <2> QED BY <2>1 DEF PlacementIsIntact, IInv, Tables
<1> QED BY <1>1, Invariance, PTL

\* Threads that do not ask each other keep out of each other's way.
THEOREM PartsAreKept == Spec => []ThreadsKeepToTheirParts
<1>1. IInv => ThreadsKeepToTheirParts
  <2> SUFFICES ASSUME IInv, NEW i \in DOMAIN t
               PROVE  LET Touched(s) == UNION {{m.old, m.new} : m \in Range(s.moved_cells)}
                      IN  /\ DOMAIN t[i].moved_cells \subseteq t[i].part.cells
                          /\ \A b \in Touched(t[i]) : InPart(t[i].part, b)
                          /\ \A j \in DOMAIN t \ {i} :
                                Touched(t[i]) \cap Touched(t[j]) = {}
    BY DEF ThreadsKeepToTheirParts
  <2> DEFINE Touched(s) == UNION {{m.old, m.new} : m \in Range(s.moved_cells)}
  <2>1. ASSUME NEW j \in DOMAIN t, NEW b \in Touched(t[j])
        PROVE  InPart(t[j].part, b) /\ b \in Bels /\ t[j].part.cells # {}
    <3> DEFINE mv == t[j].moved_cells
    <3>1. PICK c \in DOMAIN mv : b \in {mv[c].old, mv[c].new}
      BY <2>1 DEF Range
    <3>2. ThreadOK(bel, t[j])
      BY ThisThread
    <3>3. c \in t[j].part.cells /\ t[j].part.cells \subseteq Cells
      BY <3>1, <3>2 DEF ThreadOK, MoveOK
    <3>4. InPart(t[j].part, b) /\ b \in CanHold[c]
      BY <3>1, <3>2 DEF ThreadOK, MoveOK
    <3> QED BY <3>3, <3>4, DeviceAssumption
  <2>2. DOMAIN t[i].moved_cells \subseteq t[i].part.cells
    BY ThisThread DEF ThreadOK, MoveOK
  <2> HIDE DEF Touched
  <2>3. ASSUME NEW j \in DOMAIN t \ {i} PROVE Touched(t[i]) \cap Touched(t[j]) = {}
    <3>1. Apart(t[i].part, t[j].part)
      BY ThisThread DEF Split, PartsOf
    <3> QED BY <2>1, <3>1 DEF Apart
  <2>4. \A b \in Touched(t[i]) : InPart(t[i].part, b)
    BY <2>1
  <2> QED BY <2>2, <2>3, <2>4 DEF Touched
<1> QED BY <1>1, Invariance, PTL

\* However pins, cells and threads take turns, the boxes a thread has patched are
\* those its nets have.
THEOREM BoxesStayExact == Spec => []BoundsAreExact
<1>1. Init => Boxes
  BY DEF Init, Boxes
<1>2. IInv /\ Abstract!Legal /\ Boxes /\ [Next]_vars => Boxes'
  BY StepKeepsBoxes
<1>3. IInv /\ Boxes => BoundsAreExact
  BY BoxesAreExact
<1> QED BY <1>1, <1>2, <1>3, Invariance, PTL DEF Spec
=============================================================================

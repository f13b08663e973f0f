---------------------------- MODULE DetailPlace ----------------------------
(***************************************************************************)
(* Placement refinement with threads: common/place/parallel_refine.cc on   *)
(* top of common/place/detail_place_core.{h,cc}.                           *)
(*                                                                         *)
(* Each iteration cuts the placed design into one rectangle per thread.    *)
(* A thread plans moves inside its rectangle (a swap of two cells, a chain *)
(* of clusters that displace each other, a swap of two tiles) against its  *)
(* own map of where cells are, and keeps the bounding boxes of its nets up *)
(* to date incrementally.  A planned move is bound provisionally under the *)
(* lock of the architecture's API, its tiles are checked under the shared  *)
(* lock, and it is then committed or reverted; between these steps other   *)
(* threads run.  Iterations go on for as long as the wirelength drops.     *)
(*                                                                         *)
(* A bel is named by its location <<x, y, z>>, as getBelByLocation and     *)
(* getBelLocation are inverse.  Delays, the temperature and the random     *)
(* numbers only decide which moves are tried and which are accepted: both  *)
(* are free choices here.  All strengths up to STRENGTH_STRONG are treated *)
(* alike by the code, so only the cells locked above it are told apart.    *)
(***************************************************************************)
EXTENDS Integers, FiniteSetsExt, SequencesExt

CONSTANTS
    Cells, Bels, Nets,
    Locked,       \* cells bound with a strength above STRENGTH_STRONG
    CanHold,      \* isValidBelForCellType, for each cell
    Region,       \* CellInfo::testRegion, for each cell
    Children,     \* for the root of each cluster, the other members in order
    Offset,       \* getClusterOffset
    LegalTiles,   \* isBelLocationValid: the sets of cells a tile may hold
    Unavailable,  \* bels that checkBelAvail refuses though nothing is bound
    Pins,         \* for each net the cells of its pins, the driver's first
    Skipped,      \* nets that skip_net leaves out
    Placements,   \* the placements refinement may be given
    ThreadCounts, \* powers of two: ParallelRefineCfg::threads
    InnerIters,   \* ParallelRefineCfg::inner_iters
    None

RootOf[c \in Cells] ==
    IF \E r \in DOMAIN Children : c = r \/ c \in Range(Children[r])
    THEN CHOOSE r \in DOMAIN Children : c = r \/ c \in Range(Children[r])
    ELSE None

Shift(b, d) == [i \in 1..3 |-> b[i] + d[i]]

ASSUME DeviceAssumption ==
    /\ IsFiniteSet(Cells) /\ None \notin Cells
    /\ Bels \subseteq Int \X Int \X Int /\ None \notin Bels
    /\ \A c \in Cells : CanHold[c] \subseteq Bels
    /\ Locked \subseteq Cells
    /\ Placements \subseteq [Cells -> Bels]

\* A cell is in one cluster at most, and a root is where its cluster is.
ASSUME ClusterAssumption ==
    /\ DOMAIN Children \subseteq Cells
    /\ \A r \in DOMAIN Children :
          /\ Children[r] \in Seq(Cells)
          /\ RootOf[r] = r /\ \A c \in Range(Children[r]) : RootOf[c] = r
          /\ \A b \in Bels : Shift(b, Offset[r]) = b
    /\ \A c \in Cells : Offset[c] \in Int \X Int \X Int

\* The members of a cluster are locked together or not at all.
ASSUME ClustersLockedAsAWhole ==
    \A c, d \in Cells : RootOf[c] = RootOf[d] /\ RootOf[c] # None
                            => (c \in Locked <=> d \in Locked)

\* A net that is not left out has a driver at least.
ASSUME PinsAssumption ==
    /\ \A n \in Nets : Pins[n] \in Seq(Cells)
    /\ \A n \in Nets \ Skipped : Pins[n] # <<>>

VARIABLES
    bel,           \* CellInfo::bel
    bel_to_cell,   \* the architecture's table
    total_wirelen, \* DetailPlacerState::total_wirelen
    min_wirelen,   \* the least total so far
    iter,          \* "first" iteration, or "later"
    stage,         \* of run(): between iterations, cutting, refining, or returned
    parts, axis,   \* of do_partition(): the parts so far, and where to cut next
    threads,       \* number of threads
    t              \* the state of each thread while they run

vars == <<bel, bel_to_cell, total_wirelen, min_wirelen, iter, stage, parts, axis, threads, t>>

Axes == {1, 2}
TileOf(b) == <<b[1], b[2]>>

\* Where cells are when those of 'to' have been put where it says.
Put(to, at) ==
    [c \in DOMAIN to \cup DOMAIN at |-> IF c \in DOMAIN to THEN to[c] ELSE at[c]]

-----------------------------------------------------------------------------
(* Bounding boxes of nets. *)

\* The bounding box of a net when cells are where 'at' says, with the number
\* of pins on each edge.
Bounds(n, at) ==
    [a \in Axes |->
        LET pos == [i \in DOMAIN Pins[n] |-> at[Pins[n][i]][a]]
            On(p) == Cardinality({i \in DOMAIN pos : pos[i] = p})
        IN  [lo |-> Min(Range(pos)), nlo |-> On(Min(Range(pos))),
             hi |-> Max(Range(pos)), nhi |-> On(Max(Range(pos))),
             change |-> "NO_CHANGE"]]

hpwl(bb) == (bb[1].hi - bb[1].lo) + (bb[2].hi - bb[2].lo)

Wirelength == MapThenSumSet(LAMBDA n : hpwl(Bounds(n, bel)), Nets \ Skipped)

\* Seeded fault: the last pin leaves an edge and the edge stays where it was.
EdgeStays(at, count, old, new) ==
    CASE new < at ->
            [at |-> new, count |-> 1, change |-> "CELL_MOVED"]
      [] new = at /\ old > at ->
            [at |-> at, count |-> count + 1, change |-> "CELL_MOVED"]
      [] old = at /\ new > at ->
            [at |-> at, count |-> count - 1, change |-> "CELL_MOVED"]
      [] OTHER ->
            [at |-> at, count |-> count, change |-> "NO_CHANGE"]

\* The lower edge of an axis when a pin moves; the upper one is its mirror
\* image.
Edge(at, count, old, new) ==
    CASE new < at ->
            [at |-> new, count |-> 1, change |-> "CELL_MOVED"]
      [] new = at /\ old > at ->
            [at |-> at, count |-> count + 1, change |-> "CELL_MOVED"]
      [] old = at /\ new > at /\ count = 1 ->
            [at |-> at, count |-> count, change |-> "FULL_RECOMPUTE"]
      [] old = at /\ new > at /\ count # 1 ->
            [at |-> at, count |-> count - 1, change |-> "CELL_MOVED"]
      [] OTHER ->
            [at |-> at, count |-> count, change |-> "NO_CHANGE"]

PinMoves(b, old, new) ==
    LET low  == Edge(b.lo, b.nlo, old, new)
        high == Edge(-b.hi, b.nhi, -old, -new)
        seen == {b.change, low.change, high.change}
    IN  [lo |-> low.at, nlo |-> low.count, hi |-> -high.at, nhi |-> high.count,
         change |-> IF "FULL_RECOMPUTE" \in seen THEN "FULL_RECOMPUTE"
                    ELSE IF "CELL_MOVED" \in seen THEN "CELL_MOVED"
                    ELSE "NO_CHANGE"]

Changed(bb) == \E a \in Axes : bb[a].change # "NO_CHANGE"
Settled(bb) == [a \in Axes |-> [bb[a] EXCEPT !.change = "NO_CHANGE"]]

\* The boxes of the thread's nets after every pin of a cell has moved.
compute_changes_for_cell(boxes, c, old, new) ==
    [n \in DOMAIN boxes |->
        [a \in Axes |->
            FoldLeft(LAMBDA b, d : IF d = c THEN PinMoves(b, old[a], new[a]) ELSE b,
                     boxes[n][a], Pins[n])]]

\* Where the last pin left an edge the box is computed afresh, on both axes.
compute_total_change(s) ==
    LET Stale(n) == \E a \in Axes :
            s.new_net_bounds[n][a].change = "FULL_RECOMPUTE"
        Fresh(n) == [a \in Axes |->
            [Bounds(n, s.local_cell2bel)[a] EXCEPT
                !.change = s.new_net_bounds[n][a].change]]
    IN  [s EXCEPT !.new_net_bounds =
            [n \in DOMAIN @ |-> IF Stale(n) THEN Fresh(n) ELSE @[n]]]

-----------------------------------------------------------------------------
(* One rectangle for each thread. *)

\* PlacePartition(ctx)
WholeDesign ==
    [lo |-> [a \in Axes |-> Min({bel[c][a] : c \in Cells})],
     hi |-> [a \in Axes |-> Max({bel[c][a] : c \in Cells})],
     cells |-> Cells]

\* size_t(cells.size() * pivot) for a pivot between 0.45 and 0.5
PivotPoints(size) == ((45 * size) \div 100) .. Max({0, (size - 1) \div 2})

\* The coordinate a part is cut at: that of the cell before the pivot point,
\* with the cells in order along the axis.
Pivot(p, point) ==
    IF point = 0 THEN p.hi[axis]
    ELSE Min({k \in {bel[c][axis] : c \in p.cells} :
                Cardinality({c \in p.cells : bel[c][axis] <= k}) >= point})

\* Seeded fault: both halves have the line they are cut at.
HalvesOverlap(p, point) ==
    LET pivot == Pivot(p, point)
        left == {c \in p.cells : bel[c][axis] <= pivot}
    IN  <<[p EXCEPT !.hi[axis] = pivot, !.cells = left],
          [p EXCEPT !.lo[axis] = pivot, !.cells = p.cells \ left]>>

Halves(p, point) ==
    LET pivot == Pivot(p, point)
        left == {c \in p.cells : bel[c][axis] <= pivot}
    IN  <<[p EXCEPT !.hi[axis] = pivot, !.cells = left],
          [p EXCEPT !.lo[axis] = IF pivot = p.hi[axis] THEN pivot ELSE pivot + 1,
                    !.cells = p.cells \ left]>>

InPart(p, b) == \A a \in Axes : b[a] \in p.lo[a]..p.hi[a]

\* Only cells that may move, and of a cluster only its root, are tried.
Movers(cs) == {c \in cs \ Locked : RootOf[c] \in {None, c}}

NoMove == [c \in {} |-> None]

\* set_partition() and setup_initial_state(): the nets of the thread's cells,
\* where their cells are now, and their boxes.
ThreadState(p) ==
    LET nets == {n \in Nets : Range(Pins[n]) \cap p.cells # {}}
        cells == p.cells \cup UNION {Range(Pins[n]) : n \in nets}
        bounds == [n \in nets \ Skipped |-> Bounds(n, bel)]
    IN  [part |-> p,
         local_cell2bel |-> [c \in cells |-> bel[c]],
         net_bounds |-> bounds, new_net_bounds |-> bounds,
         moved_cells |-> NoMove, status |-> "idle",
         displaced_clusters |-> <<>>, used_bels |-> {}, cursor |-> <<>>,
         pass |-> "cells", m |-> 0, todo |-> Movers(p.cells),
         tile2cell |-> <<>>, swap |-> <<>>]

-----------------------------------------------------------------------------
(* A move in the making. *)

\* The tests of add_to_move() for cell c and bel b.
MayMove(s, c, b) == InPart(s.part, bel[c]) /\ InPart(s.part, b) /\ b \in CanHold[c]

\* add_to_move() for cells, to the bels 'to' gives them.
add_to_move(s, to) ==
    [s EXCEPT
        !.moved_cells = [c \in DOMAIN to \cup DOMAIN @ |->
            IF c \in DOMAIN to THEN [old |-> bel[c], new |-> to[c]] ELSE @[c]],
        !.local_cell2bel = Put(to, @),
        !.new_net_bounds =
            FoldLeft(LAMBDA boxes, c : compute_changes_for_cell(boxes, c, bel[c], to[c]),
                     @, SetToSeq(DOMAIN to))]

\* Seeded fault: the moved cells are kept for the next move.
ResetKeepsCells(s) ==
    [s EXCEPT !.swap = <<>>, !.status = "idle",
              !.displaced_clusters = <<>>, !.used_bels = {}, !.cursor = <<>>,
              !.new_net_bounds = [n \in DOMAIN @ |->
                    IF Changed(@[n]) THEN s.net_bounds[n] ELSE @[n]]]

reset_move_state(s) ==
    [s EXCEPT !.moved_cells = NoMove, !.swap = <<>>, !.status = "idle",
              !.displaced_clusters = <<>>, !.used_bels = {}, !.cursor = <<>>,
              !.new_net_bounds = [n \in DOMAIN @ |->
                    IF Changed(@[n]) THEN s.net_bounds[n] ELSE @[n]]]

\* What revert_move() does to the thread's own map.
RevertLocal(s) ==
    [s EXCEPT !.local_cell2bel =
        Put([c \in DOMAIN s.moved_cells |-> s.moved_cells[c].old], @)]

commit_move(s) ==
    [s EXCEPT !.net_bounds = [n \in DOMAIN @ |->
                    IF Changed(s.new_net_bounds[n])
                    THEN Settled(s.new_net_bounds[n]) ELSE @[n]]]

-----------------------------------------------------------------------------
(* run(): between iterations. *)

Busy == {i \in DOMAIN t : t[i].status # "idle"}

\* Where the cells are by committed moves only.
Committed == [c \in Cells |->
    IF \E i \in Busy : c \in DOMAIN t[i].moved_cells
    THEN t[CHOOSE i \in Busy : c \in DOMAIN t[i].moved_cells].moved_cells[c].old
    ELSE bel[c]]

Abstract == INSTANCE PlacementMap WITH placement <- Committed

\* The placer before it leaves a legal placement, every cell in its region.
Init ==
    /\ bel \in Placements
    /\ bel_to_cell = [b \in Bels |->
                        IF \E c \in Cells : bel[c] = b
                        THEN CHOOSE c \in Cells : bel[c] = b ELSE None]
    /\ total_wirelen = Wirelength
    /\ min_wirelen = total_wirelen
    /\ iter = "first"
    /\ stage = "between"
    /\ parts = <<>> /\ axis = 1
    /\ threads \in ThreadCounts
    /\ t = <<>>
    /\ Abstract!Legal
    /\ \A c \in Cells : bel[c] \in Region[c]

\* Seeded fault: goes on when the wirelength has stayed the same.
IterateOnTies ==
    /\ stage = "between"
    /\ iter = "first" \/ total_wirelen <= min_wirelen
    /\ min_wirelen' = total_wirelen
    /\ stage' = "cutting"
    /\ parts' = <<WholeDesign>> /\ axis' = 1
    /\ UNCHANGED <<bel, bel_to_cell, total_wirelen, iter, threads, t>>

Iterate ==
    /\ stage = "between"
    /\ iter = "first" \/ total_wirelen < min_wirelen
    /\ min_wirelen' = total_wirelen
    /\ stage' = "cutting"
    /\ parts' = <<WholeDesign>> /\ axis' = 1
    /\ UNCHANGED <<bel, bel_to_cell, total_wirelen, iter, threads, t>>

\* do_partition(): every part is cut in two, on each axis in turn, until there
\* are enough.
CutParts ==
    /\ stage = "cutting" /\ Len(parts) < threads
    /\ \E point \in [DOMAIN parts -> 0..Cardinality(Cells)] :
          /\ \A i \in DOMAIN parts : point[i] \in PivotPoints(Cardinality(parts[i].cells))
          /\ parts' = [j \in 1..(2 * Len(parts)) |->
                         LET i == (j + 1) \div 2
                         IN  Halves(parts[i], point[i])[IF j = 2 * i THEN 2 ELSE 1]]
    /\ axis' = 3 - axis
    /\ UNCHANGED <<bel, bel_to_cell, total_wirelen, min_wirelen, iter, stage, threads, t>>

StartThreads ==
    /\ stage = "cutting" /\ Len(parts) >= threads
    /\ t' = [i \in DOMAIN parts |-> ThreadState(parts[i])]
    /\ stage' = "refining"
    /\ parts' = <<>> /\ axis' = 1
    /\ UNCHANGED <<bel, bel_to_cell, total_wirelen, min_wirelen, iter, threads>>

Join ==
    /\ stage = "refining"
    /\ \A i \in DOMAIN t : t[i].pass = "over"
    /\ total_wirelen' = Wirelength
    /\ iter' = "later"
    /\ stage' = "between"
    /\ t' = <<>>
    /\ UNCHANGED <<bel, bel_to_cell, min_wirelen, parts, axis, threads>>

Return ==
    /\ stage = "between"
    /\ iter = "later" /\ total_wirelen >= min_wirelen
    /\ stage' = "returned"
    /\ UNCHANGED <<bel, bel_to_cell, total_wirelen, min_wirelen, iter, parts, axis, threads, t>>

-----------------------------------------------------------------------------
(* run_iter(): the steps of a thread. *)

globals == <<total_wirelen, min_wirelen, iter, stage, parts, axis, threads>>
tables == <<bel, bel_to_cell>>

\* The move is complete; it is accepted, or given up.
Plan(i, s) ==
    t' = [t EXCEPT ![i] = [compute_total_change(s) EXCEPT
                             !.status = "planned", !.used_bels = {}, !.cursor = <<>>]]

GiveUp(i, s) == t' = [t EXCEPT ![i] = reset_move_state(RevertLocal(s))]

\* random_bel_for_cell: any bel of the right type in the part and the cell's
\* region, for a cluster's root one with the same z; the cell's own is skipped.
RandomBels(s, c) ==
    {b \in CanHold[c] \cap Region[c] :
        InPart(s.part, b) /\ (RootOf[c] # None => b[3] = bel[c][3])}

Skip(i) ==
    /\ t[i].status = "idle" /\ t[i].pass = "cells"
    /\ \E c \in t[i].todo :
        /\ bel[c] \in RandomBels(t[i], c)
        /\ t' = [t EXCEPT ![i].todo = @ \ {c}]
    /\ UNCHANGED <<tables, globals>>

\* single_cell_swap(): c to bel b, and the cell there to the bel of c.
SwapCell(i) ==
    /\ t[i].status = "idle" /\ t[i].pass = "cells"
    /\ \E c \in t[i].todo :
        /\ RootOf[c] = None
        /\ \E b \in RandomBels(t[i], c) \ {bel[c]} :
            LET bound == bel_to_cell[b]
                s == add_to_move([t[i] EXCEPT !.todo = @ \ {c}],
                                 [d \in {c, bound} \ {None} |-> IF d = c THEN b ELSE bel[c]])
            IN  \/ /\ MayMove(s, c, b)
                   /\ bound # None => /\ bound \notin Locked /\ RootOf[bound] = None
                                      /\ MayMove(s, bound, bel[c])
                   /\ Plan(i, s)
                \/ GiveUp(i, s)
    /\ UNCHANGED <<tables, globals>>

\* Member k of the cluster of r, the root being the first, and its place when
\* the root is at b.
Member(r, k) == IF k = 0 THEN r ELSE Children[r][k]
PlaceOf(r, b, k) == IF k = 0 THEN b ELSE Shift(b, Offset[Children[r][k]])

\* getClusterPlacement(): is there a place for every member?
Fits(r, b) == \A k \in DOMAIN Children[r] : PlaceOf(r, b, k) \in CanHold[Member(r, k)]

\* chain_swap(): the cluster of c so that c is at b, and so on with the
\* clusters in its way.
SwapCluster(i) ==
    /\ t[i].status = "idle" /\ t[i].pass = "cells"
    /\ \E c \in t[i].todo :
        /\ RootOf[c] = c
        /\ \E b \in RandomBels(t[i], c) \ {bel[c]} :
            LET s == [t[i] EXCEPT !.todo = @ \ {c}]
            IN  \/ /\ Fits(c, b)
                   /\ t' = [t EXCEPT ![i] = [s EXCEPT !.status = "planning",
                                                     !.cursor = <<c, b, 0>>]]
                \/ ~Fits(c, b) /\ GiveUp(i, s)
    /\ UNCHANGED <<tables, globals>>

\* After a member: the next one, the next displaced cluster, or the end.
Onward(i, s) ==
    LET r == s.cursor[1]
        next == Head(s.displaced_clusters)
    IN  \/ /\ s.cursor[3] < Len(Children[r])
           /\ t' = [t EXCEPT ![i] = [s EXCEPT !.cursor[3] = @ + 1]]
        \/ /\ s.cursor[3] = Len(Children[r])
           /\ s.displaced_clusters # <<>>
           /\ IF Fits(next[1], next[2])
              THEN t' = [t EXCEPT ![i] = [s EXCEPT
                            !.cursor = <<next[1], next[2], 0>>,
                            !.displaced_clusters = Tail(@)]]
              ELSE GiveUp(i, s)
        \/ /\ s.cursor[3] = Len(Children[r])
           /\ s.displaced_clusters = <<>>
           /\ Plan(i, s) \/ GiveUp(i, s)

\* One member of a cluster on its way to bel 'new'.  The cell there, if any, is
\* sent to the member's old bel, its whole cluster with it.
Displace(i) ==
    LET s == t[i]
        c == Member(s.cursor[1], s.cursor[3])
        new == PlaceOf(s.cursor[1], s.cursor[2], s.cursor[3])
        old == bel[c]
        bound == bel_to_cell[new]
        entered == [add_to_move(s, [d \in {c} |-> new]) EXCEPT !.used_bels = @ \cup {new}]
        root == Shift(old, [k \in 1..3 |-> bel[RootOf[bound]][k] - bel[bound][k]])
        Enters == c \notin DOMAIN s.moved_cells /\ MayMove(s, c, new) /\ new \notin s.used_bels
        Yields == /\ bound # None /\ bound \notin DOMAIN s.moved_cells \cup {c}
                  /\ bound \notin Locked
        ToFree == Enters /\ bound = None /\ new \notin Unavailable
        PastCell == /\ Enters /\ Yields /\ RootOf[bound] = None
                    /\ old \notin s.used_bels \cup {new} /\ MayMove(s, bound, old)
        PastCluster == Enters /\ Yields /\ RootOf[bound] # None /\ root \in Bels
    IN  /\ s.status = "planning"
        /\ \/ ToFree /\ Onward(i, entered)
           \/ /\ PastCell
              /\ Onward(i, [add_to_move(entered, [d \in {bound} |-> old]) EXCEPT
                                !.used_bels = @ \cup {old}])
           \/ /\ PastCluster
              /\ Onward(i, [entered EXCEPT
                                !.displaced_clusters = Append(@, <<RootOf[bound], root>>)])
           \/ ~(ToFree \/ PastCell \/ PastCluster) /\ GiveUp(i, s)
        /\ UNCHANGED <<tables, globals>>

\* After a pass over the cells, on every other pass the tiles are swapped.
NextPass(s) ==
    IF s.m + 1 < InnerIters
    THEN [s EXCEPT !.pass = "cells", !.m = @ + 1, !.todo = Movers(s.part.cells)]
    ELSE [s EXCEPT !.pass = "over"]

CellsDone(i) ==
    /\ t[i].status = "idle" /\ t[i].pass = "cells" /\ t[i].todo = {}
    /\ LET s == t[i]
           At(tile) == {c \in s.part.cells : TileOf(bel[c]) = tile}
           tiles == (s.part.lo[1]..s.part.hi[1]) \X (s.part.lo[2]..s.part.hi[2])
       IN  t' = [t EXCEPT ![i] =
                    IF s.m % 2 # 0 THEN NextPass(s)
                    ELSE [s EXCEPT !.pass = "tiles",
                                   !.tile2cell = [x \in tiles |-> At(x)],
                                   !.todo = {x \in tiles : At(x) # {}}]]
    /\ UNCHANGED <<tables, globals>>

\* Every cell of a tile to the same z of another, unless one is locked or its
\* cluster reaches out of the tile.
Stays(s, tile) ==
    \E c \in s.tile2cell[tile] :
        \/ c \in Locked
        \/ RootOf[c] # None /\ \E d \in Cells :
               RootOf[d] = RootOf[c] /\ TileOf(bel[d]) # tile

\* do_tile_swap()
SwapTiles(i) ==
    /\ t[i].status = "idle" /\ t[i].pass = "tiles"
    /\ \E from \in t[i].todo, to \in DOMAIN t[i].tile2cell :
        LET s == [t[i] EXCEPT !.todo = @ \ {from}, !.swap = <<from, to>>]
            cells == s.tile2cell[from] \cup s.tile2cell[to]
            Dest(c) == IF c \in s.tile2cell[from] THEN <<to[1], to[2], bel[c][3]>>
                       ELSE <<from[1], from[2], bel[c][3]>>
            moved == add_to_move(s, [c \in cells |-> Dest(c)])
        IN  \/ from = to /\ t' = [t EXCEPT ![i].todo = @ \ {from}]
            \/ /\ from # to
               /\ ~Stays(s, from) /\ ~Stays(s, to)
               /\ \A c \in cells : MayMove(s, c, Dest(c))
               /\ Plan(i, moved)
            \/ from # to /\ GiveUp(i, moved)
    /\ UNCHANGED <<tables, globals>>

TilesDone(i) ==
    /\ t[i].status = "idle" /\ t[i].pass = "tiles" /\ t[i].todo = {}
    /\ t' = [t EXCEPT ![i] = NextPass([t[i] EXCEPT !.tile2cell = <<>>])]
    /\ UNCHANGED <<tables, globals>>

\* Cells leave the bels they have and some of them are bound to where 'to'
\* says.
Rebind(cells, to) ==
    /\ bel' = [c \in Cells |->
                IF c \in DOMAIN to THEN to[c]
                ELSE IF c \in cells THEN None ELSE bel[c]]
    /\ bel_to_cell' = [b \in Bels |->
                IF \E c \in DOMAIN to : to[c] = b
                THEN CHOOSE c \in DOMAIN to : to[c] = b
                ELSE IF bel_to_cell[b] \in cells THEN None ELSE bel_to_cell[b]]

\* bind_move(): all moved cells are unbound, then bound one by one for as long
\* as their new bels are available.
bind_move(i) ==
    LET moved == t[i].moved_cells
        Free(b) == /\ b \notin Unavailable
                   /\ bel_to_cell[b] \in DOMAIN moved \cup {None}
        New(cs) == [c \in cs |-> moved[c].new]
    IN  /\ t[i].status = "planned"
        /\ \/ /\ \A c \in DOMAIN moved : Free(moved[c].new)
              /\ Rebind(DOMAIN moved, New(DOMAIN moved))
              /\ t' = [t EXCEPT ![i].status = "bound"]
           \/ \E cs \in SUBSET {c \in DOMAIN moved : Free(moved[c].new)} :
              /\ \E c \in DOMAIN moved : ~Free(moved[c].new)
              /\ Rebind(DOMAIN moved, New(cs))
              /\ t' = [t EXCEPT ![i].status = "fail"]
        /\ UNCHANGED globals

\* check_validity() of the bels left and the bels taken; commit_move().
isBelLocationValid(b) ==
    {c \in Cells : bel[c] # None /\ TileOf(bel[c]) = TileOf(b)} \in LegalTiles

\* Seeded fault: only the bels that cells have left are checked.
CheckOldBels(i) ==
    LET s == t[i]
        swapped == [s.tile2cell EXCEPT ![s.swap[1]] = s.tile2cell[s.swap[2]],
                                       ![s.swap[2]] = s.tile2cell[s.swap[1]]]
    IN  /\ s.status = "bound"
        /\ t' = [t EXCEPT ![i] =
              IF \A c \in DOMAIN s.moved_cells :
                    isBelLocationValid(s.moved_cells[c].old)
              THEN reset_move_state(commit_move(
                     [s EXCEPT !.tile2cell = IF s.swap = <<>> THEN @ ELSE swapped]))
              ELSE [s EXCEPT !.status = "fail"]]
        /\ UNCHANGED <<tables, globals>>

CheckMove(i) ==
    LET s == t[i]
        swapped == [s.tile2cell EXCEPT ![s.swap[1]] = s.tile2cell[s.swap[2]],
                                       ![s.swap[2]] = s.tile2cell[s.swap[1]]]
    IN  /\ s.status = "bound"
        /\ t' = [t EXCEPT ![i] =
              IF \A c \in DOMAIN s.moved_cells :
                    /\ isBelLocationValid(s.moved_cells[c].old)
                    /\ isBelLocationValid(s.moved_cells[c].new)
              THEN reset_move_state(commit_move(
                     [s EXCEPT !.tile2cell = IF s.swap = <<>> THEN @ ELSE swapped]))
              ELSE [s EXCEPT !.status = "fail"]]
        /\ UNCHANGED <<tables, globals>>

\* Seeded fault: what the failed move has bound is not unbound first.
RevertBindsOver(i) ==
    LET moved == t[i].moved_cells
    IN  /\ t[i].status = "fail"
        /\ bel' = Put([c \in DOMAIN moved |-> moved[c].old], bel)
        /\ bel_to_cell' = [b \in Bels |->
                IF \E c \in DOMAIN moved : moved[c].old = b
                THEN CHOOSE c \in DOMAIN moved : moved[c].old = b
                ELSE bel_to_cell[b]]
        /\ t' = [t EXCEPT ![i] = reset_move_state(RevertLocal(t[i]))]
        /\ UNCHANGED globals

\* revert_move() once the architecture's tables have been changed.
RevertMove(i) ==
    LET moved == t[i].moved_cells
    IN  /\ t[i].status = "fail"
        /\ Rebind(DOMAIN moved, [c \in DOMAIN moved |-> moved[c].old])
        /\ t' = [t EXCEPT ![i] = reset_move_state(RevertLocal(t[i]))]
        /\ UNCHANGED globals

ThreadStep(i) ==
    \/ Skip(i)
    \/ SwapCell(i)
    \/ SwapCluster(i)
    \/ Displace(i)
    \/ CellsDone(i)
    \/ SwapTiles(i)
    \/ TilesDone(i)
    \/ bind_move(i)
    \/ CheckMove(i)
    \/ RevertMove(i)

MainStep == Iterate \/ CutParts \/ StartThreads \/ Join \/ Return

Returned == stage = "returned" /\ UNCHANGED vars

Step == MainStep \/ \E i \in DOMAIN t : ThreadStep(i)

Next == Step \/ Returned

Spec == Init /\ [][Next]_vars

\* As long as some thread of the process can go on, one does; nothing is said
\* about which.  This is WF_vars(Step) with ENABLED Step written out: until
\* run() returns there always is a step, or TLC would report a deadlock.
FairSpec == Spec /\ ([]<>(stage = "returned") \/ []<><<Step>>_vars)

-----------------------------------------------------------------------------
(* What refinement has to keep. *)

Statuses == {"idle", "planning", "planned", "bound", "fail"}

TypeOK ==
    /\ bel \in [Cells -> Bels \cup {None}]
    /\ bel_to_cell \in [Bels -> Cells \cup {None}]
    /\ iter \in {"first", "later"}
    /\ stage \in {"between", "cutting", "refining", "returned"}
    /\ axis \in Axes
    /\ parts # <<>> => stage = "cutting"
    /\ t # <<>> => stage = "refining"
    /\ \A i \in DOMAIN t :
          /\ t[i].status \in Statuses /\ t[i].pass \in {"cells", "tiles", "over"}
          /\ t[i].status = "idle" => t[i].moved_cells = NoMove /\ t[i].used_bels = {}
          /\ t[i].status = "planning" <=> t[i].cursor # <<>>

\* Between moves, and while one is planned or bound, a thread's boxes of its
\* nets, patched pin by pin, are the boxes of the nets by its own map: the
\* committed ones before the move, the new ones after it.  The map has its own
\* cells where they are, or where the move takes them.
BoundsAreExact ==
    \A i \in DOMAIN t :
        LET s == t[i]
            before == RevertLocal(s).local_cell2bel
        IN  /\ \A n \in DOMAIN s.net_bounds :
                  /\ s.net_bounds[n] = Bounds(n, before)
                  /\ s.status # "planning" =>
                        Settled(s.new_net_bounds[n]) = Bounds(n, s.local_cell2bel)
            /\ \A c \in s.part.cells : before[c] = Committed[c]
            /\ \A c \in DOMAIN s.moved_cells :
                  s.local_cell2bel[c] = s.moved_cells[c].new

\* CellInfo::bel and the architecture's table agree, and the only cells without
\* a bel are those of a move that failed half-way.
PlacementIsIntact ==
    /\ \A c \in Cells : bel[c] # None => bel_to_cell[bel[c]] = c
    /\ \A b \in Bels : bel_to_cell[b] # None => bel[bel_to_cell[b]] = b
    /\ \A c \in Cells : bel[c] = None =>
          \E i \in DOMAIN t : t[i].status = "fail" /\ c \in DOMAIN t[i].moved_cells

\* Threads keep out of each other's way without asking each other: a move
\* takes a thread's own cells to bels of its part, and no bel a move leaves or
\* takes is wanted by another thread's.
ThreadsKeepToTheirParts ==
    LET Touched(s) == UNION {{m.old, m.new} : m \in Range(s.moved_cells)}
    IN  \A i \in DOMAIN t :
           /\ DOMAIN t[i].moved_cells \subseteq t[i].part.cells
           /\ \A b \in Touched(t[i]) : InPart(t[i].part, b)
           /\ \A j \in DOMAIN t \ {i} :
                 Touched(t[i]) \cap Touched(t[j]) = {}

\* The committed placement only ever changes by whole legal moves.
PlacementSpec == Abstract!Spec

\* Refinement comes to an end: the total must drop in every iteration.
RefineEnds == <>(stage = "returned")

\* No cell leaves the region it is constrained to.
RegionsKept == \A c \in Cells : Committed[c] \in Region[c]
=============================================================================

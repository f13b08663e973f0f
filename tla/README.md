# Formal models of nextpnr

nextpnr places and routes FPGA designs: it reads a netlist, packs it into the
cells of an architecture, gives every cell a bel and every net a tree of wires
and pips, and writes a bitstream. This directory holds TLA+ modules of the parts
whose correctness is a matter of *state* (tables that must agree, work that must
not be forgotten, locks), the TLC runs that check them on small instances, and
theorems, checked by TLAPS, that hold for every device, netlist or number of
threads. Costs, delays, heuristics and file formats are not modelled.

Contents: 1 system, 2 modules, 3 runs, 4 fairness, 5 proofs, 6 disagreements
between the code and what is said of it, 7 assumptions, 8 plan.

## 1. The system

A run is one process. `frontend/` builds a `Context` from Yosys JSON; the packer
of the architecture rewrites cells and nets; a placer binds cells to bels; a
router binds wires and pips to nets; the GUI, when there is one, does all this in
a worker thread and draws the design from others.

| Component | State | Operations | Hard behaviour | What makes it correct |
|---|---|---|---|---|
| binding of wires and pips, `kernel/base_arch.h`, `ice40/arch.h`, `generic/` | wire and pip tables, `NetInfo::wires`, on iCE40 the switch locks | bind, unbind, `ripupNet`, `lockNetRouting` | the same fact in three or four tables; a call that throws half way | each table can be read off the others; one owner per wire; one pip per switch |
| router1, `route/router1.cc` | arc queue, `wire_to_arcs`, `arc_to_wires` | setup, route an arc, rip up, timing pass | each arc is bound by tearing down others, its own path included | what is not queued is connected; the maps agree with the tables; done means routed |
| router2, `route/router2.cc` | books of each net (wire, pip, uses), use counts of wires and resources, reservations, queues, the bins of threads | setup, reserve wires, route in threads, look at congestion, bind net by net | counts that may drift; threads that share them; a binding that fails half way | the books are the routes found; the counts are those of the books; what is finally bound is a routed design |
| GPU router and its lease, `route/gpurouter.cc` | a lease file, a broker | route on the device, acquire, release | several processes, answers that come late | planned (the lease), out of reach (the kernels) |
| netlist, `kernel/nextpnr_types.cc` | `PortInfo`, `NetInfo::driver`, `users` | connect, disconnect, move, rename, copy | references both ways through indices that can be stale | a port and its net refer to each other |
| `kernel/indexed_store.h` | slots, free list in the slots | add, remove, clear | a list threaded through freed memory | indices stay valid, and are handed out once |
| generic frontend, `frontend/frontend_base.h` | `net_flatindex`, `net_old_indices`, `net_aliases` | make, name, alias and merge nets | nets that turn out to be one, in chains, in any order | joined signals have one net, others different ones; no name or index leads to an erased net |
| context lock, `kernel/basectx.h`, `gui/worker.cc` | two mutexes, pause and stop flags | lock, unlock, yield, lock_ui | a worker that yields in mid-change, a user who pauses or stops it | no drawing during a change; waiting threads draw; the lock is released |
| placement refinement, `place/parallel_refine.cc`, `place/detail_place_core.cc` | bel bindings, each thread's map of them, planned moves, bounding boxes | partition, swap cells, clusters and tiles, bind, check, commit, revert | threads on parts of one device, a move half bound while others look; boxes patched pin by pin | threads keep to their parts; a move happens as a whole or not at all; the boxes are exact |
| other placers, `place/placer1.cc`, `placer_heap.cc`, `placer_static.cc` | bel bindings, cost tables, linear systems | annealing, solving, legalising | displaced cells queued again | the legaliser is planned; the rest is numerical |
| timing, `kernel/timing.cc` | graph of ports, arrival times | topological sort, propagation | combinational loops | partly planned |
| hash containers, `kernel/hashlib.h` | chains in an entries vector | insert, erase, rehash | iteration while erasing | planned |
| seed racing, `python/seed_racing.py` | child processes | start, cancel, pick the best | processes that end late | planned |
| packers, bitstreams, chip databases, other architectures, GUI widgets, Python bindings, bba, 3rdparty | device rules, data, drawing | - | - | out of scope: rules and formats, no behaviour over time |

Components interact by direct calls on the shared `Context`. Router1 drives the
binding tables one hop at a time, router2 net by net from its own books;
refinement moves cells through the bel tables; the netlist operations use
`indexed_store`; the frontend's erased nets are what the packers' renaming
meets; every stage runs under the context lock. `PROJECT.json` lists every
component, modelled or not, the lines each definition stands for (`map`), and
the hazards at the lines where they bite.

## 2. The modules

**`RouteMap`** is the promise of the binding API: each wire is free or has one
owner (a net, the driving pip, a strength), changes hands only by being
released, and a net can be relabelled. **`BaseArch`** models
`common/kernel/base_arch.h`: `base_wire2net` and `base_pip2net` are the maps of
that name, `wires[n]` is `NetInfo::wires` with `Unbound` for an absent key;
`BindWire`, `UnbindWire`, `BindPip`, `UnbindPip` are the calls, `ripupNet` and
`lockNetRouting` those of `BaseCtx`. `Next` is for clients that test
availability first; `NextThrows` adds `bindPip` and `ripupNet` stopping at a
failed assertion after their first assignments, with the caller going on.
**`Ice40Routing`** is the version of `ice40/arch.h`, with `switches_locked`;
there all assertions precede all assignments, so a call that throws changes
nothing. With one pip per switch it is also the generic architecture's.

**`Router1`** extends `Ice40Routing`. Every iteration of router1's loops is one
action that makes at most one call into the architecture: `SetupNet`,
`UnbindOrphan`, `SetupNetDone` (`setup()`), `PopArc`, `ReleaseWire` (the release
loop), `RouteTrivialArc`, `FindPath` or `NoPath` (the search of `route_arc` and
`route_const_arc`), `RipupWire`, `RipupPip`, `KeepHop`, `BindHop` (the loop that
binds the path), `TimingPass`, `RipupLateSink`, `TimingPassDone`, `Finish`.
`pc = "crashed"` is an assertion that failed, `"rejected"` a `log_error` of
setup. The A* search is abstracted to *any* simple path whose hops pass its
conflict tests, and the priority queue to *any* queued arc: what is true of every
state here is true for every cost function.

**`RoutedDesign`** is what both routers are asked for: `checkRoutedDesign` of
`router1.cc`, the state of the tables when a router starts, and which paths of
pips a search may return (`PathsBack`, `LeadsTo`).
**`InitialRoutings`** enumerates such states for small devices; those of
router1's runs share **`Router1Devices`**.

**`Router2`** extends the same tables. `nd_wires` and `nd_res` are
`PerNetData::wires` and `resources`, `curr_cong` and `reserved` members of
`PerWireData`, `job[t]` is what worker `t` has left and holds (four quadrants,
four halves, and the thread that runs alone), `stage` the barrier between them.
Actions follow the code's order: `SetupWires` and `ReserveWires` (chains of
wires with one way only), `DoRoute`, then per worker `TakeNet`, `KeepArc`,
`RipupArc`, `RouteArc`, `RouteFails`, `NetDone`, and `NextStage` where threads
are joined; `UpdateCongestion`; then `BindNet`, `UnbindOld`, `CheckArc`,
`BindRoot`, `BindPip`, `NetBound`, `AllBound`. As in router1 the search is *any*
simple path that passes its tests, and which net misses its timing is any of
`LateNets`.

**`PlacementMap`** is what refinement promises: it takes one legal placement to
another, with nothing in between. **`DetailPlace`** is the refinement with
threads: `Iterate` begins with the whole placed design, `CutParts` cuts every
part in two until there is one per thread, `StartThreads` starts them.
`SwapCell`, `SwapCluster` and `SwapTiles` plan a move against the thread's own
map (`local_cell2bel`) and patch bounding boxes; a chain of clusters is planned
member by member (`Displace`), with the thread's place in it as `cursor` and the
clusters still to be moved as `displaced_clusters`. `bind_move` binds a move under
the lock, `CheckMove` tests it under the shared lock and commits, `RevertMove`
takes it back, `Join` adds up the wirelength. Each is a step of its own, so that
other threads run in between, also while a chain is planned: a cluster may have
cells in another thread's part, and `chain_swap` reads their `bel`. Its `Rebind` is `bindBel` and `unbindBel` of
`ice40/arch.h` as these clients call them.

**`SlotMap`** is the promise of `indexed_store` (a partial map of indices to
objects); **`IndexedStore`** the slots with the free list threaded through them.

**`Netlist`** models the operations of `CellInfo` on ports, with `ports`, `nets`,
`driver` and `users` as in the code. A failed assertion ends the program and is
not a step.

**`FrontendNets`** models `GenericFrontend::import_module`, one action per net
made, port joined or netname imported; `stage` is the recursion over instances.
The hierarchy is not a constant: what each port or name refers to is chosen as it
is met, so a run covers every small design. A log error stops the import.
`PadNet` is the renaming of pad nets by `nxio_to_sb` of iCE40 packing, the part
of packing that acts on the frontend's aliases.

**`ContextLock`** models `lock`, `unlock`, `lock_ui`, `unlock_ui` and `yield` of
`BaseCtx`, for a worker that runs stages and threads that draw, with pausing,
going on and stopping, which take effect when the worker logs. `owed` is a
history variable: who was waiting when the worker yielded. Its specification is
`LockSpec`, as the proofs about the lock stand in one module with those about the
store.

`X_proofs` holds the theorems about `X`, `Kernel_proofs` those about `IndexedStore`
and `ContextLock`, `MCX` the definitions the runs of `X` need. A
definition commented *seeded fault* is a deliberately wrong version of the one
after it; it takes no part in any specification and shows that a property would
notice such a mistake.

## 3. The runs

| Run | Configuration | Bound | Shows |
|---|---|---|---|
| `base_arch` | `MCBaseArch.cfg` | 3 wires, 3 pips (two into one wire), 2 nets, 2 strengths | for clients that test first, what a net records is bound and what is bound is recorded, `RouteMap` is implemented |
| `router1` | `MCRouter1.cfg` | 7 wires, 12 pips; three designs, each with every driven initial routing, weak, locked or locked part of the way | `check()` holds between iterations, the maps agree, no assertion fails, done means `checkRoutedDesign()`, locked wires of other nets stay, and an arc in hand is always brought to an end |
| `router1_switched` | `MCRouter1Switched.cfg` | a switch shared between two nets' paths, a pip ruled out, one timing pass, routing that stops anywhere | routed arcs stay connected when binding a hop tears down another net's wire or the path being bound; the tables stay consistent |
| `router2` | `MCRouter2.cfg` | 8 wires, 3 nets of which 2 are routed at a time or a constant with one, pips that share a resource and a switch, routing held weakly, by the placer or locked, threads from 3 queued nets on, one net that may be late | the counts and resources are those of the routes, the books are routes from the source, reserved wires are forced, nothing throws but in the two cases of section 6, done means routed, strong routing stays, and no round hangs |
| `router2_threads` | `MCRouter2Threads.cfg` | the same device, unrouted, threads from 2 nets on | violates `ThreadsKeepApart`, section 6 |
| `indexed_store` | `MCIndexedStore.cfg` | 4 slots, 2 objects | the free list is complete, `SlotMap` is implemented |
| `netlist` | `MCNetlist.cfg` | 2 cells, 2 ports each, 2 nets, 2 users per net | ports and nets refer to each other |
| `frontend_nets` | `MCFrontendNets.cfg` | 3 signals, 2 instances of 2 ports, 2 labels, 3 nets made, one clash; `Cases` keeps two families of designs: instances without names, and one instance with names, constants and pads | joined signals, and only these, share a net; no index leads to an erased net; in a flat design every alias leads to its net |
| `context_lock` | `MCContextLock.cfg` | 3 stages, 2 drawing threads | no change while drawing, a yield lets in a thread that waits, only a pause keeps a thread waiting |
| `context_lock_paused` | `MCContextLockPaused.cfg` | the same | violates `GuiGetsTheLock`, section 6 |
| `detail_place` | `MCDetailPlace.cfg` | 7 cells, two clusters (one upright, one that may reach over two parts) and a locked cell among them, on 3 columns of tiles, 1 or 2 threads, every legal placement that leaves 3 cells in place | bounding boxes are exact, threads keep to their parts, failed moves leave nothing behind, `PlacementMap` is implemented, refinement ends |
| `detail_regions` | `MCDetailPlaceRegions.cfg` | the same with a region for one cell | violates `RegionsKept`, section 6 |

Why the bounds are enough to meet the interesting cases. *Binding*: two nets,
two pips into one wire and two switches with a common wire are what it takes for
each pair of tables to disagree. *Router1*: on the crossing device either net
can go through either of two wires or both, so arcs of a net share a prefix, a
net is forced off its path, a path leads through the wires of two nets, and a
sink of one net is taken by another; the constant net has a sink that carries
the constant by itself, and one arc's sink is its own source. In the switched
device binding a pip takes away a wire that the path itself needs. *Router2*:
two nets meet on a wire, on a resource and on a switch the books know nothing
of, so congestion, resource conflicts and failed bindings all occur; one net has
a thread on the left, one on the right and one none, and two arcs of a net may
share their sink. *Store*: four slots hold free lists of every length and order
up to four. *Netlist*: with two users per net an entry can be removed before,
after or instead of another. *Frontend*: two instances of two ports can join
three signals in chains, so a merged net is merged again; symmetry is used over
what the module treats alike. *Lock*: a thread may ask in any stage, and a stage
may end, throw, pause or yield while it waits; three stages let what one leaves
behind meet the next two. *Refinement*: clusters run into each other and displace single
cells, a tile may hold what another refuses, and the cut falls between the two
clusters, beside them or through one; with one inner iteration both kinds of pass are run.
`router2` and `frontend_nets` take about two minutes, the others less.

Named bounds: `MaxTimingRipups` (50 in the code, 1 or 0 here), `MaxNets`,
`MaxUnique`, `MaxStages`, `Indices`, `MTThreshold` (200 in the code),
`InnerIters`. A resource entry in `Router2` counts to "two or more", which is
all the code can tell apart. Deadlock is checked except in the frontend, where
an import ends or stops at an error or a bound, in the netlist, where all
references may be in use, and in the lock, where all stages have been run. The
routers and refinement end in a stuttering action `Returned`.

## 4. Fairness

`Router1!FairSpec` assumes weak fairness of `Next`: one thread, and nothing in it
waits. `EveryArcReturns` says that an arc in hand is bound, given up or
fails: router1 is *not* claimed to terminate, since two arcs may take wires from
each other for ever under some costs. `Router2!FairSpec` assumes
weak fairness of routing steps and of binding steps: some thread runs, and
threads are joined. `EveryRoundEnds` says that a round of routing or binding
ends; that congestion is ever resolved depends on costs and is not claimed.
`DetailPlace!FairSpec` says only that some thread goes on, not which; `RefineEnds`
follows because passes are finite and iterations need a drop in wirelength.
`ContextLock` assumes weak fairness of the
worker and of each thread that has begun to draw. A `std::mutex` is not fair and
none of its acquisitions is assumed to succeed under contention: a thread may
lose the race each time. Waiting threads are served because of the second mutex
and `yield`, which is what `OnlyAPauseKeepsTheGuiWaiting` shows. A user who
paused is assumed to let the worker go on, as long as the main thread is not
itself blocked (weak fairness of `Continue`). No fairness of `Pause`,
`Terminate`, or of a user wanting to draw.

## 5. The proofs

All are for every value of the constants under the named assumptions in the
modules (`RoutingAssumption`, `Router2Assumption`, `FrontendAssumption`, ...),
which only say that constants have their types and the extra values are new, and,
for the routers, that initial routing is of the kind section 7 describes. What a
theorem asks beyond that is in its `ASSUME`. Where a model walks over a graph, the
proofs use that the result is the least set closed under a step of the walk; that
and the existence of least elements follow from the finite subsets of a set being
well-founded, without induction over a number.

- **Binding.** `TypeCorrectThrows`, `BoundIsAlwaysRecorded` hold even when
  `bindPip` throws half way. `ContextCheckPasses`, `NoPipIsLost` for disciplined
  clients, and `ArchTypeCorrect`, `ArchStaysConsistent`, `SwitchesAreExclusive`
  on iCE40, rest on `Consistent`: neither "what is recorded is bound" nor "a held
  pip drives its wire" is inductive alone, because unbinding follows a table to
  find what to clear in another. `ImplementsRouteMap` and `ArchImplementsRouteMap`
  map each call to one step of `RouteMap` (`ripupNet` to one release per
  iteration). The iCE40 theorems are about every client of the tables; the runs
  check them through the routers, which are two such clients.
- **Router1.** `RouterTypeCorrect` needs `InHand` (an arc is in hand, with hops
  left, whenever one is needed). `RoutingKeepsTablesConsistent` shows that each
  step makes at most one call of the architecture, and reuses its lemmas.
  `RouterMapsAgree` proves the two maps inverse for any device, using `Phases`:
  which wires are still to be released in the phase the router is in. Lemma
  `Steps` then sorts the actions by what they do, wire by wire, to the routing
  and the maps (an orphan goes, a wire is released, ripped up, taken for the arc
  in hand), and the other theorems look at steps in this form only.
  - `RoutedArcsStayConnected` (`RoutedArcsAreConnected`). `RoutesLead`, that the
    wires of every arc not queued lead from its sink to the source, is not
    inductive while a path is being bound; `PlanLeads` says that the arc in hand
    will lead back when its plan is carried out, or is queued because a rip-up
    took a wire of its own. Asked: no loop in the initial routing (`NoLoop`).
  - `CheckAlwaysHolds` (`CheckHolds`). `Owned`: a wire registered for an arc is
    bound to its net; `Used`: an unlocked wire serves an arc or is about to be
    removed by setup. Asked: `Driven` initial routing.
  - `LockedWiresStay` (`LockedWiresOfOthersStay`). The searches test most wires
    they pass; `Clear` carries along that the others are held by nobody's lock.
    Asked: `LocksKeepClear`, which says this of the initial routing.
  - `AssertionsNeverFail` (`NoAssertionFails`). `Asserted`: nobody gets in the way
    of an arc that needs no path, and the plan goes around pips ruled out.
    Asked: `Driven`, `PipsUsable`, `TrivialSinksApart`.
  - `DoneMeansLegal` (`DoneMeansRouted`). All of the above, and three facts about
    the whole: every wire of a route leads on to its sink (`Serves`), no set of
    wires of a net drives itself in a circle, now or when the plan is carried out
    (`NoLoops`), and locked wires serve as well (`LocksUsed`). At the end no arc is
    queued, so what a net holds is the union of its arcs' routes, and the walk of
    `checkRoutedDesign` reaches all of it: what it did not reach would be a loop.
    Asked besides: `SourcesBare`, `SkippedBare`, `LocksServe`, `ConstantsEnd`.

  These hypotheses are definitions of `Router1`, which TLC evaluates on the designs
  of the runs (`CrossHypotheses`, `SwitchedHypotheses`); section 7 says why they are
  there.
- **Router2.** `BindingKeepsTablesConsistent` and `StronglyBoundIsKept` rest on
  `Binding`: besides the architecture's types and `Consistent`, `BindPlan` says
  that what is still to be unbound is the net's and is held weakly enough, and
  that nothing is bound before all of it is gone. `CountsAreRight` proves
  `CongestionCounts` through `Books`: a rip-up and a new route change the books of
  one net only (`OneNetChanges`), a wire's count goes down when the last arc
  leaves it (`UnbindRouteCounts`) and up when the first takes it
  (`BindRouteCounts`), for any number of arcs in any order.
  - `BooksStayTheRoutes` (`BooksAreTheRoutes`). The inductive invariant `Routing`
    adds to `Binding` and `Books` the jobs and the routes. `Jobs`: no net is in the
    hands of two workers, and what a worker is to route is not routed, so that no
    route is entered twice, however threads interleave. `Routes`: the walk back
    from the sink of a routed arc is complete, and a wire's count is that of the
    routed arcs whose walk passes it. The walk is a recursive function on sets of
    wires; it is shown to return the least closed set (`WalkIsLeast`), so that a
    change of the books elsewhere leaves a route what it was. Asked:
    `ConstantsStart`.
  - `ResourcesStayCounted` (`ResourcesAreCounted`). `ResourceBooks` besides says
    that an entry with count one stands for one use at most: it is what lets the
    entry be dropped, although counts above one never come down. Asked besides:
    `OneValue` of each initial routing.
  - `RouterTypes` (`TypeOK`) needs all of this, as no count going below zero is
    part of it; `PlanTypes` and `CountsNat` are the rest. Asked besides:
    `BoxesOnGrid`.
  - `ReservedAreForced` (`ReservedWiresAreForced`), with nothing asked. `Reserved`
    says that a wire reserved for a net it was not bound to is on every way to one
    of its sinks that is left, where a way must go around the wires of others;
    `ReserveWires` claims wires in any order of the nets, and a claim only ever
    takes ways away from other nets.
  - `DoneIsRouted` (`DoneMeansRouted`). The check walks what a net holds; the books
    say what a net is to hold. `Finishing` relates them through the rounds: every
    net with a driver waits in the queue, is in a worker's hands, or has every arc
    routed or needing no route (`NetsCovered`, `JobsCovered`); a sink in the books
    belongs to a routed arc (`SinksServed`); what is held leads back to where its
    net may start, and what is held strongly does so by wires held strongly
    (`HeldRooted`, `SetupRooted`); where a net starts, nobody else has a wire
    (`StartsFree`). `RoundOfBinding` is the key: in a round of binding, an arc
    that was looked at and is still routed is bound along its route, and what a
    net holds is on such a route or was there before; so when the router stops, each
    net holds its routes and what is strong, and nothing else. Asked: `ConstantsStart`,
    `ConstantsDriven`, `SinksEnd`, and of each design `WellRooted`, `OwnStarts`.
  - `NothingThrows` (`NoAssertionFails`). `Sound` adds that routes lead to a wire
    the net starts at (`Grounded`), that the books have a wire without a pip only there
    (`BooksBare`), that no two pips of a route share a switch (`BodySwitches`), and that
    what is still to be bound finds its wires and pips free, unless the net holds
    something stronger than the router may release (`PlanFits`). Wires are claimed
    before any arc is routed anew (`Unstarted`), and a claim is stopped at a sink only
    (`ChainStopsAtSink`), so what throws there is a sink closed to all. Asked:
    `ConstantsStart`, `SinksEnd`, `WaysFit`, and of each design `OneValue`,
    `WellRooted`, `OwnStarts`.

  The hypotheses are definitions of `Router2`, evaluated by TLC on the designs of
  the runs (`CrossHypotheses` of `MCRouter2`).
- **Indexed store.** `FreeListStaysComplete` is itself inductive once the free
  list is named as a sequence (`NameFreeList`) rather than as a chain of slots;
  `StoreGrowsOnlyWhenFull` and `StoreImplementsSlotMap` follow from it.
- **Netlist.** `PortsStayKnown` and `NetsStayReferring` are inductive only
  together; assumed: `~Retype`, `~MoveWithin` (section 7). Distinct ports never
  share an index is what makes removal by index safe, and is part of it.
- **Frontend.** `FlatIndexStaysLive` needs `OldIndicesComplete`: the list kept
  for a net holds every index redirected to it, which is what lets a merge
  redirect chains; assumed: `~Loops`.
  - `NetsStayTheJoinedSignals` (`NetsAreTheJoinedSignals`), at every moment of the
    import. The property speaks of `JoinedTo`, the least set closed under the
    ports met so far. `Joining` carries along a partition: `Linked`, the class of
    a signal, is what its net stands for (`Whole`, `Sound`); ports join signals of
    one class only (`EdgesMet`, `Close`), and signals whose ports were not met
    stand alone (`PortsUnmet`). A merge unites two classes, and the least closed
    set is then shown to be the class (`JoinedIsLinked`). Assumed: `~Loops`.
  - `FlatAliasesResolve` (`AliasesResolve`), from `FlatInvariant`: names not yet
    imported are free (`LabelsFree`), aliases lead to nets that list them
    (`AliasesLead`). Asked: no netname has the form of an anonymous net's
    (`Labels \cap Bits = {}`); `~Loops` is not needed.
- **Context lock.** `DrawnInPeace`, `YieldsServeTheGui`, `StagesReleaseTheLock`
  from `IInv`, which ties each thread's place to the mutexes it holds, for any
  set of threads and number of stages; the last one assumes `~Unguarded`.
- **Refinement.** `PlacementRefined` (`PlacementSpec`), `PlacementStaysIntact`,
  `PartsAreKept` (`ThreadsKeepToTheirParts`), `BoxesStayExact` (`BoundsAreExact`)
  and `TypesHold` (`TypeOK`), for any device, number of threads and interleaving,
  from one inductive invariant: `IInv` and the legality of the committed placement,
  and on top of it `Boxes` for the bounding boxes. `Tables`: the two tables agree but
  for a move that failed half way. `Cutting`: the parts so far are apart
  (`Split`): they share no cell, and no bel of one has a cell of another.
  `Refining` says of each thread that its move takes unlocked cells of its part
  from one bel of its part each to one each (`MoveOK`), has whole clusters, with
  what is missing still in the chain (`Whole`, `Remaining`), and is where its
  status says, planned, bound, or part of the way (`WhereOK`).
  - A thread holds no lock while it plans. It may rely on the cell it finds on a
    bel of its part being its own, since the parts are apart (`BoundInPart`), and
    on the cells of a cluster in another part not being on their way, since that
    other thread would have to move the whole cluster (`NotInTransit`).
  - Parts are made of whole tiles, so what `CheckMove` sees on the tiles of its
    move is that thread's doing only, and its test is one of the placement about
    to be committed. `PlacementMap` asks of clusters that they keep their shape,
    which follows from how places are computed from the root's (`Shaped`).
  - The committed placement is, part by part, that thread's `HomeOf`; a commit is
    one step of `PlacementMap`, everything else a stutter.
  - Cutting at the pivot leaves both halves apart because the pivot is the
    coordinate of a cell; the least and greatest coordinates exist by
    well-foundedness.
  - `Boxes` says that a thread's map has its cells where they are, with the cells of
    its move where it takes them; that the committed boxes are those before the
    move (`Before`); and that each new box is the one the net has by the map or is
    marked to be computed afresh (`Tracked`), and where it is unmarked is the
    committed one (`Untouched`). The second half is what `reset_move_state` relies
    on, which restores marked boxes only. A pin that moves keeps an edge and its
    count right unless the last pin leaves it (`EdgeMoves`, and upside down for the
    upper edge: `PinMovesBox`); a cell with several pins on a net, and a move of
    several cells, follow by counting, as the folds of the model are functions on
    the subsets of a range of numbers that exist by well-foundedness (`FoldIsThere`,
    `FoldRuns`). Coordinates are any integers, nets of any length; a net may have
    the same cell on many pins.

Only model-checked:

- liveness (`EveryArcReturns`, `EveryRoundEnds`, `RefineEnds`,
  `OnlyAPauseKeepsTheGuiWaiting`), because the prover does not handle fairness;
- `InitialRoutings`, whose enumeration is a recursive operator that only the runs
  use.

## 6. Disagreements

Three have a run of their own.

- `context_lock_paused`: a paused worker sleeps with the context locked
  (`gui/worker.cc:43`); if the main thread then asks for the lock, nobody can let
  the worker go on. `basectx.h:49` says the GUI is not starved.
- `router2_threads`: a net that its thread could not route is routed by the
  single thread over wires of any part of the device; in the next round the
  thread of its part rips that route up and decrements `curr_cong` of wires in
  another thread's part, without a lock (`router2.cc:454`). The comment at
  `router2.cc:99` gives the position of a wire as what guarantees thread safety.
- `detail_regions`: the refinement's swaps test the region of the cell they
  choose, never of the one they displace (`parallel_refine.cc:82`);
  `placer1.cc:502` states and keeps the rule for the same swap.

Others were met while modelling and are recorded here without a run.

Binding and routing:

- `base_arch.h:254`: `bindPip` sets the pip's owner before it asserts that the
  wire is free, so the call that fails leaves a pip held by a net that does not
  record it, and unbinding that pip takes the wire some other pip drives
  (`SpecThrows` instead of `Spec` shows both). `docs/archapi.md:397` says of
  `unbindPip`: "Unbind a pip and the wire driven by that pip."
- `router1.cc:451`: `setup()` registers a wire before it tests that the net holds
  it. Initial routing that stops before its source leaves a wire in
  `arc_to_wires` that is not the net's, which `check()` (line 347) asserts never
  happens: `CheckHolds` fails with the designs of `router1_switched`.
- `router1.cc:506`: the release loop unbinds wires of the net itself whatever
  their strength, while `docs/fes-slot-clock.md:91` to `95` relies on locked
  routing staying. Locked wires of *other* nets do stay.
- `router1.cc:1180`: `maxIterCnt` is read from the settings and then not used.
- `router1.cc:323` against `391`: setup accepts a constant net without a source
  wire, `check()` asserts that there is one, and two such nets are rejected for
  having "the same source wire".
- `router2.cc:431`: `unbind_pip_internal` decrements a copy of the net's resource
  entry. The entry outlives its last use, keeps the net failing and keeps its
  value fixed; so `ResourcesAreCounted` asks for an entry for every use and not
  for a use for every entry.
- `router2.cc:1360`: the wire a route starts at is not tested before the pips are
  bound; it is bound when nobody holds it, and left when another net does: the route
  then hangs from a wire of that net. Hence `OwnStarts`.
- `router2.cc:510`: `check_arc_routing` follows the books from an arc's sink and does
  not ask whether the arc is `routed`; an arc whose sink lies on the path of another
  passes for routed, is never entered, and `bind_and_check` (line 1302) skips it. When
  the other arc is then routed differently, the sink is lost. Hence `SinksEnd`.
- `router2.cc:226`: a wire bound from the beginning counts as used once; when no
  arc's route passes it, nothing takes that count back, and others avoid it.
- `router2.cc:1365`: a net whose binding fails is ripped up and queued, the nets
  bound before it stay; whether the next round succeeds depends on costs, and
  nothing bounds the number of rounds.
- `router2.cc:1387`: routing held by the placer or locked stays bound, but the
  books let its arcs be ripped up and routed otherwise; the binding then asserts
  on a wire another pip drives. This is one of the two exceptions in
  `NoAssertionFails`.
- `router2.cc:666`: the sink of an arc that is not routed may be
  `RESERVED_UNAVAILABLE`, bound more strongly than by the placer for another net or
  its own; the error message then asks `nets_by_udata` for its entry -2 and throws
  `out_of_range` before anything is reported. This is the other exception. (A sink
  that another net has reserved ends in the message; a driver's wire that is
  unavailable ends the walk.)
- `router2.cc:1834`: the answer of `checkRoutedDesign` is ignored; stubs held more
  strongly than `STRENGTH_STRONG`, which the router leaves, and less than
  `STRENGTH_LOCKED`, from where on the check excuses them, go unnoticed. This is the
  exception in `DoneMeansRouted`.

Placement:

- `parallel_refine.cc:323`: worker threads draw from `ctx->rng` without a lock,
  where `docs/seed-racing-audit.md:12` calls the generators of threads private.
- `parallel_refine.cc`: the branch commented "Displace the entire cluster" plans a
  move that always fails: the displaced cluster is sent to the bel its displacer
  leaves, which the architecture still has bound to a cell of the same move, and
  line 135 refuses such cells. `Displace` keeps these tests in their order.
- `parallel_refine.cc:215`: a cell for which no bel of its part is suitable keeps
  `random_bel_for_cell` looking for ever. `RandomBels` is never empty in the runs.
- `chain_swap` tests the strength of the root of a cluster only (assumption
  `ClustersLockedAsAWhole`); a move that is reverted leaves cells that were bound
  with `STRENGTH_STRONG` bound with `STRENGTH_WEAK`.
- On iCE40, `isBelLocationValid` of IO and PLL bels looks at other tiles, and may
  see the provisional move of another thread. `LegalTiles` leaves this out.
- Refinement stops when the wirelength no longer drops and keeps the last
  placement, which may be worse than the one before.

Netlist, frontend and lock:

- `frontend_base.h:788`: `merge_nets` may be called with one net twice (comment at
  line 241) and erases it; with `Loops = TRUE`, `FlatIndexLive` fails.
- `frontend_base.h:734`: the name of a merged net becomes an alias that is not
  added to the aliases of the net it was merged into; when that net is merged as
  well, the alias leads to an erased net (`docs/netlist.md:62`). So
  `AliasesResolve` is stated for flat designs.
- `frontend_base.h:361`: a name used twice ends as an alias of one net and in the
  alias list of two (`nextpnr_types.h:179`).
- `basectx.cc:280`: `renameNet` does not update `net_aliases`
  (`docs/netlist.md:85`).
- `nextpnr_types.cc:92`: `disconnectPort` leaves `user_idx`; a port that becomes
  an output and is connected again would remove somebody else's user
  (`Retype = TRUE`), which `Context::check` (`context.cc:419`) would report.
- `nextpnr_types.cc:114`: `movePortTo` to a new port of the same cell, as in
  `himbaechel/uarch/gowin/pack_bsram.cc:624`, may move the entry it holds a
  reference to (`MoveWithin = TRUE`).
- `timing_opt.cc:47`: the optimiser locks without a guard; an exception leaves
  the context locked (`Unguarded = TRUE`).

## 7. Assumptions and what is left out

*Binding.* Bels, delays and bel buckets. *Router1.* What is asked of the initial
routing, beyond nets that share nothing: `NoLoop`, as setup would follow a loop for
ever; `Driven`, as setup registers wires that are not the net's otherwise (section
6); `PipsUsable`, as a conflict with a pip that placement rules out has no wire to
rip up (assertion after `ripup_pip`); `TrivialSinksApart`, as an arc that needs no
path asserts that nobody holds its sink; `LocksKeepClear`, as `route_arc` does not
test the source wire it ends in, nor `route_const_arc` the sink it starts from
(`router1.cc:901`), and rips up what is there, locked or not; `SourcesBare`,
because a net's source is not bound again once it is driven; `SkippedBare`, because
nets without a driver are passed over and stay as they are; `LocksServe`, because a
locked stub is not removed by setup, but the wire it hangs from may be released with
the arc that uses it. `ConstantsEnd` is about the device: the search for a constant
goes on after it has met a wire with the constant, so that its path could lead
through one (`router1.cc:1036`); it asks that no path does. Delays, penalties and visit limits are inside
"any path". `ripup_net` is unreachable on these architectures. *Router2.* A wire
of the initial routing has no pip only where its net starts
(`record_prerouted_net`, `router2.cc:545`, walks back to it). The theorems ask more.
Of the device: `ConstantsStart`, that a constant net's source wire, if it has one,
carries the constant, and none of its sinks does by itself, as otherwise a route could
end before the wire that the books take for its start; `ConstantsDriven`, that it has
one, as nets without a driver are passed over; `SinksEnd`, that no pip leaves the wire
of an input pin (section 6); `WaysFit`, that a way to a sink does not want two
values of one resource, as no route along it could be congestion free, nor two pips of
one switch, as the search does not see switches; `BoxesOnGrid`, that bounding boxes
are on it. Of the routing given: `OneValue`, that a net takes one value of each
resource on its way to the sinks, as its entry keeps the first value it is given;
`WellRooted`, that every wire leads back to where its net starts, and strongly held ones
by such wires, as the router would release the middle of a locked path. And of
both: `OwnStarts`, that no other net has, starts at, or can pass the wires a net
starts at; the output of a cell has no pip into it, so this is the rule for nets with
a driver. The sources of a constant may be wires of general use, and the run
`router2` has one design of that kind (`ConstArcs`) that this hypothesis leaves out:
there both properties are model-checked only. `DriverWires` are the wires where the
search back from a sink finds the driver's bel (`router2.cc:585`); that it and the search
for a sink take a net to be in the open after eight wires (lines 554, 579) is left out, as
no device here is as deep. Slack, criticality,
history costs and the limits on iterations are inside "any path" and "any late
net"; the count of uses of the wire a route starts at, which nobody reads, is left
out. *Refinement.* The placement it is given is legal and respects regions. Of the
device `DeviceAssumption` asks finitely many cells, integer coordinates, and that a
cell's bels are bels; of clusters `ClusterAssumption` asks that a cell is in one at
most and that a root's offset from itself is nothing, `ClustersLockedAsAWhole` that
they are not locked in part; of nets `PinsAssumption` asks that one that is not
skipped has a pin, which `skip_net` sees to (`detail_place_core.h:128`). Its
costs, temperature and random numbers are free choices; the fairness of mutexes
does not matter, as each critical section is one step. *Netlist.* The callers' contracts: the target of `movePortTo`, `renamePort` and `copyPortTo`
is not connected (none of them tests it), inouts are not moved; `Retype` and
`MoveWithin` are off. Memory that was freed is read as it was. *Frontend.* `Loops` is
off: no instance joins a net to itself (section 6). Cells, drivers and attributes; the error for multiple drivers; which of two labels
`prefer_netlabel` takes is open. *Lock.* One worker thread, as in the code;
logging by a stage that does not hold the lock; `TimingOptimiser` does not yield.

### Not modelled

Most of the repository's lines are not behaviour over time. The packers of ECP5,
Nexus, mistral, himbaechel and iCE40 (a third of the code) rewrite a netlist by
the rules of a device, once and in one thread; modelling them would restate the
rules. Chip databases, bitstream writers, parsers and reports are data and
formats. The analytic placers and timing analysis are floating-point
computations, which TLC does not have. The kernels of the GPU router run outside
the process, and its host code is mostly their set-up. So the modules cover the
parts of `src/common`, `src/frontend`, `src/gui` and `src/ice40` whose state can
go wrong, about 4100 lines, and no widening of them would cover a large share of
all lines.

Of the parts that do keep state, these are left: the lease of the GPU router, the
hash containers, the legaliser of `placer_heap.cc`, `placer1`'s swaps (those of
refinement with one thread), bel binding by clients that bind over a bound bel,
and the seed racing script.

## 8. Plan

Done, in this order: binding and its abstraction; router1 on top of it; the
store; the frontend; the netlist; the lock; router2 on top of the same tables;
refinement and its abstraction; the iCE40 tables implement `RouteMap`.

Proved, liveness excepted: every property of binding, router1, the store, the
netlist, the frontend, the lock, router2 and refinement that the runs check.

Next, the most important first:

1. The composition of refinement with the context lock and the legaliser's
   displacement loop of `placer_heap.cc` on the same bel tables.
2. `HashDict`: entries, chains and the move of the last entry on erase,
   implementing a partial map.
3. `GpuLease` (one holder per process, the broker's answers in any order) and
   `SeedRacing` (children that end after the race is decided).

Small runs are merged as the project grows: one per question.

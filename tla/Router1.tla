------------------------------- MODULE Router1 -------------------------------
(***************************************************************************)
(* The rip-up and re-route router, common/route/router1.cc, working on the *)
(* binding tables of Ice40Routing.                                         *)
(*                                                                         *)
(* An arc is one physical sink wire of one net.  The router keeps a queue  *)
(* of arcs and two mutually inverse maps, wire_to_arcs and arc_to_wires.   *)
(* Routing an arc releases what only that arc used, searches a path, and   *)
(* binds it hop by hop, ripping up whatever is in the way and queueing the *)
(* arcs that lose a wire.  Each iteration of those loops is one step here, *)
(* so that every step makes at most one call into the architecture.        *)
(*                                                                         *)
(* The A* search is abstracted to its result: any simple path all of whose *)
(* hops pass the conflict tests of the search.  Costs, tie-breaking and    *)
(* the order of the priority queue are left out: any queued arc may be     *)
(* next.                                                                   *)
(***************************************************************************)
EXTENDS RoutedDesign

CONSTANTS
    Allowed,      \* Allowed[n]: the pips with pipAllowedForNet(pip, n)
    Skipped,      \* skip_net: neither driven nor constant
    Arcs, ArcNet, ArcSink, \* setup() passes over a second arc to the same sink
    Designs,      \* the designs to route: arcs, and the routing there already
    UseEstimate,  \* cfg.useEstimate: the search may prune every path
    MaxTimingRipups, \* timing passes (50 in the code, 0: router/tmg_ripup off)
    NoArc

ASSUME RouterAssumption ==
    /\ PipSrc \in [Pips -> Wires]
    /\ Allowed \in [Nets -> SUBSET Pips]
    /\ SourceWire \in [Nets -> Wires \cup {NoWire}]
    /\ Skipped \subseteq Nets
    /\ \A n \in Skipped : ~IsConst(n) /\ SourceWire[n] = NoWire
    /\ ArcNet \in [Arcs -> Nets]
    /\ ArcSink \in [Arcs -> Wires]
    /\ NoArc \notin Arcs
    /\ \A a, b \in Arcs : ArcNet[a] = ArcNet[b] /\ ArcSink[a] = ArcSink[b] => a = b
    /\ Strengths \subseteq Nat
    /\ STRENGTH_WEAK \in Strengths
    /\ Designs \subseteq [arcs : SUBSET Arcs,
                         routing : [Nets -> [Wires -> PipMap \cup {Unbound}]]]
    /\ MaxTimingRipups \in Nat
    /\ UseEstimate \in BOOLEAN

ASSUME InitialRoutingAssumption == \A d \in Designs : InitialRouting(d.routing)

VARIABLES
    pc,
    queued_arcs,   \* the arcs in arc_queue, which holds the same arcs
    wire_to_arcs,
    arc_to_wires,
    setup_nets,    \* nets setup() has still to visit
    work,          \* wires the loop in progress has still to visit
    arc,           \* the arc being routed
    plan,          \* the hops of its path still to bind, in binding order
    timing_fail_count,
    arcs           \* the arcs of the design, fixed

routerVars == <<queued_arcs, wire_to_arcs, arc_to_wires, setup_nets, work,
                arc, plan, timing_fail_count, arcs>>
vars == <<archVars, pc, routerVars>>

Hop == [wire : Wires, pip : Pips \cup {NoPip}]

TypeOK ==
    /\ ArchTypeOK
    /\ pc \in {"setup", "orphans", "idle", "release", "bind", "timing", "ripup",
               "done", "failed", "rejected", "crashed"}
    /\ queued_arcs \subseteq Arcs
    /\ wire_to_arcs \in [Wires -> SUBSET Arcs]
    /\ arc_to_wires \in [Arcs -> SUBSET Wires]
    /\ setup_nets \subseteq Nets
    /\ work \subseteq Wires
    /\ arc \in Arcs \cup {NoArc}
    /\ plan \in Seq(Hop)
    /\ timing_fail_count \in 0..MaxTimingRipups
    /\ arcs \subseteq Arcs

Init ==
    /\ \E d \in Designs : arcs = d.arcs /\ wires = d.routing
    /\ InitTables
    /\ pc = "setup"
    /\ queued_arcs = {}
    /\ wire_to_arcs = [w \in Wires |-> {}]
    /\ arc_to_wires = [a \in Arcs |-> {}]
    /\ setup_nets = Nets \ Skipped
    /\ work = {}
    /\ arc = NoArc
    /\ plan = <<>>
    /\ timing_fail_count = 0

-----------------------------------------------------------------------------
(* setup(): adopt the routing that is already there. *)

WalkEnds(n, w) ==
    AtSource(n, w) \/ wires[n][w] = Unbound \/ wires[n][w].pip = NoPip

\* The wires that drive a wire of the net.
Drivers(n) ==
    {PipSrc[wires[n][u].pip] : u \in {v \in HeldBy(n) : wires[n][v].pip # NoPip}}

\* The wires visited walking back from d: the smallest set with d in it and with
\* the wire that drives any of its wires.
Walk(n, d) ==
    {w \in {d} \cup Drivers(n) : \A S \in SUBSET ({d} \cup Drivers(n)) :
        (/\ d \in S
         /\ \A u \in S : WalkEnds(n, u) \/ PipSrc[wires[n][u].pip] \in S) => w \in S}

ArcsOf(n) == {a \in arcs : ArcNet[a] = n}
Sinks(n) == {ArcSink[a] : a \in ArcsOf(n)}

Visited == Nets \ (Skipped \cup setup_nets)

\* A driven net without a source wire, two arcs with one sink, or a wire that
\* is the source of one net and the source or a sink of another.
Rejected(n) ==
    \/ SourceWire[n] = NoWire /\ ~IsConst(n)
    \/ \E m \in Visited :
          \/ SourceWire[m] = SourceWire[n]
          \/ SourceWire[n] \in Sinks(m)
          \/ Sinks(m) \cap Sinks(n) # {}
          \/ SourceWire[m] \in Sinks(n)

\* log_error: router1() returns false and its maps are gone.
SetupRejects(n) ==
    /\ pc = "setup"
    /\ n \in setup_nets
    /\ Rejected(n)
    /\ pc' = "rejected"
    /\ UNCHANGED <<archVars, routerVars>>

\* The arcs whose sink is already bound.
Found(n) == {a \in ArcsOf(n) : wires[n][ArcSink[a]] # Unbound}

\* Seeded fault: a route that does not reach the source is taken as it is.
NoBroken(n) == {}

\* Those whose walk leaves the net's routing before it reaches the source.
Broken(n) ==
    {a \in Found(n) : \E w \in Walk(n, ArcSink[a]) :
                        ~AtSource(n, w) /\ wires[n][w] = Unbound}

\* The assertion that a wire on the walk has a pip.
MeetsBareWire(n) ==
    \E a \in Found(n) : \E w \in Walk(n, ArcSink[a]) :
        /\ ~AtSource(n, w)
        /\ wires[n][w] # Unbound
        /\ wires[n][w].pip = NoPip

\* Seeded fault: nothing is removed.
NoOrphans(n, used) == {}

\* The wires of the net that no arc uses.
Orphans(n, used) ==
    {w \in Wires : /\ wires[n][w] # Unbound
                   /\ wires[n][w].strength < STRENGTH_LOCKED
                   /\ used[w] = {}}

\* A wire that does not belong to the net is registered as well, when the walk
\* ends in it.
SetupNet(n) ==
    LET walk == [a \in Found(n) |-> Walk(n, ArcSink[a])] IN
    /\ pc = "setup"
    /\ n \in setup_nets
    /\ ~Rejected(n)
    /\ setup_nets' = setup_nets \ {n}
    /\ arc_to_wires' = [a \in Arcs |-> IF a \in Found(n) THEN arc_to_wires[a] \cup walk[a]
                                       ELSE arc_to_wires[a]]
    /\ wire_to_arcs' = [w \in Wires |-> wire_to_arcs[w] \cup {a \in Found(n) : w \in walk[a]}]
    /\ queued_arcs' = queued_arcs \cup (ArcsOf(n) \ Found(n)) \cup Broken(n)
    /\ work' = Orphans(n, wire_to_arcs')
    /\ pc' = IF MeetsBareWire(n) THEN "crashed" ELSE "orphans"
    /\ UNCHANGED <<archVars, arc, plan, timing_fail_count, arcs>>

UnbindOrphan ==
    /\ pc = "orphans"
    /\ \E w \in work : unbindWire(w) /\ work' = work \ {w}
    /\ UNCHANGED <<pc, queued_arcs, wire_to_arcs, arc_to_wires, setup_nets, arc,
                   plan, timing_fail_count, arcs>>

SetupNetDone ==
    /\ pc = "orphans" /\ work = {}
    /\ pc' = IF setup_nets = {} THEN "idle" ELSE "setup"
    /\ UNCHANGED <<archVars, routerVars>>

-----------------------------------------------------------------------------
(* The main loop of router1(), and the first half of route_arc() and       *)
(* route_const_arc(): release the wires only this arc uses.                *)

PopArc(a) ==
    /\ pc = "idle"
    /\ a \in queued_arcs
    /\ queued_arcs' = queued_arcs \ {a}
    /\ arc' = a
    /\ work' = arc_to_wires[a]
    /\ arc_to_wires' = [arc_to_wires EXCEPT ![a] = {}]
    /\ pc' = "release"
    /\ UNCHANGED <<archVars, wire_to_arcs, setup_nets, plan, timing_fail_count, arcs>>

\* Seeded fault: the wire is unbound though other arcs use it.
ReleaseSharedWire(w) ==
    /\ pc = "release"
    /\ w \in work
    /\ work' = work \ {w}
    /\ wire_to_arcs' = [wire_to_arcs EXCEPT ![w] = @ \ {arc}]
    /\ \/ unbindWire(w) /\ UNCHANGED pc
       \/ checkWireAvail(w) /\ pc' = "crashed" /\ UNCHANGED archVars
    /\ UNCHANGED <<queued_arcs, arc_to_wires, setup_nets, arc, plan,
                   timing_fail_count, arcs>>

ReleaseWire(w) ==
    /\ pc = "release"
    /\ w \in work
    /\ work' = work \ {w}
    /\ wire_to_arcs' = [wire_to_arcs EXCEPT ![w] = @ \ {arc}]
    /\ \/ wire_to_arcs[w] # {arc} /\ UNCHANGED <<archVars, pc>>
       \/ wire_to_arcs[w] = {arc} /\ unbindWire(w) /\ UNCHANGED pc
       \/ /\ wire_to_arcs[w] = {arc}
          /\ checkWireAvail(w)          \* the assertion of unbindWire
          /\ pc' = "crashed"
          /\ UNCHANGED archVars
    /\ UNCHANGED <<queued_arcs, arc_to_wires, setup_nets, arc, plan,
                   timing_fail_count, arcs>>

\* The loop body ends: with an empty queue and router/tmg_ripup set there is a
\* timing pass before the loop condition is tested again.
AfterArc == IF queued_arcs = {} /\ timing_fail_count < MaxTimingRipups
            THEN "timing" ELSE "idle"

\* Seeded fault: only one of the two maps is told.
RegisterHalf(a, w) ==
    /\ arc_to_wires' = [arc_to_wires EXCEPT ![a] = @ \cup {w}]
    /\ UNCHANGED wire_to_arcs

Register(a, w) ==
    /\ wire_to_arcs' = [wire_to_arcs EXCEPT ![w] = @ \cup {a}]
    /\ arc_to_wires' = [arc_to_wires EXCEPT ![a] = @ \cup {w}]

\* Seeded fault: the wire is registered but not bound.
RouteTrivialArcUnbound ==
    /\ pc = "release" /\ work = {}
    /\ RouteRoot(ArcNet[arc], ArcSink[arc])
    /\ pc' = AfterArc
    /\ Register(arc, ArcSink[arc])
    /\ UNCHANGED <<archVars, queued_arcs, setup_nets, work, arc, plan,
                   timing_fail_count, arcs>>

\* The source and the sink are one wire, or the sink is a constant wire.
RouteTrivialArc ==
    LET n == ArcNet[arc]
        d == ArcSink[arc]
        bound == wire_to_net[d] IN
    /\ pc = "release" /\ work = {}
    /\ RouteRoot(n, d)
    /\ \/ bound = NoNet /\ bindWire(d, n, STRENGTH_WEAK)
       \/ bound # NoNet /\ UNCHANGED archVars
    /\ IF bound \in {n, NoNet}
       THEN pc' = AfterArc /\ Register(arc, d)
       ELSE pc' = "crashed" /\ UNCHANGED <<wire_to_arcs, arc_to_wires>>
    /\ UNCHANGED <<queued_arcs, setup_nets, work, arc, plan, timing_fail_count, arcs>>

-----------------------------------------------------------------------------
(* The search. *)

\* Seeded fault: a locked wire counts as rippable.
HeldTooLoosely(w) ==
    /\ wire_to_net[w] # NoNet
    /\ wires[wire_to_net[w]][w] # Unbound
    /\ wires[wire_to_net[w]][w].strength > STRENGTH_LOCKED

\* Neither free nor rippable: bound too strongly, by any net.
HeldStrongly(w) ==
    /\ wire_to_net[w] # NoNet
    /\ wires[wire_to_net[w]][w] # Unbound
    /\ wires[wire_to_net[w]][w].strength > STRENGTH_STRONG

Reuses(n, p) == /\ wires[n][PipDst[p]] # Unbound
                /\ wires[n][PipDst[p]].pip = p

PipObtainable(p) ==
    \/ checkPipAvail(p)
    \/ /\ getConflictingPipWire(p) # NoWire
       /\ ~HeldStrongly(getConflictingPipWire(p))

\* route_arc() goes downhill and tests the wire a pip leads to.
HopAllowed(n, p) ==
    /\ p \in Allowed[n]
    /\ \/ Reuses(n, p)
       \/ ~HeldStrongly(PipDst[p]) /\ PipObtainable(p)

\* route_const_arc() goes uphill: it keeps to the net's own routing where there
\* is some, and tests the wire a pip comes from.
ConstHopAllowed(n, p) ==
    /\ p \in Allowed[n]
    /\ IF wires[n][PipDst[p]] # Unbound
       THEN Reuses(n, p)
       ELSE ~HeldStrongly(PipSrc[p]) /\ PipObtainable(p)

\* Paths back from the sinks.
AllPathsBack == [d \in {ArcSink[a] : a \in Arcs} |-> {path \in PathsBack(d) : LeadsTo(path, d)}]

PathsFor(a) ==
    LET n == ArcNet[a] IN
    {path \in AllPathsBack[ArcSink[a]] :
        /\ RouteRoot(n, PipSrc[path[Len(path)]])
        /\ IsConst(n) \/ \A i \in 1..(Len(path) - 1) : ~RouteRoot(n, PipSrc[path[i]])
        /\ \A i \in 1..Len(path) :
              IF IsConst(n) THEN ConstHopAllowed(n, path[i])
              ELSE HopAllowed(n, path[i])}

\* route_arc() binds from the sink back to the source, route_const_arc() from
\* the source wire it found to the sink.
SinkToSource(path) ==
    [i \in 1..(Len(path) + 1) |->
        IF i <= Len(path) THEN [wire |-> PipDst[path[i]], pip |-> path[i]]
        ELSE [wire |-> PipSrc[path[Len(path)]], pip |-> NoPip]]

SourceToSink(path) ==
    [i \in 1..(Len(path) + 1) |->
        LET h == SinkToSource(path) IN h[Len(path) + 2 - i]]

FindPath ==
    /\ pc = "release" /\ work = {}
    /\ ~RouteRoot(ArcNet[arc], ArcSink[arc])
    /\ \E path \in PathsFor(arc) :
          plan' = IF IsConst(ArcNet[arc]) THEN SourceToSink(path)
                  ELSE SinkToSource(path)
    /\ pc' = "bind"
    /\ UNCHANGED <<archVars, queued_arcs, wire_to_arcs, arc_to_wires, setup_nets,
                   work, arc, timing_fail_count, arcs>>

NoPath ==
    /\ pc = "release" /\ work = {}
    /\ ~RouteRoot(ArcNet[arc], ArcSink[arc])
    /\ PathsFor(arc) = {} \/ UseEstimate
    /\ pc' = "failed"
    /\ UNCHANGED <<archVars, routerVars>>

-----------------------------------------------------------------------------
(* Binding the path. *)

\* Seeded fault: the wire stays bound.
RipUpKeepsBound(w) ==
    /\ queued_arcs' = queued_arcs \cup wire_to_arcs[w]
    /\ arc_to_wires' = [a \in Arcs |-> arc_to_wires[a] \ {w}]
    /\ wire_to_arcs' = [wire_to_arcs EXCEPT ![w] = {}]
    /\ UNCHANGED archVars

\* Take a wire away from the arcs that use it, queue them, and unbind it:
\* ripup_wire(), and ripup_pip() with the wire its switch drives.
RipUp(w) ==
    /\ queued_arcs' = queued_arcs \cup wire_to_arcs[w]
    /\ arc_to_wires' = [a \in Arcs |-> IF a \in wire_to_arcs[w]
                                       THEN arc_to_wires[a] \ {w}
                                       ELSE arc_to_wires[a]]
    /\ wire_to_arcs' = [wire_to_arcs EXCEPT ![w] = {}]
    /\ unbindWire(w)

\* Whether the next hop has to be bound; the source wire of a constant net may
\* be driven in any way.
MustBind(n, h) ==
    wires[n][h.wire] # Unbound =>
        /\ wires[n][h.wire].pip # h.pip
        /\ ~(IsConst(n) /\ h.pip = NoPip)

RipupWire ==
    /\ pc = "bind"
    /\ MustBind(ArcNet[arc], Head(plan))
    /\ ~checkWireAvail(Head(plan).wire)
    /\ RipUp(Head(plan).wire)
    /\ UNCHANGED <<pc, setup_nets, work, arc, plan, timing_fail_count, arcs>>

RipupPip ==
    LET h == Head(plan) IN
    /\ pc = "bind"
    /\ MustBind(ArcNet[arc], h)
    /\ checkWireAvail(h.wire)
    /\ h.pip # NoPip
    /\ ~checkPipAvail(h.pip)
    /\ IF getConflictingPipWire(h.pip) = NoWire
       THEN /\ pc' = "crashed"     \* the assertion after ripup_pip
            /\ UNCHANGED <<archVars, queued_arcs, wire_to_arcs, arc_to_wires>>
       ELSE RipUp(getConflictingPipWire(h.pip)) /\ UNCHANGED pc
    /\ UNCHANGED <<setup_nets, work, arc, plan, timing_fail_count, arcs>>

NextHop ==
    /\ Register(arc, Head(plan).wire)
    /\ plan' = Tail(plan)
    /\ pc' = IF Len(plan) = 1 THEN AfterArc ELSE "bind"
    /\ UNCHANGED <<queued_arcs, setup_nets, work, arc, timing_fail_count, arcs>>

KeepHop ==
    /\ pc = "bind"
    /\ ~MustBind(ArcNet[arc], Head(plan))
    /\ NextHop
    /\ UNCHANGED archVars

BindHop ==
    LET n == ArcNet[arc]
        h == Head(plan) IN
    /\ pc = "bind"
    /\ MustBind(n, h)
    /\ checkWireAvail(h.wire)
    /\ \/ h.pip = NoPip /\ bindWire(h.wire, n, STRENGTH_WEAK)
       \/ /\ h.pip # NoPip
          /\ checkPipAvail(h.pip)
          /\ bindPip(h.pip, n, STRENGTH_WEAK)
    /\ NextHop

-----------------------------------------------------------------------------
(* Timing-driven rip-up: the sinks of any nets may have too little slack,  *)
(* but a net with a wire bound more strongly than STRENGTH_STRONG is left  *)
(* alone.                                                                  *)

TimingPass ==
    /\ pc = "timing"
    /\ timing_fail_count' = timing_fail_count + 1
    /\ \E late \in SUBSET {a \in arcs :
             /\ ArcNet[a] \notin Skipped
             /\ \A w \in Wires :
                   wires[ArcNet[a]][w] # Unbound =>
                      wires[ArcNet[a]][w].strength <= STRENGTH_STRONG} :
          work' = {ArcSink[a] : a \in late}
    /\ pc' = "ripup"
    /\ UNCHANGED <<archVars, queued_arcs, wire_to_arcs, arc_to_wires, setup_nets,
                   arc, plan, arcs>>

RipupLateSink(w) ==
    /\ pc = "ripup"
    /\ w \in work
    /\ work' = work \ {w}
    /\ \/ /\ checkWireAvail(w)
          /\ UNCHANGED <<archVars, queued_arcs, wire_to_arcs, arc_to_wires>>
       \/ RipUp(w)
    /\ UNCHANGED <<pc, setup_nets, arc, plan, timing_fail_count, arcs>>

TimingPassDone ==
    /\ pc = "ripup" /\ work = {}
    /\ pc' = "idle"
    /\ UNCHANGED <<archVars, routerVars>>

Finish ==
    /\ pc = "idle" /\ queued_arcs = {}
    /\ pc' = "done"
    /\ UNCHANGED <<archVars, routerVars>>

\* router1() returns, or an assertion has thrown out of it.
Returned ==
    /\ pc \in {"done", "failed", "rejected", "crashed"}
    /\ UNCHANGED vars

Next ==
    \/ \E n \in Nets : SetupNet(n)
    \/ \E n \in Nets : SetupRejects(n)
    \/ UnbindOrphan
    \/ SetupNetDone
    \/ \E a \in Arcs : PopArc(a)
    \/ \E w \in Wires : ReleaseWire(w)
    \/ RouteTrivialArc
    \/ FindPath
    \/ NoPath
    \/ RipupWire
    \/ RipupPip
    \/ KeepHop
    \/ BindHop
    \/ TimingPass
    \/ \E w \in Wires : RipupLateSink(w)
    \/ TimingPassDone
    \/ Finish
    \/ Returned

Spec == Init /\ [][Next]_vars

\* One thread runs the router and nothing in it waits for another.
FairSpec == Spec /\ WF_vars(Next)

-----------------------------------------------------------------------------
(* What the theorems ask of the routing a design comes with, where they need *)
(* more than InitialRouting.                                                 *)

\* No wires of a net drive one another in a circle: setup() would follow it for
\* ever.
NoLoop(r) ==
    \A n \in Nets, W \in (SUBSET Wires) \ {{}} :
        \E w \in W : \/ AtSource(n, w)
                    \/ r[n][w] = Unbound
                    \/ r[n][w].pip = NoPip
                    \/ PipSrc[r[n][w].pip] \notin W

\* A wire is driven, by a wire of the same net, or is where the net starts.
Driven(r) ==
    \A n \in Nets \ Skipped, w \in Wires :
        r[n][w] # Unbound =>
            \/ AtSource(n, w)
            \/ r[n][w].pip # NoPip /\ r[n][PipSrc[r[n][w].pip]] # Unbound

\* A wire locked for one net is not in the way of another where the searches do
\* not look: route_arc() does not test the source wire it ends in,
\* route_const_arc() does not test the sink it starts from, nor the wire a pip
\* the net already uses comes from.
LocksKeepClear(d) ==
    \A n \in {ArcNet[a] : a \in d.arcs} \ Skipped, m \in Nets, w \in Wires :
        (m # n /\ d.routing[m][w] # Unbound /\ d.routing[m][w].strength >= STRENGTH_LOCKED) =>
            /\ ~RouteRoot(n, w)
            /\ IsConst(n) => \A a \in d.arcs : ArcNet[a] = n => ArcSink[a] # w
            /\ \A v \in Wires :
                  (d.routing[n][v] # Unbound /\ d.routing[n][v].pip # NoPip)
                      => PipSrc[d.routing[n][v].pip] # w

\* No pip is held that the placement has ruled out since.
PipsUsable(r) ==
    \A n \in Nets, w \in Wires :
        r[n][w] # Unbound => r[n][w].pip \notin HardUnavail

\* The sink of an arc that needs no path is not held by another net, and no pip
\* leads another net on from there: route_arc() and route_const_arc() assert it.
TrivialSinksApart(d) ==
    \A a \in d.arcs :
        (ArcNet[a] \notin Skipped /\ RouteRoot(ArcNet[a], ArcSink[a])) =>
            /\ \A m \in Nets \ {ArcNet[a]} : d.routing[m][ArcSink[a]] = Unbound
            /\ \A m \in {ArcNet[b] : b \in d.arcs} \ (Skipped \cup {ArcNet[a]}), p \in Pips :
                  p \in Allowed[m] => PipSrc[p] # ArcSink[a]

\* No net drives a wire that it starts from.
SourcesBare(r) ==
    \A n \in Nets, w \in Wires :
        (AtSource(n, w) /\ r[n][w] # Unbound) => r[n][w].pip = NoPip

\* The nets the router passes over hold nothing: it would leave them as they are.
SkippedBare(r) == \A n \in Skipped, w \in Wires : r[n][w] = Unbound

\* A locked wire is on the way to a sink that has been reached: setup() does not
\* remove a locked stub, and an arc that is routed again may leave it dangling.
LocksServe(d) ==
    \A n \in Nets \ Skipped, w \in Wires :
        (d.routing[n][w] # Unbound /\ d.routing[n][w].strength >= STRENGTH_LOCKED) =>
            \A S \in SUBSET Wires :
                (/\ \A a \in d.arcs : (ArcNet[a] = n /\ d.routing[n][ArcSink[a]] # Unbound)
                                         => ArcSink[a] \in S
                 /\ \A u \in S : \/ AtSource(n, u)
                                 \/ d.routing[n][u] = Unbound
                                 \/ d.routing[n][u].pip = NoPip
                                 \/ PipSrc[d.routing[n][u].pip] \in S) => w \in S

\* A constant starts at wires that have it by themselves, and no path leads from
\* one of them through another: the search may return such a path.
ConstantsEnd ==
    \A a \in Arcs :
        LET n == ArcNet[a] IN
        IsConst(n) =>
            /\ SourceWire[n] = NoWire \/ RouteRoot(n, SourceWire[n])
            /\ \A path \in AllPathsBack[ArcSink[a]] :
                  (/\ RouteRoot(n, PipSrc[path[Len(path)]])
                   /\ \A i \in 1..Len(path) : path[i] \in Allowed[n])
                      => \A i \in 1..(Len(path) - 1) : ~RouteRoot(n, PipSrc[path[i]])

-----------------------------------------------------------------------------
(* Properties *)

Settled == pc \in {"idle", "done", "failed"}

\* Router1::check(), run by debug builds after setup(), every thousand
\* iterations, on failure and at the end: an arc's wires are bound to its net,
\* the two maps agree, and every wire of a net that is not locked serves an arc.
CheckHolds ==
    Settled =>
        /\ \A a \in Arcs, w \in Wires :
              w \in arc_to_wires[a] => /\ a \in wire_to_arcs[w]
                                       /\ wires[ArcNet[a]][w] # Unbound
        /\ \A n \in Nets \ Skipped, w \in Wires :
              (wires[n][w] # Unbound /\ wires[n][w].strength < STRENGTH_LOCKED)
                  => \E a \in ArcsOf(n) : w \in arc_to_wires[a]

\* The two maps are inverse to each other, except for the wires of the arc in
\* hand that are still to be released: what the assertion in the release loop
\* and every rip-up rely on.  check() looks at one direction only.
MapsAgree ==
    \A a \in Arcs, w \in Wires :
        a \in wire_to_arcs[w] <=>
            \/ w \in arc_to_wires[a]
            \/ pc \in {"release", "crashed"} /\ a = arc /\ w \in work

\* An arc that is not queued has been routed: its wires lead from its sink to
\* the source, each by the pip the net drives it with.  Only a rip-up that
\* forgets to queue an arc, or binds over another arc's wire, could break it.
RoutedArcsAreConnected ==
    Settled =>
        \A a \in arcs :
            (/\ ArcNet[a] \notin Skipped
             /\ a \notin queued_arcs
             /\ pc = "failed" => a # arc) =>
               LET n == ArcNet[a] IN
               /\ ArcSink[a] \in arc_to_wires[a]
               /\ \E w \in arc_to_wires[a] : AtSource(n, w)
               /\ \A w \in arc_to_wires[a] :
                     IF WalkEnds(n, w) THEN AtSource(n, w)
                     ELSE PipSrc[wires[n][w].pip] \in arc_to_wires[a]

\* No assertion in setup(), route_arc(), route_const_arc() or the binding calls
\* they make ever throws.
NoAssertionFails == pc # "crashed"

\* The architecture's tables stay consistent through routing.
TablesConsistent == Consistent

\* checkRoutedDesign(), which debug builds assert when routing ends.
checkRoutedDesign == \A n \in Nets : NetRouted(n, Sinks(n))

\* A run that ends with an empty queue leaves a design checkRoutedDesign() accepts.
DoneMeansRouted == pc = "done" => checkRoutedDesign

\* Routing one net never takes a locked wire from another.
LockedWiresOfOthersStay ==
    [][\A n \in Nets, w \in Wires :
          (/\ wires[n][w] # Unbound
           /\ wires[n][w].strength >= STRENGTH_LOCKED
           /\ arc # NoArc => ArcNet[arc] # n) => wires'[n][w] = wires[n][w]]_vars

\* Each call of route_arc() or route_const_arc() comes to an end.
EveryArcReturns == (pc \in {"release", "bind"}) ~>
                   (pc \in {"idle", "timing", "failed", "crashed"})
=============================================================================

------------------------------- MODULE Router2 -------------------------------
(***************************************************************************)
(* The negotiated-congestion router, common/route/router2.cc, above the    *)
(* binding tables of Ice40Routing.                                         *)
(*                                                                         *)
(* Nets are first routed in books of the router's own (nd_wires), which    *)
(* let several nets use one wire; curr_cong counts them.  Nets that share  *)
(* a wire are ripped up and routed again until no wire is shared; then the *)
(* routes are bound in the architecture, net by net, and a net whose       *)
(* binding fails is routed again.  With many nets to route the device is   *)
(* cut in quadrants and halves, each with a thread of its own.             *)
(*                                                                         *)
(* The A* search is abstracted to its result: any simple path whose hops   *)
(* pass the tests of the search.  The count of uses of the wire a route    *)
(* starts at, which only grows and which nobody reads, is kept at zero.    *)
(***************************************************************************)
EXTENDS RoutedDesign, Integers

CONSTANTS
    Resources, Resource, NoResource, \* getResourceKeyForPip
    Values, Value,                   \* getResourceValueForPip
    Arcs, ArcNet, ArcSink,           \* two arcs of a net may have one sink
    Designs,      \* the designs to route: arcs, and the routing there already
    LateNets,     \* nets whose slack may fail (router/tmg_ripup), {} when off
    MTThreshold,  \* threads are used from so many queued nets on (200)
    WireLoc, PipLoc, Grid, Mid,      \* positions, the device, its split point
    NetBox,       \* the bounding box a net starts with
    DriverWires,  \* the wires at the pins of the driver's bel that are no inputs
    Unavailable   \* RESERVED_UNAVAILABLE

Workers == 0..8   \* four quadrants, two halves by y, two by x, and the rest
Alone == 8

NoUse == [value |-> NoValue, count |-> 0]

ASSUME Router2Assumption ==
    /\ PipSrc \in [Pips -> Wires]
    /\ SourceWire \in [Nets -> Wires \cup {NoWire}]
    /\ DriverWires \in [Nets -> SUBSET Wires]
    /\ \A n \in Nets : SourceWire[n] # NoWire => SourceWire[n] \in DriverWires[n]
    /\ Resource \in [Pips -> Resources \cup {NoResource}]
    /\ NoResource \notin Resources
    /\ Value \in [Pips -> Values]
    /\ NoValue \notin Values
    /\ ArcNet \in [Arcs -> Nets]
    /\ ArcSink \in [Arcs -> Wires]
    /\ Designs \subseteq [arcs : SUBSET Arcs,
                         routing : [Nets -> [Wires -> PipMap \cup {Unbound}]]]
    /\ Strengths \subseteq Nat
    /\ STRENGTH_WEAK \in Strengths
    /\ LateNets \subseteq Nets
    /\ Unavailable \notin Nets \cup {NoNet}
    /\ Unbound \notin [pip : Pips \cup {NoPip}, count : Int]
    /\ IsFiniteSet(Nets) /\ IsFiniteSet(Wires) /\ IsFiniteSet(Pips) /\ IsFiniteSet(Arcs)

\* A wire of the routing given is driven by a pip or is where its net starts.
ASSUME Router2InitialRouting ==
    \A d \in Designs :
        /\ InitialRouting(d.routing)
        /\ \A n \in Nets, w \in Wires :
              d.routing[n][w] # Unbound =>
                 (d.routing[n][w].pip = NoPip <=> w = SourceWire[n])

Box == [x0 : 0..Grid.x, x1 : 0..Grid.x, y0 : 0..Grid.y, y1 : 0..Grid.y]

VARIABLES
    pc,
    arcs,          \* the arcs of the design, fixed
    nd_wires,      \* PerNetData::wires: driving pip, number of arcs
    nd_res,        \* PerNetData::resources; a count of 2 means two or more
    curr_cong, value_count,
    reserved,      \* PerWireData::reserved_net
    routed, pre_routed,
    bb,
    route_queue, failed_nets,
    late,          \* nets with an arc whose slack fails
    stage,         \* 0: quadrants, 1 and 2: halves, 3: one thread
    job,           \* per worker: nets left and the net in hand
    retry,         \* nets the threads could not route
    nets_left, net, to_unbind, arcs_left, to_bind  \* bind_and_check_all

bookVars == <<nd_wires, nd_res, curr_cong, value_count, routed, pre_routed>>
queueVars == <<route_queue, failed_nets, late, bb>>
jobVars == <<stage, job, retry>>
bindVars == <<nets_left, net, to_unbind, arcs_left, to_bind>>
vars == <<archVars, pc, arcs, reserved, bookVars, queueVars, jobVars, bindVars>>

Idle == [todo |-> {}, net |-> NoNet, exam |-> {}, route |-> {}, sinks |-> {},
         failures |-> FALSE]
Job == [todo : SUBSET Nets, net : Nets \cup {NoNet}, exam : SUBSET Arcs,
        route : SUBSET Arcs, sinks : SUBSET Wires, failures : BOOLEAN]
Entry == [pip : Pips \cup {NoPip}, count : Nat]

TypeOK ==
    /\ ArchTypeOK
    /\ pc \in {"setup", "reserve", "iterate", "route", "congestion", "bind",
               "done", "failed", "crashed"}
    /\ arcs \subseteq Arcs
    /\ nd_wires \in [Nets -> [Wires -> Entry \cup {Unbound}]]
    /\ nd_res \in [Nets -> [Resources -> [value : Values, count : {1, 2}] \cup {NoUse}]]
    /\ curr_cong \in [Wires -> Nat]
    /\ value_count \in [Resources -> [Values -> Nat]]
    /\ reserved \in [Wires -> Nets \cup {NoNet, Unavailable}]
    /\ pre_routed \subseteq routed /\ routed \subseteq arcs
    /\ bb \in [Nets -> Box]
    /\ route_queue \subseteq Nets /\ failed_nets \subseteq Nets /\ late \subseteq Nets
    /\ stage \in 0..3
    /\ job \in [Workers -> Job]
    /\ retry \subseteq Nets
    /\ nets_left \subseteq Nets /\ net \in Nets \cup {NoNet}
    /\ to_unbind \subseteq Wires /\ arcs_left \subseteq Arcs
    /\ to_bind \in [root : Wires \cup {NoWire}, pips : SUBSET Pips]

NothingToBind == [root |-> NoWire, pips |-> {}]

\* setup_nets() and the first loop of setup_wires().
Init ==
    /\ \E d \in Designs : arcs = d.arcs /\ wires = d.routing
    /\ InitTables
    /\ pc = "setup"
    /\ nd_wires = [n \in Nets |-> [w \in Wires |->
                     IF wires[n][w] = Unbound THEN Unbound
                     ELSE [pip |-> wires[n][w].pip, count |-> 0]]]
    /\ curr_cong = [w \in Wires |-> IF wire_to_net[w] = NoNet THEN 0 ELSE 1]
    /\ reserved = [w \in Wires |->
                     LET n == wire_to_net[w] IN
                     IF n = NoNet THEN NoNet
                     ELSE IF wires[n][w].strength > STRENGTH_PLACER THEN Unavailable
                     ELSE IF wires[n][w].strength = STRENGTH_PLACER THEN n
                     ELSE NoNet]
    /\ nd_res = [n \in Nets |-> [r \in Resources |-> NoUse]]
    /\ value_count = [r \in Resources |-> [v \in Values |-> 0]]
    /\ routed = {} /\ pre_routed = {}
    /\ bb = NetBox
    /\ route_queue = Nets /\ failed_nets = {} /\ late = {}
    /\ stage = 3 /\ job = [t \in Workers |-> Idle] /\ retry = {}
    /\ nets_left = {} /\ net = NoNet /\ to_unbind = {} /\ arcs_left = {}
    /\ to_bind = NothingToBind

ArcsOf(n) == {a \in arcs : ArcNet[a] = n}
Sinks(n) == {ArcSink[a] : a \in ArcsOf(n)}

-----------------------------------------------------------------------------
(* The books.  A route is the set of wires walked from a sink to the       *)
(* wire it starts at; hops gives the pip that drives each other wire.      *)

Ends(n, w) == \/ AtSource(n, w)
              \/ nd_wires[n][w] = Unbound
              \/ nd_wires[n][w].pip = NoPip

\* The wires visited walking back from d.
Trail(n, d) ==
    LET back[seen \in SUBSET Wires] ==
          LET more == seen \cup {PipSrc[nd_wires[n][u].pip] : u \in {v \in seen : ~Ends(n, v)}}
          IN IF more = seen THEN seen ELSE back[more]
    IN back[{d}]

\* Without the wire it starts at, which keeps no count.
Body(n, d) == {w \in Trail(n, d) : ~AtSource(n, w)}

Complete(n, d) == \A w \in Body(n, d) : ~Ends(n, w)

ValuesInUse(r) == {v \in Values : value_count[r][v] > 0}

\* Legally routed: every wire back to the start is used by this net alone, and
\* every resource has one value.
check_arc_routing(a) ==
    LET n == ArcNet[a]
        trail == Trail(n, ArcSink[a]) IN
    /\ Complete(n, ArcSink[a])
    /\ \A w \in trail :
          nd_wires[n][w] # Unbound =>
             /\ curr_cong[w] = 1
             /\ LET p == nd_wires[n][w].pip IN
                p # NoPip /\ Resource[p] # NoResource =>
                   Cardinality(ValuesInUse(Resource[p])) <= 1

UsesOf(r, pips) == {p \in pips : Resource[p] = r}

\* Seeded fault: a wire the net has already is counted as congested again.
NewlyUsedOrNot(n, W) == W

NewlyUsed(n, W) == {w \in W : nd_wires[n][w] = Unbound}

\* bind_pip_internal for every hop of a route of net n that starts at root.
BindRoute(n, root, hops) ==
    LET W == DOMAIN hops
        P == {hops[w] : w \in W}
        old == nd_wires[n] IN
    /\ nd_wires' = [nd_wires EXCEPT ![n] = [w \in Wires |->
          IF w \in W THEN [pip |-> hops[w],
                           count |-> IF old[w] = Unbound THEN 1 ELSE old[w].count + 1]
          ELSE IF w = root /\ old[w] = Unbound THEN [pip |-> NoPip, count |-> 0]
          ELSE old[w]]]
    /\ curr_cong' = [w \in Wires |->
          curr_cong[w] + IF w \in NewlyUsed(n, W \cup {root}) THEN 1 ELSE 0]
    /\ nd_res' = [nd_res EXCEPT ![n] = [r \in Resources |->
          LET uses == UsesOf(r, P) IN
          IF uses = {} THEN nd_res[n][r]
          ELSE [value |-> Value[CHOOSE p \in uses : TRUE],
                count |-> IF nd_res[n][r] = NoUse /\ Cardinality(uses) = 1 THEN 1 ELSE 2]]]
    /\ value_count' = [r \in Resources |-> [v \in Values |->
          value_count[r][v] + Cardinality({p \in UsesOf(r, P) : Value[p] = v})]]

\* Its assertions: one driver per wire and one value per resource in a net.
RouteFits(n, hops) ==
    LET P == {hops[w] : w \in DOMAIN hops} IN
    /\ \A w \in DOMAIN hops :
          nd_wires[n][w] # Unbound => nd_wires[n][w].pip = hops[w]
    /\ \A r \in Resources : \A p, q \in UsesOf(r, P) :
          /\ Value[p] = Value[q]
          /\ nd_res[n][r] # NoUse => nd_res[n][r].value = Value[p]

\* Seeded fault: only the net's own entry is looked after.
UnbindResourcesOfNet(n, P) ==
    /\ nd_res' = [nd_res EXCEPT ![n] = [r \in Resources |->
          IF UsesOf(r, P) # {} /\ nd_res[n][r].count = 1 THEN NoUse ELSE nd_res[n][r]]]
    /\ UNCHANGED value_count

\* The entry of a resource is a copy, so a count above one never comes down again
\* and the entry stays.
UnbindResources(n, P) ==
    /\ nd_res' = [nd_res EXCEPT ![n] = [r \in Resources |->
          IF UsesOf(r, P) # {} /\ nd_res[n][r].count = 1 THEN NoUse ELSE nd_res[n][r]]]
    /\ value_count' = [r \in Resources |-> [v \in Values |->
          value_count[r][v] - Cardinality({p \in UsesOf(r, P) : Value[p] = v})]]

\* unbind_pip_internal for every hop.
UnbindRoute(n, W) ==
    LET gone == {w \in W : nd_wires[n][w].count = 1} IN
    /\ nd_wires' = [nd_wires EXCEPT ![n] = [w \in Wires |->
          IF w \in gone THEN Unbound
          ELSE IF w \in W THEN [nd_wires[n][w] EXCEPT !.count = @ - 1]
          ELSE nd_wires[n][w]]]
    /\ curr_cong' = [w \in Wires |-> curr_cong[w] - IF w \in gone THEN 1 ELSE 0]
    /\ UnbindResources(n, {nd_wires[n][w].pip : w \in W})

\* Seeded fault: the arc stays pre_routed, whatever replaces its route.
RipupKeepsPreRouted(a) ==
    IF a \in routed
    THEN /\ UnbindRoute(ArcNet[a], Body(ArcNet[a], ArcSink[a]))
         /\ routed' = routed \ {a}
         /\ UNCHANGED pre_routed
    ELSE UNCHANGED bookVars

\* Seeded fault: the wires the arc shares with others are unbound as well.
RipupShared(a) ==
    IF a \in routed
    THEN /\ nd_wires' = [nd_wires EXCEPT ![ArcNet[a]] = [w \in Wires |->
               IF w \in Body(ArcNet[a], ArcSink[a]) THEN Unbound ELSE nd_wires[ArcNet[a]][w]]]
         /\ curr_cong' = [w \in Wires |-> curr_cong[w] -
               IF w \in Body(ArcNet[a], ArcSink[a]) THEN 1 ELSE 0]
         /\ routed' = routed \ {a}
         /\ pre_routed' = pre_routed \ {a}
         /\ UNCHANGED <<nd_res, value_count>>
    ELSE UNCHANGED bookVars

ripup_arc(a) ==
    IF a \in routed
    THEN /\ UnbindRoute(ArcNet[a], Body(ArcNet[a], ArcSink[a]))
         /\ routed' = routed \ {a}
         /\ pre_routed' = pre_routed \ {a}
    ELSE UNCHANGED bookVars

\* nd.wires.at() throws when the walk leaves the books of the net.
RipupThrows(a) == a \in routed /\ ~Complete(ArcNet[a], ArcSink[a])

-----------------------------------------------------------------------------
(* setup_wires(), second loop: count the arcs that are routed already.  The *)
(* routes are those of one architecture, so recording one does not change   *)
(* which others are found.                                                  *)

SetupWires ==
    LET legal == {a \in arcs : check_arc_routing(a)}
        body == [a \in legal |-> Body(ArcNet[a], ArcSink[a])]
        uses == {u \in legal \X Wires : u[2] \in body[u[1]]}
        pipOf == [u \in uses |-> nd_wires[ArcNet[u[1]]][u[2]].pip]
        Drives(n, r, v) ==
          {u \in uses : ArcNet[u[1]] = n /\ Resource[pipOf[u]] = r /\ Value[pipOf[u]] = v}
    IN /\ pc = "setup"
       /\ routed' = legal /\ pre_routed' = legal
       /\ nd_wires' = [n \in Nets |-> [w \in Wires |->
             IF nd_wires[n][w] = Unbound THEN Unbound
             ELSE [nd_wires[n][w] EXCEPT
                     !.count = Cardinality({u \in uses : u[2] = w /\ ArcNet[u[1]] = n})]]]
       /\ nd_res' = [n \in Nets |-> [r \in Resources |->
             IF \A v \in Values : Drives(n, r, v) = {} THEN NoUse
             ELSE LET v == CHOOSE u \in Values : Drives(n, r, u) # {}
                  IN [value |-> v, count |-> IF Cardinality(Drives(n, r, v)) = 1 THEN 1 ELSE 2]]]
       /\ value_count' = [r \in Resources |-> [v \in Values |->
             Cardinality(UNION {Drives(n, r, v) : n \in Nets})]]
       /\ pc' = "reserve"
       /\ UNCHANGED <<archVars, arcs, reserved, curr_cong, queueVars, jobVars, bindVars>>

-----------------------------------------------------------------------------
(* find_all_reserved_wires(): the wires next to a driver or a sink that a   *)
(* net cannot do without are closed to the others.                          *)

OthersWire(n, w) == reserved[w] \notin {NoNet, n}

\* Wires from which no way leads back to the bel of the net's driver
\* (is_wire_undriveable), and wires from which none leads on to a sink
\* (is_wire_unusable).  The code looks at a limited number of wires and takes
\* the net to be in the open then; no device here is as deep.
Undriveable(n) ==
    LET blind[S \in SUBSET Wires] ==
          LET more == S \cup {w \in Wires :
                  \/ OthersWire(n, w)
                  \/ /\ w \notin DriverWires[n]
                     /\ \A p \in Pips : PipDst[p] = w /\ checkPipAvail(p) => PipSrc[p] \in S}
          IN IF more = S THEN S ELSE blind[more]
    IN blind[{}]

Unusable(n) ==
    LET dead[S \in SUBSET Wires] ==
          LET more == S \cup {w \in Wires :
                  \/ OthersWire(n, w)
                  \/ /\ w \notin Sinks(n)
                     /\ \A p \in Pips : PipSrc[p] = w /\ checkPipAvail(p) => PipDst[p] \in S}
          IN IF more = S THEN S ELSE dead[more]
    IN dead[{}]

\* The wires met from w on, each the only one after the one before.
Chain(w, step) ==
    LET met[S \in SUBSET Wires] ==
          LET more == S \cup UNION {step[u] : u \in S}
          IN IF more = S THEN S ELSE met[more]
    IN met[{w}]

\* From the driver, as long as there is one way on; it stops short of a sink.
DriverChain(n) ==
    LET dead == Unusable(n)
        Ways(w) == {p \in Pips : PipSrc[p] = w /\ PipDst[p] \notin dead}
        step == [w \in Wires |->
                    IF Cardinality(Ways(w)) = 1 /\ reserved[w] # Unavailable
                    THEN {PipDst[p] : p \in Ways(w)} \ Sinks(n) ELSE {}]
    IN IF Sinks(n) = {} \/ SourceWire[n] \in Sinks(n) THEN {}
       ELSE {w \in Chain(SourceWire[n], step) : reserved[w] # Unavailable}

\* Seeded fault: the first of several ways is taken for the only one.
SinkChainGuesses(n) ==
    LET blind == Undriveable(n)
        Ways(w) == {p \in Pips : PipDst[p] = w /\ PipSrc[p] \notin blind}
        step == [w \in Wires |->
                    IF w # SourceWire[n] /\ Ways(w) # {}
                    THEN {PipSrc[CHOOSE p \in Ways(w) : TRUE]} ELSE {}]
    IN UNION {Chain(ArcSink[a], step) : a \in ArcsOf(n) \ pre_routed}

\* From each sink back, as long as there is one way.
SinkChain(n) ==
    LET blind == Undriveable(n)
        Ways(w) == {p \in Pips : PipDst[p] = w /\ PipSrc[p] \notin blind}
        step == [w \in Wires |->
                    IF w # SourceWire[n] /\ Cardinality(Ways(w)) = 1
                    THEN {PipSrc[p] : p \in Ways(w)} ELSE {}]
    IN UNION {Chain(ArcSink[a], step) : a \in ArcsOf(n) \ pre_routed}

Claim(n) == IF SourceWire[n] # NoWire /\ ArcsOf(n) \ pre_routed # {}
            THEN DriverChain(n) \cup SinkChain(n) ELSE {}

\* What one net claims.  The walk stops at a wire that belongs to another, the
\* driver's or that of any sink: with log_error, but for an unavailable sink, even
\* one of the net itself, whose message asks for the name of net -2: at() throws.
\* (What was reserved on the way there nobody reads any more.)
ReserveWires(n) ==
    LET claim == Claim(n)
        taken == {w \in claim : OthersWire(n, w)}
    IN
    /\ pc = "reserve"
    /\ \E w \in claim : reserved[w] # n
    /\ IF taken = {}
       THEN /\ reserved' = [w \in Wires |-> IF w \in claim THEN n ELSE reserved[w]]
            /\ UNCHANGED pc
       ELSE /\ \E w \in IF SourceWire[n] \in taken \cap DriverChain(n)
                         THEN {SourceWire[n]} ELSE taken :
                  pc' = IF reserved[w] = Unavailable THEN "crashed" ELSE "failed"
            /\ UNCHANGED reserved
    /\ UNCHANGED <<archVars, arcs, bookVars, queueVars, jobVars, bindVars>>

ReserveDone ==
    /\ pc = "reserve"
    /\ \A n \in Nets : \A w \in Claim(n) : reserved[w] = n
    /\ pc' = "iterate"
    /\ UNCHANGED <<archVars, arcs, reserved, bookVars, queueVars, jobVars, bindVars>>

-----------------------------------------------------------------------------
(* do_route(): which worker routes which net. *)

Bin(n) ==
    LET b == bb[n]
        left == b.x1 < Mid.x /\ b.x0 < Mid.x
        right == b.x0 >= Mid.x /\ b.x1 >= Mid.x
        top == b.y1 < Mid.y /\ b.y0 < Mid.y
        bottom == b.y0 >= Mid.y /\ b.y1 >= Mid.y
    IN IF left /\ top THEN 0
       ELSE IF right /\ top THEN 1
       ELSE IF left /\ bottom THEN 2
       ELSE IF right /\ bottom THEN 3
       ELSE IF top THEN 4
       ELSE IF bottom THEN 5
       ELSE IF left THEN 6
       ELSE IF right THEN 7
       ELSE Alone

Threaded == Cardinality(route_queue) >= MTThreshold

DoRoute ==
    /\ pc = "iterate"
    /\ job' = [t \in Workers |->
                 [Idle EXCEPT !.todo = IF Threaded THEN {n \in route_queue : Bin(n) = t}
                                       ELSE IF t = Alone THEN route_queue ELSE {}]]
    /\ stage' = IF Threaded THEN 0 ELSE 3
    /\ pc' = "route"
    /\ UNCHANGED <<archVars, arcs, reserved, bookVars, queueVars, retry, bindVars>>

StageOf(t) == CASE t <= 3 -> 0 [] t \in {4, 5} -> 1 [] t \in {6, 7} -> 2 [] t = Alone -> 3

Finished(s) == \A t \in Workers : StageOf(t) = s => job[t].todo = {} /\ job[t].net = NoNet

\* The threads of a stage are joined before the next stage starts.
NextStage ==
    /\ pc = "route"
    /\ Finished(stage)
    /\ IF stage < 3 THEN stage' = stage + 1 /\ UNCHANGED <<pc, job, retry>>
       ELSE /\ job' = [job EXCEPT ![Alone].todo = retry]
            /\ retry' = {}
            /\ pc' = IF retry = {} THEN "congestion" ELSE "route"
            /\ UNCHANGED stage
    /\ UNCHANGED <<archVars, arcs, reserved, bookVars, queueVars, bindVars>>

\* The part of the device a thread may search.
InThread(t, w) ==
    /\ t \in {0, 2, 6} => WireLoc[w].x <= Mid.x
    /\ t \in {1, 3, 7} => WireLoc[w].x > Mid.x
    /\ t \in {0, 1, 4} => WireLoc[w].y <= Mid.y
    /\ t \in {2, 3, 5} => WireLoc[w].y > Mid.y

InBox(n, p) == /\ PipLoc[p].x \in bb[n].x0..bb[n].x1
               /\ PipLoc[p].y \in bb[n].y0..bb[n].y1

-----------------------------------------------------------------------------
(* route_net() by worker t: every arc is examined, then those that are not  *)
(* legally routed are routed one by one.                                    *)

Active(t) == pc = "route" /\ StageOf(t) = stage

\* Its driver cell is there: setup_nets() has seen to it that it has a wire.
Driven(n) == SourceWire[n] # NoWire

TakeNet(t, n) ==
    /\ Active(t)
    /\ job[t].net = NoNet
    /\ n \in job[t].todo
    /\ job' = [job EXCEPT ![t] =
                 [Idle EXCEPT !.todo = job[t].todo \ {n}, !.net = n,
                              !.exam = IF Driven(n) THEN ArcsOf(n) ELSE {}]]
    /\ UNCHANGED <<archVars, pc, arcs, reserved, bookVars, queueVars, stage, retry, bindVars>>

KeepArc(t, a) ==
    /\ Active(t)
    /\ a \in job[t].exam
    /\ job[t].net \notin late
    /\ check_arc_routing(a)
    /\ job' = [job EXCEPT ![t].exam = @ \ {a}]
    /\ UNCHANGED <<archVars, pc, arcs, reserved, bookVars, queueVars, stage, retry, bindVars>>

RipupArc(t, a) ==
    /\ Active(t)
    /\ a \in job[t].exam
    /\ job[t].net \in late \/ ~check_arc_routing(a)
    /\ job' = [job EXCEPT ![t].exam = @ \ {a}, ![t].route = @ \cup {a}]
    /\ IF RipupThrows(a) THEN pc' = "crashed" /\ UNCHANGED bookVars
       ELSE ripup_arc(a) /\ UNCHANGED pc
    /\ UNCHANGED <<archVars, arcs, reserved, queueVars, stage, retry, bindVars>>

\* Paths back from the sinks.
AllPathsBack == [d \in {ArcSink[a] : a \in Arcs} |-> {path \in PathsBack(d) : LeadsTo(path, d)}]

\* A wire the net has is entered by the pip that drives it already; one the
\* net has without a driver can be entered going backwards.
PipUsable(t, n, p) ==
    /\ checkPipAvailForNet(p, n)
    /\ nd_wires[n][PipDst[p]] # Unbound => nd_wires[n][PipDst[p]].pip \in {p, NoPip}
    /\ (Resource[p] # NoResource /\ nd_res[n][Resource[p]] # NoUse)
          => nd_res[n][Resource[p]].value = Value[p]
    /\ t # Alone => InBox(n, p)

WireUsable(t, n, w) == ~OthersWire(n, w) /\ InThread(t, w)

\* The routes the search may return.  It works from both ends: the wire where
\* a hop leads is tested going forwards, the one it comes from going backwards,
\* so that on a way of several hops the ends are not tested.  It may start from
\* wires that routed arcs of the net use (tree) and follow their route untested.
\* For a constant net it works backwards only.
PathsFor(t, a, tree) ==
    LET n == ArcNet[a] IN
    {path \in AllPathsBack[ArcSink[a]] :
        LET k == Len(path)
            reused == {i \in 1..k : \A j \in i..k :
                          PipDst[path[j]] \in tree /\ nd_wires[n][PipDst[path[j]]].pip = path[j]}
            new == (1..k) \ reused
            last == Cardinality(new) IN
        /\ RouteRoot(n, PipSrc[path[k]])
        /\ \A i \in 1..(k - 1) : ~RouteRoot(n, PipSrc[path[i]])
        /\ \A i \in new : PipUsable(t, n, path[i])
        /\ \A i \in new \ {last} : WireUsable(t, n, PipSrc[path[i]])
        /\ IsConst(n) /\ last > 0 => WireUsable(t, n, PipSrc[path[last]])
        /\ last = 1 => \/ WireUsable(t, n, PipSrc[path[1]])
                       \/ WireUsable(t, n, ArcSink[a])}

\* Wires the search may be seeded with.
Tree(n) == IF IsConst(n) THEN {}
           ELSE {w \in Wires : nd_wires[n][w] # Unbound /\ nd_wires[n][w].count > 0}

RouteArc(t, a) ==
    LET n == ArcNet[a] IN
    /\ Active(t)
    /\ job[t].exam = {} /\ a \in job[t].route
    /\ ArcSink[a] \notin job[t].sinks
    /\ \E path \in PathsFor(t, a, Tree(n)) :
          LET root == PipSrc[path[Len(path)]]
              hops == [w \in {PipDst[path[i]] : i \in 1..Len(path)} |->
                         CHOOSE p \in {path[i] : i \in 1..Len(path)} : PipDst[p] = w]
          IN IF RouteFits(n, hops)
             THEN /\ BindRoute(n, root, hops)
                  /\ routed' = routed \cup {a}
                  /\ UNCHANGED <<pc, pre_routed>>
             ELSE pc' = "crashed" /\ UNCHANGED bookVars
    /\ job' = [job EXCEPT ![t].route = @ \ {a}, ![t].sinks = @ \cup {ArcSink[a]}]
    /\ UNCHANGED <<archVars, arcs, reserved, queueVars, stage, retry, bindVars>>

\* Seeded fault: the arc stays in hand.
SinkDoneAgain(t, a) ==
    /\ Active(t)
    /\ job[t].exam = {} /\ a \in job[t].route
    /\ ArcSink[a] \in job[t].sinks
    /\ UNCHANGED vars

\* Another arc of the net to the same sink has been routed in this visit.
SinkDone(t, a) ==
    /\ Active(t)
    /\ job[t].exam = {} /\ a \in job[t].route
    /\ ArcSink[a] \in job[t].sinks
    /\ job' = [job EXCEPT ![t].route = @ \ {a}]
    /\ UNCHANGED <<archVars, pc, arcs, reserved, bookVars, queueVars, stage, retry, bindVars>>

\* A thread keeps to its box and to a number of steps, and leaves the net for
\* later; the single thread tries without limits, and gives up.
RouteFails(t, a) ==
    /\ Active(t)
    /\ job[t].exam = {} /\ a \in job[t].route
    /\ ArcSink[a] \notin job[t].sinks
    /\ IF t = Alone
       THEN PathsFor(t, a, {}) = {} /\ pc' = "failed" /\ UNCHANGED job
       ELSE /\ job' = [job EXCEPT ![t].route = @ \ {a}, ![t].failures = TRUE]
            /\ UNCHANGED pc
    /\ UNCHANGED <<archVars, arcs, reserved, bookVars, queueVars, stage, retry, bindVars>>

NetDone(t) ==
    /\ Active(t)
    /\ job[t].net # NoNet
    /\ job[t].exam = {} /\ job[t].route = {}
    /\ retry' = IF job[t].failures THEN retry \cup {job[t].net} ELSE retry
    /\ job' = [job EXCEPT ![t] = [Idle EXCEPT !.todo = job[t].todo]]
    /\ UNCHANGED <<archVars, pc, arcs, reserved, bookVars, queueVars, stage, bindVars>>

-----------------------------------------------------------------------------
(* update_route_delays() and update_congestion(). *)

\* The assertion that a walk over the books ends at the source.
DelaysThrow ==
    \E a \in arcs :
        LET n == ArcNet[a] IN
        /\ n \in route_queue /\ ~IsConst(n) /\ Driven(n)
        /\ SourceWire[n] \notin Trail(n, ArcSink[a])

\* Seeded fault: only the first of two nets that share a wire is routed again.
OverusedByOthers(n) == \E w \in Wires : nd_wires[n][w] # Unbound /\ curr_cong[w] > 2

Overused(n) ==
    \/ \E w \in Wires : nd_wires[n][w] # Unbound /\ curr_cong[w] > 1
    \/ \E r \in Resources : nd_res[n][r] # NoUse /\ Cardinality(ValuesInUse(r)) > 1

CapAt(x, top) == IF x > top THEN top ELSE x
Floor(x) == IF x < 1 THEN 0 ELSE x - 1
Expand(b) == [x0 |-> Floor(b.x0), x1 |-> CapAt(b.x1 + 1, Grid.x),
              y0 |-> Floor(b.y0), y1 |-> CapAt(b.y1 + 1, Grid.y)]

\* The box of a net grows at every third failure: at any, here.  Which nets
\* miss their timing is decided by the analysis.
UpdateCongestion ==
    LET overused == {n \in Nets : Overused(n)} IN
    /\ pc = "congestion"
    /\ \E grown \in SUBSET overused :
          bb' = [n \in Nets |-> IF n \in grown THEN Expand(bb[n]) ELSE bb[n]]
    /\ late' \in SUBSET LateNets
    /\ failed_nets' = overused \cup late'
    /\ route_queue' = failed_nets'
    /\ IF DelaysThrow THEN pc' = "crashed" /\ UNCHANGED nets_left
       ELSE IF failed_nets' = {} THEN pc' = "bind" /\ nets_left' = Nets
       ELSE pc' = "iterate" /\ UNCHANGED nets_left
    /\ UNCHANGED <<archVars, arcs, reserved, bookVars, jobVars, net, to_unbind,
                   arcs_left, to_bind>>

-----------------------------------------------------------------------------
(* bind_and_check_all(): one call of the architecture in each step. *)

\* Seeded fault: locked wires are unbound too.
BindNetUnlocks(n) ==
    /\ pc = "bind" /\ net = NoNet /\ n \in nets_left
    /\ net' = n
    /\ nets_left' = nets_left \ {n}
    /\ to_unbind' = HeldBy(n)
    /\ arcs_left' = ArcsOf(n)
    /\ UNCHANGED <<archVars, pc, arcs, reserved, bookVars, queueVars, jobVars, to_bind>>

BindNet(n) ==
    /\ pc = "bind" /\ net = NoNet /\ n \in nets_left
    /\ net' = n
    /\ nets_left' = nets_left \ {n}
    /\ to_unbind' = {w \in HeldBy(n) : wires[n][w].strength <= STRENGTH_STRONG}
    /\ arcs_left' = ArcsOf(n)
    /\ UNCHANGED <<archVars, pc, arcs, reserved, bookVars, queueVars, jobVars, to_bind>>

UnbindOld(w) ==
    /\ pc = "bind" /\ w \in to_unbind
    /\ unbindWire(w)
    /\ to_unbind' = to_unbind \ {w}
    /\ UNCHANGED <<pc, arcs, reserved, bookVars, queueVars, jobVars, nets_left, net,
                   arcs_left, to_bind>>

\* Seeded fault: the switches are not looked at.
CanBindByWires(a) ==
    \A w \in Body(ArcNet[a], ArcSink[a]) : checkWireAvail(w) \/ wire_to_net[w] = ArcNet[a]

\* The pips of a routed arc can be bound, or are there from its pre-routing.
CanBind(a) ==
    LET n == ArcNet[a] IN
    \A w \in Body(n, ArcSink[a]) :
        /\ checkWireAvail(w) \/ wire_to_net[w] = n
        /\ LET p == nd_wires[n][w].pip IN
           \/ checkPipAvailForNet(p, n)
           \/ a \in pre_routed /\ pip_to_net[p] = n

\* bind_and_check(), up to its calls of the architecture.
CheckArc(a) ==
    LET n == net
        body == Body(n, ArcSink[a])
        pips == {nd_wires[n][w].pip : w \in body} IN
    /\ pc = "bind" /\ to_unbind = {} /\ to_bind = NothingToBind
    /\ a \in arcs_left
    /\ arcs_left' = arcs_left \ {a}
    /\ \/ /\ a \notin routed
          /\ to_bind' = IF SourceWire[n] = ArcSink[a] /\ wire_to_net[ArcSink[a]] # n
                        THEN [root |-> ArcSink[a], pips |-> {}] ELSE NothingToBind
          /\ UNCHANGED <<pc, bookVars, failed_nets>>
       \/ /\ a \in routed /\ ~Complete(n, ArcSink[a])
          /\ pc' = "crashed"           \* incomplete route tree
          /\ UNCHANGED <<bookVars, failed_nets, to_bind>>
       \/ /\ a \in routed /\ Complete(n, ArcSink[a]) /\ CanBind(a)
          /\ \E root \in Wires :
                /\ root \in Trail(n, ArcSink[a]) /\ AtSource(n, root)
                /\ to_bind' = [root |-> IF wire_to_net[root] = NoNet THEN root ELSE NoWire,
                               pips |-> {p \in pips : pip_to_net[p] = NoNet}]
          /\ UNCHANGED <<pc, bookVars, failed_nets>>
       \/ /\ a \in routed /\ Complete(n, ArcSink[a]) /\ ~CanBind(a)
          /\ ripup_arc(a)
          /\ failed_nets' = failed_nets \cup {n}
          /\ UNCHANGED <<pc, to_bind>>
    /\ UNCHANGED <<archVars, arcs, reserved, route_queue, late, bb, jobVars, nets_left,
                   net, to_unbind>>

BindRoot ==
    /\ pc = "bind" /\ to_bind.root # NoWire
    /\ \/ bindWire(to_bind.root, net, STRENGTH_WEAK) /\ UNCHANGED pc
       \/ ~checkWireAvail(to_bind.root) /\ pc' = "crashed" /\ UNCHANGED archVars
    /\ to_bind' = [to_bind EXCEPT !.root = NoWire]
    /\ UNCHANGED <<arcs, reserved, bookVars, queueVars, jobVars, nets_left, net,
                   to_unbind, arcs_left>>

BindPip(p) ==
    /\ pc = "bind" /\ to_bind.root = NoWire /\ p \in to_bind.pips
    /\ \/ bindPip(p, net, STRENGTH_WEAK) /\ UNCHANGED pc
       \/ /\ ~(checkWireAvail(PipDst[p]) /\ switches_locked[Switch[p]] = NoWire)
          /\ pc' = "crashed"           \* the assertions of bindPip
          /\ UNCHANGED archVars
    /\ to_bind' = [to_bind EXCEPT !.pips = @ \ {p}]
    /\ UNCHANGED <<arcs, reserved, bookVars, queueVars, jobVars, nets_left, net,
                   to_unbind, arcs_left>>

NetBound ==
    /\ pc = "bind" /\ net # NoNet
    /\ to_unbind = {} /\ arcs_left = {} /\ to_bind = NothingToBind
    /\ net' = NoNet
    /\ UNCHANGED <<archVars, pc, arcs, reserved, bookVars, queueVars, jobVars, nets_left,
                   to_unbind, arcs_left, to_bind>>

\* A further iteration, or the end.
AllBound ==
    /\ pc = "bind" /\ net = NoNet /\ nets_left = {}
    /\ route_queue' = failed_nets
    /\ pc' = IF failed_nets = {} THEN "done" ELSE "iterate"
    /\ UNCHANGED <<archVars, arcs, reserved, bookVars, failed_nets, late, bb, jobVars,
                   bindVars>>

Returned ==
    /\ pc \in {"done", "failed", "crashed"}
    /\ UNCHANGED vars

\* The steps of a round of routing, and those of a round of binding.
RouteStep ==
    \/ NextStage
    \/ \E t \in Workers, n \in Nets : TakeNet(t, n)
    \/ \E t \in Workers, a \in Arcs : KeepArc(t, a)
    \/ \E t \in Workers, a \in Arcs : RipupArc(t, a)
    \/ \E t \in Workers, a \in Arcs : RouteArc(t, a)
    \/ \E t \in Workers, a \in Arcs : SinkDone(t, a)
    \/ \E t \in Workers, a \in Arcs : RouteFails(t, a)
    \/ \E t \in Workers : NetDone(t)

BindStep ==
    \/ \E n \in Nets : BindNet(n)
    \/ \E w \in Wires : UnbindOld(w)
    \/ \E a \in Arcs : CheckArc(a)
    \/ BindRoot
    \/ \E p \in Pips : BindPip(p)
    \/ NetBound
    \/ AllBound

Next ==
    \/ SetupWires
    \/ \E n \in Nets : ReserveWires(n)
    \/ ReserveDone
    \/ DoRoute
    \/ RouteStep
    \/ UpdateCongestion
    \/ BindStep
    \/ Returned

Spec == Init /\ [][Next]_vars

\* The threads of a stage run until they are joined, and then one thread runs.
FairSpec == Spec /\ WF_vars(RouteStep) /\ WF_vars(BindStep)

-----------------------------------------------------------------------------
(* What the theorems ask of the device, of the arcs and of the designs.    *)

\* A constant net has no source wire of another kind, and no sink that has the
\* constant by itself.
ConstantsStart ==
    \A a \in Arcs :
        LET n == ArcNet[a] IN
        IsConst(n) => /\ SourceWire[n] = NoWire \/ RouteRoot(n, SourceWire[n])
                      /\ ~RouteRoot(n, ArcSink[a])

\* It has a driver.
ConstantsDriven == \A a \in Arcs : IsConst(ArcNet[a]) => SourceWire[ArcNet[a]] # NoWire

\* The boxes of the nets are on the device.
BoxesOnGrid == Grid \in [x : Nat, y : Nat] /\ NetBox \in [Nets -> Box]

\* No pip leaves a sink.
SinksEnd ==
    \A a \in Arcs, p \in Pips :
        PipSrc[p] = ArcSink[a] => AtSource(ArcNet[a], ArcSink[a])

\* The ways of an arc.
Ways(a) ==
    {path \in AllPathsBack[ArcSink[a]] : RouteRoot(ArcNet[a], PipSrc[path[Len(path)]])}

\* A way takes one value of a resource, and no switch twice.
WaysFit ==
    \A a \in Arcs : \A path \in Ways(a) : \A i, j \in 1..Len(path) :
        LET p == path[i]
            q == path[j] IN
        /\ (Resource[p] = Resource[q] /\ Resource[p] # NoResource) => Value[p] = Value[q]
        /\ Switch[p] = Switch[q] => p = q

\* In the routing given, a net takes one value of a resource on its way to the sinks.
Upstream(r, sinks) ==
    {v \in Wires : \A S \in SUBSET Wires :
        (/\ sinks \subseteq S
         /\ \A w \in S : (r[w] # Unbound /\ r[w].pip # NoPip) => PipSrc[r[w].pip] \in S)
            => v \in S}

OneValue(A, r) ==
    \A n \in Nets :
        LET way == Upstream(r[n], {ArcSink[a] : a \in {b \in A : ArcNet[b] = n}})
            pips == {r[n][w].pip : w \in {v \in way : r[n][v] # Unbound}} \ {NoPip}
        IN \A p, q \in pips : (Resource[p] = Resource[q] /\ Resource[p] # NoResource)
                                => Value[p] = Value[q]

\* Every wire of a net leads back to where the net may start, and what is bound
\* strongly does so by wires bound strongly.
WellRooted(r) ==
    \A n \in Nets :
        /\ \A w \in Wires : r[n][w] # Unbound =>
              LET p == r[n][w].pip IN
              IF p = NoPip THEN RouteRoot(n, w)
              ELSE /\ ~AtSource(n, w)
                   /\ r[n][PipSrc[p]] # Unbound
                   /\ r[n][w].strength > STRENGTH_STRONG
                         => r[n][PipSrc[p]].strength > STRENGTH_STRONG
        /\ \A W \in (SUBSET Wires) \ {{}} :
              \E w \in W : r[n][w] # Unbound =>
                              (r[n][w].pip = NoPip \/ PipSrc[r[n][w].pip] \notin W)

\* Where a net may start, no other net has a wire, starts, ends or can pass.
OwnStarts(d) ==
    \A a \in d.arcs, w \in Wires :
        AtSource(ArcNet[a], w) =>
            /\ \A m \in Nets \ {ArcNet[a]} : d.routing[m][w] = Unbound
            /\ \A b \in d.arcs : ArcNet[b] # ArcNet[a] =>
                  /\ ~AtSource(ArcNet[b], w) /\ w # ArcSink[b]
                  /\ \A path \in Ways(b) : \A i \in 1..Len(path) : w # PipSrc[path[i]]

-----------------------------------------------------------------------------
(* Properties *)

\* curr_cong is how many nets use a wire, after any sequence of routing, rip-up
\* and failed binding: the router stops when it is nowhere above one, and loops
\* for ever over a wire whose count has lost a decrement.
CongestionCounts ==
    \A w \in Wires :
        curr_cong[w] = Cardinality({n \in Nets : nd_wires[n][w] # Unbound})

\* The books of a net are the routes of its routed arcs: each leads from its sink
\* to the net's source, and a wire counts the arcs whose route passes it.  A wire
\* no arc counts is where the net starts or was bound to it from the beginning.
BooksAreTheRoutes ==
    LET body == [a \in routed |-> Body(ArcNet[a], ArcSink[a])] IN
    /\ \A a \in routed : \A w \in body[a] : ~Ends(ArcNet[a], w)
    /\ \A n \in Nets, w \in Wires :
          (nd_wires[n][w] # Unbound /\ ~AtSource(n, w)) =>
             nd_wires[n][w].count = Cardinality({a \in routed : ArcNet[a] = n /\ w \in body[a]})

\* A resource counts the uses of each value by the routes, and a net that uses it
\* has an entry with the value it uses.  (The other direction fails: the entry
\* may outlive the use.)
ResourcesAreCounted ==
    LET uses == UNION {{a} \X Body(ArcNet[a], ArcSink[a]) : a \in routed}
        pipOf == [u \in uses |-> nd_wires[ArcNet[u[1]]][u[2]].pip]
    IN \A r \in Resources, v \in Values :
          LET these == {u \in uses : Resource[pipOf[u]] = r /\ Value[pipOf[u]] = v} IN
          /\ value_count[r][v] = Cardinality(these)
          /\ \A u \in these : LET entry == nd_res[ArcNet[u[1]]][r]
                            IN entry # NoUse /\ entry.value = v

\* No assertion, at() or internal error of the router throws, nor a call of the
\* architecture that binds what was planned, but for two cases: while the nets claim
\* wires, a sink bound more strongly than STRENGTH_PLACER, of an arc that is not
\* routed; and while a net is bound, a wire of it bound too strongly to be released,
\* for which another pip was planned.
Claiming == net = NoNet /\ \A t \in Workers : job[t].net = NoNet

NoAssertionFails ==
    pc = "crashed" =>
        \/ Claiming /\ \E a \in arcs \ routed : reserved[ArcSink[a]] = Unavailable
        \/ \E n \in Nets \cap {net}, w \in Wires :
              wires[n][w] # Unbound /\ wires[n][w].strength > STRENGTH_STRONG

\* When the router returns, what is bound is a design checkRoutedDesign() accepts.
\* The router calls it and does not look at the answer.  Wires bound more strongly
\* than STRENGTH_STRONG, which the router leaves, and less than STRENGTH_LOCKED,
\* from where on the check excuses them, are all that may be wrong with a net.
checkRoutedDesign(n) == NetRouted(n, Sinks(n))
DoneMeansRouted ==
    pc = "done" =>
        \A n \in Nets :
            \/ checkRoutedDesign(n)
            \/ \E w \in HeldBy(n) : /\ wires[n][w].strength > STRENGTH_STRONG
                                    /\ wires[n][w].strength < STRENGTH_LOCKED

\* The comment of the search, "all the sink wires that must be used to route a
\* given arc": a wire reserved for a net lies on every way from the net's source
\* to one of its sinks.  (Not so for a constant, which has other sources.)
ReservedWiresAreForced ==
    pc = "reserve" =>
        \A n \in Nets, w \in Wires :
            (reserved[w] = n /\ wire_to_net[w] = NoNet /\ ~IsConst(n)) =>
                \E a \in ArcsOf(n) :
                    \A path \in AllPathsBack[ArcSink[a]] :
                        (/\ RouteRoot(n, PipSrc[path[Len(path)]])
                         /\ \A i \in 1..Len(path) :
                               /\ checkPipAvail(path[i])
                               /\ ~OthersWire(n, PipSrc[path[i]]))
                        => \E i \in 1..Len(path) : w \in {PipSrc[path[i]], PipDst[path[i]]}

\* Wires bound more strongly than STRENGTH_STRONG keep their net and their pip.
StronglyBoundStay ==
    [][\A n \in Nets, w \in Wires :
          (wires[n][w] # Unbound /\ wires[n][w].strength > STRENGTH_STRONG)
             => wires'[n][w] = wires[n][w]]_vars

\* Every round of routing is followed by a look at the congestion, and every
\* round of binding by an answer.
EveryRoundEnds == (pc \in {"route", "bind"}) ~> (pc \notin {"route", "bind"})

\* "The notional location of the wire, to guarantee thread safety": while threads
\* run, a thread changes the counts of wires of its own part of the device only.
ThreadsKeepApart ==
    [][\A t \in Workers \ {Alone}, w \in Wires :
          (job'[t] # job[t] /\ curr_cong'[w] # curr_cong[w]) => InThread(t, w)]_vars
=============================================================================

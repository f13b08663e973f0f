--------------------------- MODULE Router1_proofs ---------------------------
(***************************************************************************)
(* Router1 for any device and netlist: types, the agreement of the two     *)
(* maps and the consistency of the architecture's tables, for any initial  *)
(* routing; and, for an initial routing that is as the theorem says, that  *)
(* routed arcs are connected, that the router's own check holds, that      *)
(* locked wires of other nets stay, that no assertion fails and that a run *)
(* that is done leaves a legal design.                                     *)
(*                                                                         *)
(* The second half works on the kinds of step of lemma Steps, which say    *)
(* wire by wire what a step does to the routing and to the two maps.       *)
(***************************************************************************)
EXTENDS Router1, Ice40Routing_proofs, SequenceTheorems

\* The arc in hand is an arc, there is a hop to bind while binding, and a timing
\* pass is begun only while some are left.
InHand ==
    /\ pc \in {"release", "bind"} => arc \in Arcs
    /\ pc = "bind" => plan # <<>>
    /\ pc = "timing" => timing_fail_count < MaxTimingRipups

-----------------------------------------------------------------------------
(* Every step of the router makes at most one call into the architecture.  *)

LEMMA RipUpCalls ==
    ASSUME NEW w \in Wires, RipUp(w) PROVE ArchNext
BY DEF RipUp, ArchNext

LEMMA StepCallsArch ==
    ASSUME TypeOK, InHand, [Next]_vars PROVE ArchNext \/ UNCHANGED archVars
<1> USE RoutingAssumption, RouterAssumption
<1> DEFINE h == Head(plan)
<1>1. CASE UNCHANGED vars
  BY <1>1 DEF vars
<1>2. CASE UnbindOrphan
  <2>1. PICK w \in work : unbindWire(w)
    BY <1>2 DEF UnbindOrphan
  <2> QED BY <2>1 DEF ArchNext, TypeOK
<1>3. CASE \E w \in Wires : ReleaseWire(w)
  BY <1>3 DEF ReleaseWire, ArchNext
<1>4. CASE RouteTrivialArc
  <2>1. arc \in Arcs
    BY <1>4 DEF RouteTrivialArc, InHand
  <2>2. ArcSink[arc] \in Wires /\ ArcNet[arc] \in Nets /\ STRENGTH_WEAK \in Strengths
    BY <2>1
  <2>3. bindWire(ArcSink[arc], ArcNet[arc], STRENGTH_WEAK) \/ UNCHANGED archVars
    BY <1>4 DEF RouteTrivialArc
  <2> QED BY <2>2, <2>3 DEF ArchNext
<1>5. ASSUME pc = "bind"
      PROVE  /\ arc \in Arcs /\ ArcNet[arc] \in Nets
             /\ h \in Hop /\ STRENGTH_WEAK \in Strengths
  BY <1>5 DEF InHand, TypeOK
<1>6. CASE RipupWire
  BY <1>5, <1>6, RipUpCalls DEF RipupWire, Hop
<1>7. CASE RipupPip
  <2>1. h.pip \in Pips
    BY <1>5, <1>7 DEF RipupPip, Hop
  <2>2. getConflictingPipWire(h.pip) \in Wires \cup {NoWire}
    BY <2>1 DEF getConflictingPipWire, TypeOK, ArchTypeOK
  <2>3. \/ UNCHANGED archVars
        \/ /\ getConflictingPipWire(h.pip) # NoWire
           /\ RipUp(getConflictingPipWire(h.pip))
    BY <1>7 DEF RipupPip
  <2> QED BY <2>2, <2>3, RipUpCalls
<1>8. CASE BindHop
  <2>1. \/ bindWire(h.wire, ArcNet[arc], STRENGTH_WEAK)
        \/ h.pip # NoPip /\ bindPip(h.pip, ArcNet[arc], STRENGTH_WEAK)
    BY <1>8 DEF BindHop
  <2> QED BY <1>5, <1>8, <2>1 DEF BindHop, Hop, ArchNext
<1>9. CASE \E w \in Wires : RipupLateSink(w)
  BY <1>9, RipUpCalls DEF RipupLateSink
<1>10. CASE \/ \E n \in Nets : SetupNet(n) \/ SetupRejects(n)
            \/ SetupNetDone \/ (\E a \in Arcs : PopArc(a)) \/ FindPath
  BY <1>10 DEF SetupNet, SetupRejects, SetupNetDone, PopArc, FindPath
<1>11. CASE NoPath \/ KeepHop \/ TimingPass \/ TimingPassDone \/ Finish
  BY <1>11 DEF NoPath, KeepHop, TimingPass, TimingPassDone, Finish
<1>12. CASE Returned
  BY <1>12 DEF Returned, vars
<1> QED
  BY <1>1, <1>2, <1>3, <1>4, <1>6, <1>7, <1>8, <1>9, <1>10, <1>11, <1>12
  DEF Next

-----------------------------------------------------------------------------
(* Types. *)

RouterTypes ==
    /\ pc \in {"setup", "orphans", "idle", "release", "bind", "timing", "ripup",
               "done", "failed", "rejected", "crashed"}
    /\ queued_arcs \subseteq Arcs
    /\ wire_to_arcs \in [Wires -> SUBSET Arcs]
    /\ arc_to_wires \in [Arcs -> SUBSET Wires]
    /\ setup_nets \subseteq Nets
    /\ work \subseteq Wires
    /\ arc \in Arcs \cup {NoArc}
    /\ plan \in Seq(Hop)
    /\ timing_fail_count \in 0..MaxTimingRipups
    /\ arcs \subseteq Arcs

\* What the search promises of a path.
LEMMA PathFound ==
    ASSUME NEW a \in Arcs, NEW path \in PathsFor(a)
    PROVE  /\ LeadsTo(path, ArcSink[a])
           /\ RouteRoot(ArcNet[a], PipSrc[path[Len(path)]])
           /\ IsConst(ArcNet[a])
                 \/ \A i \in 1..(Len(path) - 1) : ~RouteRoot(ArcNet[a], PipSrc[path[i]])
           /\ \A i \in 1..Len(path) :
                 IF IsConst(ArcNet[a]) THEN ConstHopAllowed(ArcNet[a], path[i])
                 ELSE HopAllowed(ArcNet[a], path[i])
BY DEF PathsFor, AllPathsBack

\* A path of pips gives a non-empty plan of hops, in either order.
LEMMA PlanTypes ==
    ASSUME NEW path \in Seq(Pips) \ {<<>>}
    PROVE  /\ SinkToSource(path) \in Seq(Hop) \ {<<>>}
           /\ SourceToSink(path) \in Seq(Hop) \ {<<>>}
<1> USE RoutingAssumption, RouterAssumption
<1> DEFINE k == Len(path)
<1>1. k \in Nat /\ k >= 1 /\ \A i \in 1..k : path[i] \in Pips
  OBVIOUS
<1>2. ASSUME NEW i \in 1..(k + 1) PROVE SinkToSource(path)[i] \in Hop
  <2>1. CASE i <= k
    <3>1. path[i] \in Pips /\ PipDst[path[i]] \in Wires
      BY <1>1, <2>1
    <3> QED BY <2>1, <3>1 DEF SinkToSource, Hop
  <2>2. CASE ~(i <= k)
    <3>1. path[k] \in Pips /\ PipSrc[path[k]] \in Wires
      BY <1>1
    <3> QED BY <2>2, <3>1 DEF SinkToSource, Hop
  <2> QED BY <2>1, <2>2
<1>3. SinkToSource(path) \in [1..(k + 1) -> Hop]
  BY <1>2 DEF SinkToSource
<1>4. SourceToSink(path) \in [1..(k + 1) -> Hop]
  <2>1. \A i \in 1..(k + 1) : k + 2 - i \in 1..(k + 1)
    BY <1>1
  <2> QED BY <1>1, <1>3, <2>1 DEF SourceToSink
<1>5. \A f : f \in [1..(k + 1) -> Hop] => f \in Seq(Hop) /\ f # <<>>
  BY <1>1
<1> QED BY <1>3, <1>4, <1>5

LEMMA WalkTypes ==
    ASSUME ArchTypeOK, NEW n \in Nets, NEW d \in Wires PROVE Walk(n, d) \subseteq Wires
<1>1. \A v \in HeldBy(n) : wires[n][v].pip # NoPip => wires[n][v].pip \in Pips
  BY DEF ArchTypeOK, HeldBy, PipMap
<1>2. Drivers(n) \subseteq Wires
  BY <1>1, RouterAssumption DEF Drivers
<1> QED BY <1>2 DEF Walk

LEMMA RipUpTypes ==
    ASSUME RouterTypes, NEW w \in Wires, RipUp(w)
    PROVE  /\ queued_arcs' \subseteq Arcs
           /\ wire_to_arcs' \in [Wires -> SUBSET Arcs]
           /\ arc_to_wires' \in [Arcs -> SUBSET Wires]
<1>1. wire_to_arcs[w] \subseteq Arcs
  BY DEF RouterTypes
<1>2. queued_arcs' \subseteq Arcs
  BY <1>1 DEF RouterTypes, RipUp
<1>3. wire_to_arcs' \in [Wires -> SUBSET Arcs]
  BY DEF RouterTypes, RipUp
<1>4. arc_to_wires' \in [Arcs -> SUBSET Wires]
  <2>1. \A a \in Arcs : arc_to_wires[a] \subseteq Wires
    BY DEF RouterTypes
  <2>2. \A a \in Arcs : (IF a \in wire_to_arcs[w] THEN arc_to_wires[a] \ {w}
                         ELSE arc_to_wires[a]) \in SUBSET Wires
    BY <2>1
  <2> QED BY <2>2 DEF RipUp
<1> QED BY <1>2, <1>3, <1>4

LEMMA RegisterTypes ==
    ASSUME RouterTypes, NEW a \in Arcs, NEW w \in Wires, Register(a, w)
    PROVE  /\ wire_to_arcs' \in [Wires -> SUBSET Arcs]
           /\ arc_to_wires' \in [Arcs -> SUBSET Wires]
<1>1. wire_to_arcs[w] \cup {a} \in SUBSET Arcs
  BY DEF RouterTypes
<1>2. arc_to_wires[a] \cup {w} \in SUBSET Wires
  BY DEF RouterTypes
<1> QED BY <1>1, <1>2 DEF RouterTypes, Register

LEMMA TailOfPlan ==
    ASSUME NEW S, NEW s \in Seq(S), s # <<>>
    PROVE  Tail(s) \in Seq(S) /\ (Len(s) # 1 => Tail(s) # <<>>)
<1>1. Tail(s) \in Seq(S) /\ Len(Tail(s)) = Len(s) - 1
  BY HeadTailProperties
<1>2. Len(s) \in Nat
  OBVIOUS
<1>3. Tail(s) = <<>> <=> Len(Tail(s)) = 0
  BY <1>1, EmptySeq
<1> QED BY <1>1, <1>2, <1>3

\* After a hop the rest of the plan is typed, and non-empty while binding.
LEMMA NextHopTypes ==
    ASSUME RouterTypes, InHand, pc = "bind", NextHop
    PROVE  RouterTypes' /\ InHand'
<1> USE RouterAssumption
<1>1. arc \in Arcs /\ plan \in Seq(Hop) /\ plan # <<>>
  BY DEF InHand, RouterTypes
<1>2. Head(plan).wire \in Wires
  <2>1. Head(plan) \in Hop
    BY <1>1, HeadTailProperties
  <2> QED BY <2>1 DEF Hop
<1>3. /\ wire_to_arcs' \in [Wires -> SUBSET Arcs]
      /\ arc_to_wires' \in [Arcs -> SUBSET Wires]
  BY <1>1, <1>2, RegisterTypes DEF NextHop
<1>4. Tail(plan) \in Seq(Hop) /\ (Len(plan) # 1 => Tail(plan) # <<>>)
  BY <1>1, TailOfPlan
<1>5. /\ pc' \in {"timing", "idle", "bind"}
      /\ pc' = "bind" => Len(plan) # 1
      /\ pc' = "timing" => timing_fail_count < MaxTimingRipups
  BY DEF NextHop, AfterArc
<1>6. UNCHANGED <<queued_arcs, setup_nets, work, arc, timing_fail_count, arcs>>
      /\ plan' = Tail(plan)
  BY DEF NextHop
<1> QED BY <1>1, <1>3, <1>4, <1>5, <1>6 DEF RouterTypes, InHand

LEMMA RouterStepTypes ==
    ASSUME TypeOK, InHand, [Next]_vars PROVE RouterTypes' /\ InHand'
<1> USE RoutingAssumption, RouterAssumption
<1>0. RouterTypes
  BY DEF TypeOK, RouterTypes
<1>w. \A n \in Nets, d \in Wires : Walk(n, d) \subseteq Wires
  BY WalkTypes DEF TypeOK
<1>1. CASE UNCHANGED vars
  BY <1>0, <1>1 DEF vars, routerVars, RouterTypes, InHand
<1>2. CASE \E n \in Nets : SetupNet(n)
  <2>1. PICK n \in Nets : SetupNet(n)
    BY <1>2
  <2>2. /\ arc_to_wires' \in [Arcs -> SUBSET Wires]
        /\ wire_to_arcs' \in [Wires -> SUBSET Arcs]
        /\ queued_arcs' \subseteq Arcs
    <3> DEFINE walk == [a \in Found(n) |-> Walk(n, ArcSink[a])]
    <3>1. Found(n) \subseteq Arcs /\ Broken(n) \subseteq Arcs /\ ArcsOf(n) \subseteq Arcs
      BY <1>0 DEF RouterTypes, Found, ArcsOf, Broken
    <3>2. \A a \in Found(n) : walk[a] \subseteq Wires
      BY <1>w, <3>1
    <3>3. /\ arc_to_wires' = [a \in Arcs |-> IF a \in Found(n) THEN arc_to_wires[a] \cup walk[a]
                                            ELSE arc_to_wires[a]]
          /\ wire_to_arcs' = [w \in Wires |-> wire_to_arcs[w] \cup {a \in Found(n) : w \in walk[a]}]
          /\ queued_arcs' = queued_arcs \cup (ArcsOf(n) \ Found(n)) \cup Broken(n)
      BY <2>1 DEF SetupNet
    <3> HIDE DEF walk
    <3> QED BY <1>0, <3>1, <3>2, <3>3 DEF RouterTypes
  <2>3. work' \subseteq Wires /\ setup_nets' \subseteq Nets
    BY <1>0, <2>1 DEF SetupNet, RouterTypes, Orphans
  <2>4. pc' \in {"crashed", "orphans"}
        /\ UNCHANGED <<arc, plan, timing_fail_count, arcs>>
    BY <2>1 DEF SetupNet
  <2> QED BY <1>0, <2>2, <2>3, <2>4 DEF RouterTypes, InHand
<1>3. CASE \E n \in Nets : SetupRejects(n)
  BY <1>0, <1>3 DEF SetupRejects, routerVars, RouterTypes, InHand
<1>4. CASE UnbindOrphan
  BY <1>0, <1>4 DEF UnbindOrphan, RouterTypes, InHand
<1>5. CASE SetupNetDone
  BY <1>0, <1>5 DEF SetupNetDone, routerVars, RouterTypes, InHand
<1>6. CASE \E a \in Arcs : PopArc(a)
  BY <1>0, <1>6 DEF PopArc, RouterTypes, InHand
<1>7. CASE \E w \in Wires : ReleaseWire(w)
  BY <1>0, <1>7 DEF ReleaseWire, RouterTypes, InHand
<1>8. CASE RouteTrivialArc
  <2>1. arc \in Arcs /\ ArcSink[arc] \in Wires
    BY <1>8 DEF RouteTrivialArc, InHand
  <2>2. /\ wire_to_arcs' \in [Wires -> SUBSET Arcs]
        /\ arc_to_wires' \in [Arcs -> SUBSET Wires]
    BY <1>0, <1>8, <2>1, RegisterTypes DEF RouteTrivialArc, RouterTypes
  <2>3. pc' \in {"timing", "idle", "crashed"}
        /\ UNCHANGED <<queued_arcs, setup_nets, work, arc, plan, timing_fail_count, arcs>>
        /\ (pc' = "timing" => timing_fail_count < MaxTimingRipups)
    BY <1>8 DEF RouteTrivialArc, AfterArc
  <2> QED BY <1>0, <2>2, <2>3 DEF RouterTypes, InHand
<1>9. CASE FindPath
  <2>1. PICK path \in Seq(Pips) \ {<<>>} :
           plan' = SourceToSink(path) \/ plan' = SinkToSource(path)
    <3>1. arc \in Arcs
      BY <1>9 DEF FindPath, InHand
    <3>2. PICK path \in PathsFor(arc) :
             plan' = SourceToSink(path) \/ plan' = SinkToSource(path)
      BY <1>9 DEF FindPath
    <3> QED BY <3>1, <3>2, PathFound DEF LeadsTo
  <2>2. plan' \in Seq(Hop) \ {<<>>}
    BY <2>1, PlanTypes
  <2> QED BY <1>0, <1>9, <2>2 DEF FindPath, RouterTypes, InHand
<1>10. CASE NoPath
  BY <1>0, <1>10 DEF NoPath, routerVars, RouterTypes, InHand
<1>11. ASSUME pc = "bind" PROVE Head(plan) \in Hop
  BY <1>0, <1>11 DEF InHand, RouterTypes
<1>12. CASE RipupWire
  <2>1. Head(plan).wire \in Wires /\ RipUp(Head(plan).wire)
    BY <1>11, <1>12 DEF RipupWire, Hop
  <2>2. UNCHANGED <<pc, setup_nets, work, arc, plan, timing_fail_count, arcs>>
    BY <1>12 DEF RipupWire
  <2> QED BY <1>0, <2>1, <2>2, RipUpTypes DEF RouterTypes, InHand
<1>13. CASE RipupPip
  <2> DEFINE c == getConflictingPipWire(Head(plan).pip)
  <2>1. Head(plan).pip \in Pips
    BY <1>11, <1>13 DEF RipupPip, Hop
  <2>2. c \in Wires \cup {NoWire}
    BY <2>1 DEF getConflictingPipWire, TypeOK, ArchTypeOK
  <2>3. UNCHANGED <<setup_nets, work, arc, plan, timing_fail_count, arcs>>
    BY <1>13 DEF RipupPip
  <2>4. \/ pc' = "crashed" /\ UNCHANGED <<queued_arcs, wire_to_arcs, arc_to_wires>>
        \/ c # NoWire /\ RipUp(c) /\ UNCHANGED pc
    BY <1>13 DEF RipupPip
  <2> HIDE DEF c
  <2> QED BY <1>0, <2>2, <2>3, <2>4, RipUpTypes DEF RouterTypes, InHand
<1>14. CASE KeepHop \/ BindHop
  BY <1>0, <1>14, NextHopTypes DEF KeepHop, BindHop
<1>15. CASE TimingPass
  <2>1. MaxTimingRipups \in Nat /\ timing_fail_count \in 0..MaxTimingRipups
    BY <1>0 DEF RouterTypes
  <2>2. timing_fail_count + 1 \in 0..MaxTimingRipups
    BY <2>1, <1>15 DEF TimingPass, InHand
  <2> QED BY <1>0, <1>15, <2>1, <2>2 DEF TimingPass, RouterTypes, InHand
<1>16. CASE \E w \in Wires : RipupLateSink(w)
  <2>1. PICK w \in Wires : RipupLateSink(w)
    BY <1>16
  <2>2. \/ UNCHANGED <<queued_arcs, wire_to_arcs, arc_to_wires>>
        \/ RipUp(w)
    BY <2>1 DEF RipupLateSink
  <2>3. work' \subseteq Wires /\ pc' = "ripup"
        /\ UNCHANGED <<setup_nets, arc, plan, timing_fail_count, arcs>>
    BY <1>0, <2>1 DEF RipupLateSink, RouterTypes
  <2> QED BY <1>0, <2>2, <2>3, RipUpTypes DEF RouterTypes, InHand
<1>17. CASE TimingPassDone \/ Finish
  BY <1>0, <1>17 DEF TimingPassDone, Finish, routerVars, RouterTypes, InHand
<1>18. CASE Returned
  BY <1>0, <1>18 DEF Returned, vars, routerVars, RouterTypes, InHand
<1> QED
  BY <1>1, <1>2, <1>3, <1>4, <1>5, <1>6, <1>7, <1>8, <1>9, <1>10, <1>12, <1>13,
     <1>14, <1>15, <1>16, <1>17, <1>18 DEF Next

LEMMA InitIsConsistent == Init => TypeOK /\ InHand /\ Consistent
<1> SUFFICES ASSUME Init PROVE TypeOK /\ InHand /\ Consistent
  OBVIOUS
<1> USE RouterAssumption
<1>1. wires \in {d.routing : d \in Designs} /\ InitTables
  BY DEF Init
<1>2. wires \in [Nets -> [Wires -> PipMap \cup {Unbound}]] /\ InitialRouting(wires)
  BY <1>1, InitialRoutingAssumption
<1>3. ArchTypeOK /\ Consistent
  BY <1>1, <1>2, InitTablesConsistent
<1>4. RouterTypes /\ InHand
  <2>1. <<>> \in Seq(Hop)
    OBVIOUS
  <2>2. 0 \in 0..MaxTimingRipups
    OBVIOUS
  <2> QED BY <2>1, <2>2 DEF Init, RouterTypes, InHand
<1> QED BY <1>3, <1>4 DEF TypeOK, RouterTypes

LEMMA StepTypes == TypeOK /\ InHand /\ [Next]_vars => TypeOK' /\ InHand'
<1> SUFFICES ASSUME TypeOK, InHand, [Next]_vars PROVE TypeOK' /\ InHand'
  OBVIOUS
<1>1. RouterTypes' /\ InHand'
  BY RouterStepTypes
<1>2. ArchTypeOK
  BY DEF TypeOK
<1>3. ArchTypeOK'
  <2>1. CASE ArchNext
    BY <1>2, <2>1, ArchStepTypes
  <2>2. CASE UNCHANGED archVars
    BY <1>2, <2>2 DEF archVars, ArchTypeOK
  <2> QED BY <2>1, <2>2, StepCallsArch
<1> QED BY <1>1, <1>3 DEF TypeOK, RouterTypes

\* Type correctness of the router and of the tables it works on.
THEOREM RouterTypeCorrect == Spec => [](TypeOK /\ InHand)
<1>1. Init => TypeOK /\ InHand
  BY InitIsConsistent
<1> QED BY <1>1, StepTypes, PTL DEF Spec

LEMMA StepKeepsConsistent ==
    ASSUME TypeOK, InHand, Consistent, [Next]_vars PROVE Consistent'
<1>1. ArchTypeOK
  BY DEF TypeOK
<1>2. CASE ArchNext
  BY <1>1, <1>2, ArchStepConsistent
<1>3. CASE UNCHANGED archVars
  BY <1>3 DEF archVars, Consistent, RecordedIsBound, BoundIsRecorded,
              PipDrivesItsWire, LockedSwitchIsUsed, OnePipPerSwitch
<1> QED BY <1>2, <1>3, StepCallsArch

\* Routing keeps the architecture's tables consistent, whatever is ripped up,
\* and also when an assertion stops it: the debug build's ctx->check() passes.
THEOREM RoutingKeepsTablesConsistent == Spec => []TablesConsistent
<1>1. Init => Consistent
  BY InitIsConsistent
<1>2. TypeOK /\ InHand /\ Consistent /\ [Next]_vars => Consistent'
  BY StepKeepsConsistent
<1>3. Consistent => TablesConsistent
  BY DEF TablesConsistent
<1> QED BY <1>1, <1>2, <1>3, RouterTypeCorrect, PTL DEF Spec

-----------------------------------------------------------------------------
(* The two maps.  The clause of MapsAgree for the wires still to be         *)
(* released carries it through the release loop; Phases says what else the  *)
(* loop has established when it ends.                                       *)

\* Outside the release loop and a crash in it, the maps are plain inverses.
MutuallyInverse(a2w, w2a) == \A a \in Arcs, w \in Wires : a \in w2a[w] <=> w \in a2w[a]

LEMMA RipUpAgrees ==
    ASSUME RouterTypes, NEW v \in Wires, RipUp(v),
           MutuallyInverse(arc_to_wires, wire_to_arcs)
    PROVE  MutuallyInverse(arc_to_wires', wire_to_arcs')
<1> SUFFICES ASSUME NEW a \in Arcs, NEW w \in Wires
             PROVE  a \in wire_to_arcs'[w] <=> w \in arc_to_wires'[a]
  BY DEF MutuallyInverse
<1>1. wire_to_arcs'[w] = IF w = v THEN {} ELSE wire_to_arcs[w]
  BY DEF RipUp, RouterTypes
<1>2. arc_to_wires'[a] = IF a \in wire_to_arcs[v] THEN arc_to_wires[a] \ {v}
                         ELSE arc_to_wires[a]
  BY DEF RipUp
<1> QED BY <1>1, <1>2 DEF MutuallyInverse

LEMMA RegisterAgrees ==
    ASSUME RouterTypes, NEW b \in Arcs, NEW v \in Wires, Register(b, v),
           MutuallyInverse(arc_to_wires, wire_to_arcs)
    PROVE  MutuallyInverse(arc_to_wires', wire_to_arcs')
<1> SUFFICES ASSUME NEW a \in Arcs, NEW w \in Wires
             PROVE  a \in wire_to_arcs'[w] <=> w \in arc_to_wires'[a]
  BY DEF MutuallyInverse
<1>1. wire_to_arcs'[w] = IF w = v THEN wire_to_arcs[w] \cup {b} ELSE wire_to_arcs[w]
  BY DEF Register, RouterTypes
<1>2. arc_to_wires'[a] = IF a = b THEN arc_to_wires[a] \cup {v} ELSE arc_to_wires[a]
  BY DEF Register, RouterTypes
<1> QED BY <1>1, <1>2 DEF MutuallyInverse

\* Reading MapsAgree as MutuallyInverse, and back.
LEMMA AgreeIsInverse ==
    ASSUME MapsAgree, pc \notin {"release", "crashed"} \/ work = {}
    PROVE  MutuallyInverse(arc_to_wires, wire_to_arcs)
BY DEF MapsAgree, MutuallyInverse

LEMMA InverseAgrees ==
    ASSUME MutuallyInverse(arc_to_wires', wire_to_arcs'),
           pc' \notin {"release", "crashed"} \/ work' = {} \/ arc' \notin Arcs
    PROVE  MapsAgree'
BY DEF MapsAgree, MutuallyInverse

\* What else the phases of the router guarantee: no arc is in hand during setup,
\* the arc being released owns no wires, and nothing is left to release when
\* its path is bound.
Phases ==
    /\ pc \in {"setup", "orphans"} => arc = NoArc
    /\ pc = "release" => arc_to_wires[arc] = {}
    /\ pc = "bind" => work = {}

LEMMA StepKeepsPhases == TypeOK /\ InHand /\ Phases /\ [Next]_vars => Phases'
<1> SUFFICES ASSUME TypeOK, InHand, Phases, [Next]_vars PROVE Phases'
  OBVIOUS
<1>1. CASE UNCHANGED vars
  BY <1>1 DEF vars, routerVars, Phases
<1>2. CASE (\E n \in Nets : SetupNet(n) \/ SetupRejects(n)) \/ UnbindOrphan \/ SetupNetDone
  BY <1>2 DEF SetupNet, SetupRejects, UnbindOrphan, SetupNetDone, routerVars, Phases
<1>3. CASE \E a \in Arcs : PopArc(a)
  BY <1>3 DEF PopArc, Phases, TypeOK
<1>4. CASE \E w \in Wires : ReleaseWire(w)
  BY <1>4 DEF ReleaseWire, Phases
<1>5. CASE RouteTrivialArc \/ FindPath \/ NoPath
  BY <1>5 DEF RouteTrivialArc, FindPath, NoPath, AfterArc, routerVars, Phases
<1>6. CASE RipupWire \/ RipupPip
  BY <1>6 DEF RipupWire, RipupPip, Phases
<1>7. CASE KeepHop \/ BindHop
  BY <1>7 DEF KeepHop, BindHop, NextHop, AfterArc, Phases
<1>8. CASE TimingPass \/ (\E w \in Wires : RipupLateSink(w))
  BY <1>8 DEF TimingPass, RipupLateSink, Phases
<1>9. CASE TimingPassDone \/ Finish \/ Returned
  BY <1>9 DEF TimingPassDone, Finish, Returned, vars, routerVars, Phases
<1> QED BY <1>1, <1>2, <1>3, <1>4, <1>5, <1>6, <1>7, <1>8, <1>9 DEF Next

LEMMA StepKeepsAgreement ==
    TypeOK /\ InHand /\ Phases /\ MapsAgree /\ [Next]_vars => MapsAgree'
<1> USE RoutingAssumption, RouterAssumption
<1> SUFFICES ASSUME TypeOK, InHand, Phases, MapsAgree, [Next]_vars
             PROVE  MapsAgree'
  OBVIOUS
<1>0. RouterTypes
  BY DEF TypeOK, RouterTypes
<1>1. CASE UNCHANGED <<pc, wire_to_arcs, arc_to_wires, work, arc>>
  BY <1>1 DEF MapsAgree
<1>2. CASE \E n \in Nets : SetupNet(n)
  <2>1. PICK n \in Nets : SetupNet(n)
    BY <1>2
  <2>2. MutuallyInverse(arc_to_wires, wire_to_arcs)
    BY <2>1, AgreeIsInverse DEF SetupNet
  <2>3. MutuallyInverse(arc_to_wires', wire_to_arcs')
    BY <2>1, <2>2 DEF SetupNet, MutuallyInverse
  <2>4. arc' \notin Arcs
    BY <2>1 DEF SetupNet, Phases
  <2> QED BY <2>3, <2>4, InverseAgrees
<1>3. CASE UNCHANGED <<wire_to_arcs, arc_to_wires>>
           /\ (pc \notin {"release", "crashed"} \/ work = {})
           /\ (pc' \notin {"release", "crashed"} \/ work' = {})
  <2>1. MutuallyInverse(arc_to_wires', wire_to_arcs')
    BY <1>3, AgreeIsInverse
  <2> QED BY <1>3, <2>1, InverseAgrees
<1>4. CASE \E n \in Nets : SetupRejects(n)
  BY <1>3, <1>4 DEF SetupRejects, routerVars
<1>5. CASE UnbindOrphan \/ SetupNetDone
  BY <1>3, <1>5 DEF UnbindOrphan, SetupNetDone, routerVars
<1>6. CASE \E a \in Arcs : PopArc(a)
  <2>1. PICK b \in Arcs : PopArc(b)
    BY <1>6
  <2>2. MutuallyInverse(arc_to_wires, wire_to_arcs)
    BY <2>1, AgreeIsInverse DEF PopArc
  <2> SUFFICES ASSUME NEW a \in Arcs, NEW w \in Wires
               PROVE  a \in wire_to_arcs'[w] <=>
                         \/ w \in arc_to_wires'[a]
                         \/ pc' \in {"release", "crashed"} /\ a = arc' /\ w \in work'
    BY DEF MapsAgree
  <2>3. arc_to_wires'[a] = IF a = b THEN {} ELSE arc_to_wires[a]
    BY <1>0, <2>1 DEF PopArc, RouterTypes
  <2>4. pc' = "release" /\ arc' = b /\ work' = arc_to_wires[b]
        /\ wire_to_arcs' = wire_to_arcs
    BY <2>1 DEF PopArc
  <2> QED BY <2>2, <2>3, <2>4 DEF MutuallyInverse
<1>7. CASE \E v \in Wires : ReleaseWire(v)
  <2>1. PICK v \in Wires : ReleaseWire(v)
    BY <1>7
  <2> SUFFICES ASSUME NEW a \in Arcs, NEW w \in Wires
               PROVE  a \in wire_to_arcs'[w] <=>
                         \/ w \in arc_to_wires'[a]
                         \/ pc' \in {"release", "crashed"} /\ a = arc' /\ w \in work'
    BY DEF MapsAgree
  <2>2. wire_to_arcs'[w] = IF w = v THEN wire_to_arcs[w] \ {arc} ELSE wire_to_arcs[w]
    BY <1>0, <2>1 DEF ReleaseWire, RouterTypes
  <2>3. pc = "release" /\ pc' \in {"release", "crashed"} /\ work' = work \ {v}
        /\ UNCHANGED <<arc, arc_to_wires>>
    BY <2>1 DEF ReleaseWire
  <2>4. a \in wire_to_arcs[w] <=> w \in arc_to_wires[a] \/ (a = arc /\ w \in work)
    BY <2>3 DEF MapsAgree
  <2>5. CASE ~(a = arc /\ w = v)
    BY <2>2, <2>3, <2>4, <2>5
  <2>6. CASE a = arc /\ w = v
    <3>1. arc_to_wires[arc] = {}
      BY <2>3 DEF Phases
    <3> QED BY <2>2, <2>3, <2>6, <3>1
  <2> QED BY <2>5, <2>6
<1>8. CASE RouteTrivialArc
  <2>1. pc = "release" /\ work = {} /\ UNCHANGED <<arc, work>>
    BY <1>8 DEF RouteTrivialArc
  <2>2. MutuallyInverse(arc_to_wires, wire_to_arcs)
    BY <2>1, AgreeIsInverse
  <2>3. arc \in Arcs /\ ArcSink[arc] \in Wires
    BY <2>1 DEF InHand
  <2>4. \/ Register(arc, ArcSink[arc])
        \/ UNCHANGED <<wire_to_arcs, arc_to_wires>>
    BY <1>8 DEF RouteTrivialArc
  <2>5. MutuallyInverse(arc_to_wires', wire_to_arcs')
    <3>1. CASE Register(arc, ArcSink[arc])
      BY <1>0, <2>2, <2>3, <3>1, RegisterAgrees
    <3>2. CASE UNCHANGED <<wire_to_arcs, arc_to_wires>>
      BY <2>2, <3>2
    <3> QED BY <2>4, <3>1, <3>2
  <2> QED BY <2>1, <2>5, InverseAgrees
<1>9. CASE FindPath \/ NoPath
  BY <1>3, <1>9 DEF FindPath, NoPath, routerVars
<1>10. CASE pc \notin {"release", "crashed"} /\ UNCHANGED pc
            /\ \E w \in Wires : RipUp(w)
  <2>1. MutuallyInverse(arc_to_wires', wire_to_arcs')
    BY <1>0, <1>10, RipUpAgrees, AgreeIsInverse
  <2> QED BY <1>10, <2>1, InverseAgrees
<1>11. ASSUME pc = "bind"
       PROVE  work = {} /\ arc \in Arcs /\ Head(plan) \in Hop
  BY <1>0, <1>11 DEF InHand, RouterTypes, Phases
<1>12. CASE RipupWire
  <2>1. Head(plan).wire \in Wires
    BY <1>11, <1>12 DEF RipupWire, Hop
  <2> QED BY <1>10, <1>12, <2>1 DEF RipupWire
<1>13. CASE RipupPip
  <2> DEFINE c == getConflictingPipWire(Head(plan).pip)
  <2>1. Head(plan).pip \in Pips
    BY <1>11, <1>13 DEF RipupPip, Hop
  <2>2. c \in Wires \cup {NoWire}
    BY <2>1 DEF getConflictingPipWire, TypeOK, ArchTypeOK
  <2>3. \/ UNCHANGED <<queued_arcs, wire_to_arcs, arc_to_wires>>
        \/ c # NoWire /\ RipUp(c) /\ UNCHANGED pc
    BY <1>13 DEF RipupPip
  <2>4. pc = "bind" /\ UNCHANGED work
    BY <1>13 DEF RipupPip
  <2> HIDE DEF c
  <2> QED BY <1>3, <1>10, <1>11, <2>2, <2>3, <2>4
<1>14. CASE KeepHop \/ BindHop
  <2>1. pc = "bind" /\ Register(arc, Head(plan).wire)
    BY <1>14 DEF KeepHop, BindHop, NextHop
  <2>2. pc' \notin {"release", "crashed"}
    BY <1>14 DEF KeepHop, BindHop, NextHop, AfterArc
  <2>3. arc \in Arcs /\ Head(plan).wire \in Wires
    BY <1>11, <2>1 DEF Hop
  <2>4. MutuallyInverse(arc_to_wires', wire_to_arcs')
    BY <1>0, <2>1, <2>3, RegisterAgrees, AgreeIsInverse
  <2> QED BY <2>2, <2>4, InverseAgrees
<1>15. CASE TimingPass
  BY <1>3, <1>15 DEF TimingPass
<1>16. CASE \E w \in Wires : RipupLateSink(w)
  <2>1. PICK w \in Wires : RipupLateSink(w)
    BY <1>16
  <2>2. pc = "ripup" /\ UNCHANGED pc
    BY <2>1 DEF RipupLateSink
  <2>3. RipUp(w) \/ UNCHANGED <<queued_arcs, wire_to_arcs, arc_to_wires>>
    BY <2>1 DEF RipupLateSink
  <2> QED BY <1>3, <1>10, <2>2, <2>3
<1>17. CASE TimingPassDone \/ Finish
  BY <1>3, <1>17 DEF TimingPassDone, Finish, routerVars
<1>18. CASE Returned
  BY <1>1, <1>18 DEF Returned, vars, routerVars
<1>19. CASE UNCHANGED vars
  BY <1>1, <1>19 DEF vars, routerVars
<1> QED
  BY <1>2, <1>4, <1>5, <1>6, <1>7, <1>8, <1>9, <1>12, <1>13, <1>14, <1>15,
     <1>16, <1>17, <1>18, <1>19 DEF Next

\* The two maps of the router stay inverse to each other, for any number of
\* rip-ups and whatever path each search returns: the assertion in the release
\* loop never fails, and a rip-up finds every arc that uses the wire.
THEOREM RouterMapsAgree == Spec => []MapsAgree
<1>1. Init => MapsAgree /\ Phases
  BY DEF Init, MapsAgree, Phases
<1> QED BY <1>1, StepKeepsPhases, StepKeepsAgreement, RouterTypeCorrect, PTL DEF Spec

-----------------------------------------------------------------------------
(* What each step does, wire by wire.  The later invariants look at steps   *)
(* in this form only.                                                       *)

FreesWire(w) ==
    \A m \in Nets, v \in Wires : wires'[m][v] = IF v = w THEN Unbound ELSE wires[m][v]

TakesWire(n, w, p) ==
    /\ \A m \in Nets : wires[m][w] = Unbound
    /\ \A m \in Nets, v \in Wires :
          wires'[m][v] = IF m = n /\ v = w THEN [pip |-> p, strength |-> STRENGTH_WEAK]
                         ELSE wires[m][v]

\* setup() releases a wire no arc uses.
OrphanStep(w) ==
    /\ pc = "orphans" /\ pc' = pc /\ work' = work \ {w}
    /\ FreesWire(w)
    /\ UNCHANGED <<queued_arcs, wire_to_arcs, arc_to_wires, setup_nets, arc, plan, arcs>>

\* A wire of the arc in hand is released if no other arc uses it.
ReleaseStep(w) ==
    /\ pc = "release" /\ arc \in Arcs /\ work' = work \ {w}
    /\ \A v \in Wires : wire_to_arcs'[v] = IF v = w THEN wire_to_arcs[v] \ {arc}
                                           ELSE wire_to_arcs[v]
    /\ UNCHANGED <<queued_arcs, arc_to_wires, setup_nets, arc, plan, arcs>>
    /\ \/ wire_to_arcs[w] # {arc} /\ UNCHANGED wires /\ pc' = pc
       \/ wire_to_arcs[w] = {arc} /\ FreesWire(w) /\ pc' = pc
       \/ wire_to_arcs[w] = {arc} /\ wire_to_net[w] = NoNet
          /\ UNCHANGED wires /\ pc' = "crashed"

\* A wire is taken from the arcs that use it.
RipStep(w) ==
    /\ pc \in {"bind", "ripup"} /\ pc' = pc /\ work' \subseteq work
    /\ FreesWire(w)
    /\ queued_arcs' = queued_arcs \cup wire_to_arcs[w]
    /\ \A v \in Wires : wire_to_arcs'[v] = IF v = w THEN {} ELSE wire_to_arcs[v]
    /\ \A a \in Arcs : arc_to_wires'[a] = arc_to_wires[a] \ {w}
    /\ UNCHANGED <<setup_nets, arc, plan, arcs>>
    /\ pc = "bind" => \/ w = Head(plan).wire
                      \/ /\ Head(plan).pip \in Pips
                         /\ w = getConflictingPipWire(Head(plan).pip)
    /\ pc = "ripup" => w \in work

\* The wire is registered with the arc, in both maps.
Registered(b, w) ==
    /\ \A v \in Wires : wire_to_arcs'[v] = IF v = w THEN wire_to_arcs[v] \cup {b}
                                           ELSE wire_to_arcs[v]
    /\ \A a \in Arcs : arc_to_wires'[a] = IF a = b THEN arc_to_wires[a] \cup {w}
                                          ELSE arc_to_wires[a]

\* The arc in hand gets a wire, newly bound or its net's already: a hop of its
\* plan, or the sink of an arc that needs no path.
TakeStep(h) ==
    /\ pc \in {"release", "bind"} /\ pc' \in {"idle", "timing", "bind"}
    /\ arc \in Arcs /\ work = {} /\ work' = {}
    /\ Registered(arc, h.wire)
    /\ UNCHANGED <<queued_arcs, setup_nets, arc, arcs>>
    /\ \/ UNCHANGED wires /\ wires[ArcNet[arc]][h.wire] # Unbound
          /\ (h.pip = NoPip \/ wires[ArcNet[arc]][h.wire].pip = h.pip)
       \/ TakesWire(ArcNet[arc], h.wire, h.pip)
    /\ pc = "release" => /\ h.wire = ArcSink[arc] /\ h.pip = NoPip
                         /\ RouteRoot(ArcNet[arc], h.wire) /\ pc' # "bind"
    /\ pc = "bind" => /\ h = Head(plan) /\ plan' = Tail(plan)
                      /\ (pc' = "bind" <=> Len(plan) # 1)
    /\ pc' = "timing" => queued_arcs = {}

\* The other steps leave wires and books alone.
QuietStep ==
    /\ UNCHANGED <<wires, queued_arcs, wire_to_arcs, arc_to_wires, setup_nets, arc, plan, arcs>>
    /\ \/ UNCHANGED <<pc, work>>
       \/ pc = "setup" /\ pc' = "rejected" /\ UNCHANGED work
       \/ pc = "orphans" /\ work = {} /\ work' = {}
          /\ (pc' = "setup" \/ (pc' = "idle" /\ setup_nets = {}))
       \/ pc = "release" /\ work = {} /\ work' = {} /\ pc' \in {"failed", "crashed"}
       \/ pc = "bind" /\ pc' = "crashed" /\ UNCHANGED work
       \/ TimingPass
       \/ pc = "ripup" /\ pc' = pc /\ work' \subseteq work
       \/ pc = "ripup" /\ work = {} /\ work' = {} /\ pc' = "idle"
       \/ pc = "idle" /\ pc' = "done" /\ queued_arcs = {} /\ UNCHANGED work

\* The hops of a plan.
HopsOf(s) == {s[i] : i \in 1..Len(s)}

\* A hop through a pip binds the wire that the pip drives.
PlanDrives ==
    pc = "bind" => \A h \in HopsOf(plan) : h.pip # NoPip => PipDst[h.pip] = h.wire

\* Everything proved so far.
Basic == TypeOK /\ InHand /\ Phases /\ MapsAgree /\ Consistent /\ PlanDrives

LEMMA PlanSplits ==
    ASSUME NEW S, NEW s \in Seq(S), s # <<>>
    PROVE  /\ Head(s) \in S /\ HopsOf(s) \subseteq S
           /\ HopsOf(s) = {Head(s)} \cup HopsOf(Tail(s))
           /\ Len(s) = 1 => HopsOf(s) = {Head(s)}
<1>1. Len(s) \in Nat /\ Len(s) >= 1 /\ Head(s) = s[1] /\ \A i \in 1..Len(s) : s[i] \in S
  OBVIOUS
<1>2. Tail(s) \in Seq(S) /\ Len(Tail(s)) = Len(s) - 1
  BY HeadTailProperties
<1>3. \A i \in 1..Len(Tail(s)) : Tail(s)[i] = s[i + 1]
  BY <1>1, <1>2
<1>4. \A i \in 1..Len(s) : i = 1 \/ (i - 1 \in 1..Len(Tail(s)) /\ s[i] = Tail(s)[i - 1])
  BY <1>1, <1>2, <1>3
<1>5. \A i \in 1..Len(Tail(s)) : i + 1 \in 1..Len(s)
  BY <1>1, <1>2
<1>6. HopsOf(s) \subseteq {Head(s)} \cup HopsOf(Tail(s))
  BY <1>1, <1>4 DEF HopsOf
<1>7. HopsOf(Tail(s)) \subseteq HopsOf(s) /\ Head(s) \in HopsOf(s)
  BY <1>1, <1>3, <1>5 DEF HopsOf
<1>8. Len(s) = 1 => HopsOf(Tail(s)) = {}
  BY <1>2 DEF HopsOf
<1> QED BY <1>1, <1>6, <1>7, <1>8 DEF HopsOf

\* The hops of the path a search returns: its pips, and its first wire.
LEMMA HopsOfPath ==
    ASSUME NEW path \in Seq(Pips) \ {<<>>}
    PROVE  /\ HopsOf(SinkToSource(path)) =
                 {[wire |-> PipDst[path[i]], pip |-> path[i]] : i \in 1..Len(path)}
                    \cup {[wire |-> PipSrc[path[Len(path)]], pip |-> NoPip]}
           /\ HopsOf(SourceToSink(path)) = HopsOf(SinkToSource(path))
<1> DEFINE k == Len(path)
           f == SinkToSource(path)
           g == SourceToSink(path)
           last == [wire |-> PipSrc[path[k]], pip |-> NoPip]
           hop(i) == [wire |-> PipDst[path[i]], pip |-> path[i]]
<1>1. k \in Nat /\ k >= 1
  OBVIOUS
<1>2. /\ Len(f) = k + 1
      /\ \A i \in 1..k : f[i] = hop(i)
      /\ f[k + 1] = last
  BY <1>1 DEF SinkToSource
<1>3. Len(g) = k + 1 /\ \A i \in 1..(k + 1) : g[i] = f[k + 2 - i]
  BY <1>1 DEF SourceToSink
<1> HIDE DEF f, g, k, last, hop
<1>4. HopsOf(f) = {hop(i) : i \in 1..k} \cup {last}
  <2>1. \A i \in 1..(k + 1) : i \in 1..k \/ i = k + 1
    BY <1>1
  <2>2. 1..k \subseteq 1..(k + 1) /\ k + 1 \in 1..(k + 1)
    BY <1>1
  <2> QED BY <1>2, <2>1, <2>2 DEF HopsOf
<1>5. HopsOf(g) = HopsOf(f)
  <2>1. \A i \in 1..(k + 1) : k + 2 - i \in 1..(k + 1) /\ k + 2 - (k + 2 - i) = i
    BY <1>1
  <2>2. \A i \in 1..(k + 1) : g[k + 2 - i] = f[i]
    BY <1>3, <2>1
  <2> QED BY <1>2, <1>3, <2>1, <2>2 DEF HopsOf
<1> QED BY <1>4, <1>5 DEF f, g, k, last, hop

\* The plan a search makes.
LEMMA PlanMade ==
    ASSUME TypeOK, InHand, FindPath
    PROVE  \E path \in PathsFor(arc) :
              /\ LeadsTo(path, ArcSink[arc])
              /\ HopsOf(plan') =
                    {[wire |-> PipDst[path[i]], pip |-> path[i]] : i \in 1..Len(path)}
                       \cup {[wire |-> PipSrc[path[Len(path)]], pip |-> NoPip]}
<1>1. arc \in Arcs
  BY DEF FindPath, InHand
<1>2. PICK path \in PathsFor(arc) : plan' = SourceToSink(path) \/ plan' = SinkToSource(path)
  BY DEF FindPath
<1>3. LeadsTo(path, ArcSink[arc]) /\ path \in Seq(Pips) \ {<<>>}
  BY <1>1, PathFound DEF LeadsTo
<1> QED BY <1>2, <1>3, HopsOfPath

LEMMA UnbindFrees ==
    ASSUME ArchTypeOK, Consistent, NEW w \in Wires, unbindWire(w)
    PROVE  FreesWire(w)
<1> SUFFICES ASSUME NEW m \in Nets, NEW v \in Wires
             PROVE  wires'[m][v] = IF v = w THEN Unbound ELSE wires[m][v]
  BY DEF FreesWire
<1> DEFINE n == wire_to_net[w]
<1>1. n \in Nets /\ wires' = [wires EXCEPT ![n][w] = Unbound]
  BY DEF ArchTypeOK, unbindWire
<1>2. wires'[m][v] = IF m = n /\ v = w THEN Unbound ELSE wires[m][v]
  BY <1>1 DEF ArchTypeOK
<1>3. m # n => wires[m][w] = Unbound
  BY DEF Consistent, RecordedIsBound
<1> QED BY <1>2, <1>3

LEMMA FreeIsUnbound ==
    ASSUME ArchTypeOK, Consistent, NEW w \in Wires, checkWireAvail(w), NEW m \in Nets
    PROVE  wires[m][w] = Unbound
BY RoutingAssumption DEF ArchTypeOK, Consistent, RecordedIsBound, checkWireAvail

LEMMA BindWireTakes ==
    ASSUME ArchTypeOK, Consistent, NEW w \in Wires, NEW n \in Nets,
           bindWire(w, n, STRENGTH_WEAK)
    PROVE  TakesWire(n, w, NoPip)
BY FreeIsUnbound DEF ArchTypeOK, bindWire, TakesWire

LEMMA BindPipTakes ==
    ASSUME ArchTypeOK, Consistent, NEW p \in Pips, NEW n \in Nets,
           bindPip(p, n, STRENGTH_WEAK)
    PROVE  TakesWire(n, PipDst[p], p)
<1>1. PipDst[p] \in Wires
  BY RoutingAssumption
<1>2. \A m \in Nets : wires[m][PipDst[p]] = Unbound
  BY <1>1, FreeIsUnbound DEF bindPip
<1> QED BY <1>1, <1>2 DEF ArchTypeOK, bindPip, TakesWire

LEMMA RipUpRips ==
    ASSUME Basic, NEW w \in Wires, RipUp(w), pc \in {"bind", "ripup"}
    PROVE  /\ FreesWire(w)
           /\ queued_arcs' = queued_arcs \cup wire_to_arcs[w]
           /\ \A v \in Wires : wire_to_arcs'[v] = IF v = w THEN {} ELSE wire_to_arcs[v]
           /\ \A a \in Arcs : arc_to_wires'[a] = arc_to_wires[a] \ {w}
<1>1. FreesWire(w)
  BY UnbindFrees DEF Basic, TypeOK, RipUp
<1>2. MutuallyInverse(arc_to_wires, wire_to_arcs)
  BY AgreeIsInverse DEF Basic
<1>3. \A a \in Arcs : arc_to_wires'[a] = arc_to_wires[a] \ {w}
  BY <1>2 DEF MutuallyInverse, RipUp
<1> QED BY <1>1, <1>3 DEF Basic, TypeOK, RipUp

\* How a wire is registered, pointwise.
LEMMA RegisterPointwise ==
    ASSUME RouterTypes, NEW b \in Arcs, NEW w \in Wires, Register(b, w)
    PROVE  Registered(b, w)
BY DEF RouterTypes, Register, Registered

LEMMA ReleaseSteps == ASSUME Basic, NEW w \in Wires, ReleaseWire(w) PROVE w \in work /\ ReleaseStep(w)
<1>1. arc \in Arcs
  BY DEF ReleaseWire, Basic, InHand
<1>2. unbindWire(w) => FreesWire(w)
  BY UnbindFrees DEF Basic, TypeOK
<1>3. \A v \in Wires : wire_to_arcs'[v] = IF v = w THEN wire_to_arcs[v] \ {arc}
                                         ELSE wire_to_arcs[v]
  BY DEF ReleaseWire, Basic, TypeOK
<1>4. \/ wire_to_arcs[w] # {arc} /\ UNCHANGED wires /\ pc' = pc
      \/ wire_to_arcs[w] = {arc} /\ FreesWire(w) /\ pc' = pc
      \/ /\ wire_to_arcs[w] = {arc} /\ wire_to_net[w] = NoNet
         /\ UNCHANGED wires /\ pc' = "crashed"
  BY <1>2 DEF ReleaseWire, checkWireAvail, archVars
<1> QED BY <1>1, <1>3, <1>4 DEF ReleaseWire, ReleaseStep

LEMMA TrivialSteps ==
    ASSUME Basic, RouteTrivialArc
    PROVE  QuietStep \/ \E h \in Hop : TakeStep(h)
<1> USE RoutingAssumption, RouterAssumption
<1> DEFINE n == ArcNet[arc]
           d == ArcSink[arc]
           h == [wire |-> d, pip |-> NoPip]
<1>1. /\ arc \in Arcs /\ n \in Nets /\ d \in Wires /\ RouterTypes /\ ArchTypeOK
      /\ pc = "release" /\ work = {} /\ RouteRoot(n, d)
      /\ UNCHANGED <<queued_arcs, setup_nets, work, arc, plan, timing_fail_count, arcs>>
  BY DEF RouteTrivialArc, Basic, InHand, TypeOK, RouterTypes
<1>2. CASE wire_to_net[d] \in {n, NoNet}
  <2>1. Register(arc, d) /\ pc' = AfterArc
    BY <1>2 DEF RouteTrivialArc
  <2>2. \/ UNCHANGED wires /\ wires[n][d] # Unbound
        \/ TakesWire(n, d, NoPip)
    <3>1. CASE wire_to_net[d] = NoNet
      BY <1>1, <3>1, BindWireTakes DEF RouteTrivialArc, Basic
    <3>2. CASE wire_to_net[d] # NoNet
      <4>1. UNCHANGED archVars
        BY <3>2 DEF RouteTrivialArc
      <4>2. wires[n][d] # Unbound
        BY <1>1, <1>2, <3>2 DEF Basic, Consistent, BoundIsRecorded
      <4> QED BY <4>1, <4>2 DEF archVars
    <3> QED BY <3>1, <3>2
  <2>3. h \in Hop /\ h.wire = d /\ h.pip = NoPip
    BY <1>1 DEF Hop
  <2>4. pc' \in {"idle", "timing"} /\ (pc' = "timing" => queued_arcs = {})
    BY <2>1 DEF AfterArc
  <2> HIDE DEF n, d, h
  <2>5. Registered(arc, d)
    BY <1>1, <2>1, RegisterPointwise
  <2>6. TakeStep(h)
    BY <1>1, <2>2, <2>3, <2>4, <2>5 DEF TakeStep, n, d
  <2> QED BY <2>3, <2>6
<1>3. CASE wire_to_net[d] \notin {n, NoNet}
  <2>1. UNCHANGED <<wires, wire_to_arcs, arc_to_wires>> /\ pc' = "crashed"
    BY <1>3 DEF RouteTrivialArc, archVars
  <2> QED BY <1>1, <2>1 DEF QuietStep
<1> QED BY <1>2, <1>3

LEMMA HopSteps ==
    ASSUME Basic, KeepHop \/ BindHop
    PROVE  \E h \in Hop : TakeStep(h)
<1> USE RoutingAssumption, RouterAssumption
<1> DEFINE n == ArcNet[arc]
           h == Head(plan)
<1>1. /\ arc \in Arcs /\ n \in Nets /\ RouterTypes /\ ArchTypeOK /\ pc = "bind" /\ work = {}
      /\ plan \in Seq(Hop) /\ plan # <<>> /\ NextHop
  BY DEF KeepHop, BindHop, Basic, InHand, TypeOK, RouterTypes, Phases
<1>2. h \in Hop /\ h.wire \in Wires /\ h \in HopsOf(plan)
  <2>1. h \in Hop /\ h \in HopsOf(plan)
    BY <1>1, PlanSplits
  <2> QED BY <2>1 DEF Hop
<1>3. \/ /\ UNCHANGED wires /\ wires[n][h.wire] # Unbound
         /\ h.pip = NoPip \/ wires[n][h.wire].pip = h.pip
      \/ TakesWire(n, h.wire, h.pip)
  <2>1. CASE KeepHop
    BY <2>1 DEF KeepHop, MustBind, archVars
  <2>2. CASE BindHop
    <3>1. CASE h.pip = NoPip
      BY <1>1, <1>2, <2>2, <3>1, BindWireTakes DEF BindHop, Basic
    <3>2. CASE h.pip # NoPip
      <4>1. h.pip \in Pips /\ bindPip(h.pip, n, STRENGTH_WEAK)
        BY <1>2, <2>2, <3>2 DEF BindHop, Hop
      <4>2. PipDst[h.pip] = h.wire
        BY <1>1, <1>2, <3>2 DEF Basic, PlanDrives
      <4> QED BY <1>1, <4>1, <4>2, BindPipTakes DEF Basic
    <3> QED BY <3>1, <3>2
  <2> QED BY <2>1, <2>2
<1>4. Registered(arc, h.wire)
  <2>1. Register(arc, h.wire)
    BY <1>1 DEF NextHop
  <2> HIDE DEF h
  <2> QED BY <1>1, <1>2, <2>1, RegisterPointwise
<1>5. /\ pc' \in {"idle", "timing", "bind"} /\ work' = {}
      /\ UNCHANGED <<queued_arcs, setup_nets, arc, arcs>>
      /\ plan' = Tail(plan) /\ (pc' = "bind" <=> Len(plan) # 1)
      /\ pc' = "timing" => queued_arcs = {}
  BY <1>1 DEF NextHop, AfterArc
<1>6. TakeStep(h)
  BY <1>1, <1>3, <1>4, <1>5 DEF TakeStep
<1> QED BY <1>2, <1>6

LEMMA RipSteps ==
    ASSUME Basic, RipupWire \/ RipupPip \/ \E w \in Wires : RipupLateSink(w)
    PROVE  QuietStep \/ \E w \in Wires : RipStep(w)
<1> USE RoutingAssumption, RouterAssumption
<1> DEFINE h == Head(plan)
<1>1. ASSUME pc = "bind" PROVE h \in Hop
  <2>1. plan \in Seq(Hop) /\ plan # <<>>
    BY <1>1 DEF Basic, TypeOK, InHand
  <2> QED BY <2>1, PlanSplits
<1>2. CASE RipupWire
  <2>1. h.wire \in Wires /\ pc = "bind" /\ RipUp(h.wire)
    BY <1>1, <1>2 DEF RipupWire, Hop
  <2>2. RipStep(h.wire)
    BY <1>2, <2>1, RipUpRips DEF RipStep, RipupWire
  <2> QED BY <2>1, <2>2
<1>3. CASE RipupPip
  <2> DEFINE c == getConflictingPipWire(h.pip)
  <2>1. pc = "bind" /\ h.pip \in Pips
    BY <1>1, <1>3 DEF RipupPip, Hop
  <2>2. c \in Wires \cup {NoWire}
    BY <2>1 DEF getConflictingPipWire, Basic, TypeOK, ArchTypeOK
  <2>3. UNCHANGED <<setup_nets, work, arc, plan, timing_fail_count, arcs>>
    BY <1>3 DEF RipupPip
  <2>4. CASE c = NoWire
    BY <1>3, <2>1, <2>3, <2>4 DEF RipupPip, QuietStep, archVars
  <2>5. CASE c # NoWire
    <3>1. c \in Wires /\ RipUp(c) /\ UNCHANGED pc
      BY <1>3, <2>2, <2>5 DEF RipupPip
    <3> HIDE DEF c
    <3>2. /\ FreesWire(c)
          /\ queued_arcs' = queued_arcs \cup wire_to_arcs[c]
          /\ \A v \in Wires : wire_to_arcs'[v] = IF v = c THEN {} ELSE wire_to_arcs[v]
          /\ \A a \in Arcs : arc_to_wires'[a] = arc_to_wires[a] \ {c}
      BY <2>1, <3>1, RipUpRips
    <3>3. RipStep(c)
      BY <2>1, <2>3, <3>1, <3>2 DEF RipStep, c
    <3> QED BY <3>1, <3>3
  <2> QED BY <2>4, <2>5
<1>4. CASE \E w \in Wires : RipupLateSink(w)
  <2>1. PICK w \in Wires : RipupLateSink(w)
    BY <1>4
  <2>2. pc = "ripup" /\ w \in work /\ work' = work \ {w}
        /\ UNCHANGED <<pc, setup_nets, arc, plan, timing_fail_count, arcs>>
    BY <2>1 DEF RipupLateSink
  <2>3. CASE RipUp(w)
    BY <2>2, <2>3, RipUpRips DEF RipStep
  <2>4. CASE UNCHANGED <<archVars, queued_arcs, wire_to_arcs, arc_to_wires>>
    BY <2>2, <2>4 DEF QuietStep, archVars
  <2> QED BY <2>1, <2>3, <2>4 DEF RipupLateSink
<1> QED BY <1>2, <1>3, <1>4

\* Every step is of one of these kinds.
LEMMA Steps ==
    ASSUME Basic, [Next]_vars
    PROVE  \/ \E n \in Nets : SetupNet(n)
           \/ \E w \in work : OrphanStep(w)
           \/ \E a \in Arcs : PopArc(a)
           \/ \E w \in work : ReleaseStep(w)
           \/ \E w \in Wires : RipStep(w)
           \/ \E h \in Hop : TakeStep(h)
           \/ FindPath
           \/ QuietStep
<1>1. CASE UnbindOrphan
  <2>1. PICK w \in work : unbindWire(w) /\ work' = work \ {w}
    BY <1>1 DEF UnbindOrphan
  <2>2. FreesWire(w)
    BY <2>1, UnbindFrees DEF Basic, TypeOK
  <2> QED BY <1>1, <2>1, <2>2 DEF UnbindOrphan, OrphanStep
<1>2. CASE \E w \in Wires : ReleaseWire(w)
  BY <1>2, ReleaseSteps
<1>3. CASE RouteTrivialArc
  BY <1>3, TrivialSteps
<1>4. CASE KeepHop \/ BindHop
  BY <1>4, HopSteps
<1>5. CASE RipupWire \/ RipupPip \/ \E w \in Wires : RipupLateSink(w)
  BY <1>5, RipSteps
<1>6. CASE UNCHANGED vars \/ Returned
  BY <1>6 DEF Returned, vars, routerVars, archVars, QuietStep
<1>7. CASE \E n \in Nets : SetupRejects(n)
  BY <1>7 DEF SetupRejects, routerVars, archVars, QuietStep
<1>8. CASE SetupNetDone
  BY <1>8 DEF SetupNetDone, routerVars, archVars, QuietStep
<1>9. CASE NoPath
  BY <1>9 DEF NoPath, routerVars, archVars, QuietStep
<1>10. CASE TimingPass
  BY <1>10 DEF TimingPass, archVars, QuietStep
<1>11. CASE TimingPassDone
  BY <1>11 DEF TimingPassDone, routerVars, archVars, QuietStep
<1>12. CASE Finish
  BY <1>12 DEF Finish, routerVars, archVars, QuietStep
<1> QED
  BY <1>1, <1>2, <1>3, <1>4, <1>5, <1>6, <1>7, <1>8, <1>9, <1>10, <1>11, <1>12
  DEF Next

-----------------------------------------------------------------------------

LEMMA StepKeepsPlanDrives == Basic /\ [Next]_vars => PlanDrives'
<1> USE RoutingAssumption, RouterAssumption
<1> SUFFICES ASSUME Basic, [Next]_vars, pc' = "bind", NEW h \in HopsOf(plan'), h.pip # NoPip
             PROVE  PipDst[h.pip] = h.wire
  BY DEF PlanDrives
<1>1. CASE FindPath
  <2>1. PICK path \in PathsFor(arc) :
           HopsOf(plan') =
              {[wire |-> PipDst[path[i]], pip |-> path[i]] : i \in 1..Len(path)}
                 \cup {[wire |-> PipSrc[path[Len(path)]], pip |-> NoPip]}
    BY <1>1, PlanMade DEF Basic
  <2> QED BY <2>1
<1>2. CASE pc = "bind" /\ plan' = plan
  BY <1>2 DEF Basic, PlanDrives
<1>3. CASE \E k \in Hop : TakeStep(k)
  <2>1. pc = "bind" /\ plan' = Tail(plan)
    BY <1>3 DEF TakeStep
  <2>2. plan \in Seq(Hop) /\ plan # <<>>
    BY <2>1 DEF Basic, TypeOK, InHand
  <2>3. HopsOf(plan') \subseteq HopsOf(plan)
    BY <2>1, <2>2, PlanSplits
  <2> QED BY <2>1, <2>3 DEF Basic, PlanDrives
<1>4. CASE QuietStep
  <2>1. pc = "bind" /\ plan' = plan
    BY <1>4 DEF QuietStep, TimingPass
  <2> QED BY <1>2, <2>1
<1>5. CASE \/ \E n \in Nets : SetupNet(n)
           \/ \E w \in work : OrphanStep(w)
           \/ \E a \in Arcs : PopArc(a)
           \/ \E w \in work : ReleaseStep(w)
           \/ \E w \in Wires : RipStep(w)
  <2>1. pc = "bind" /\ plan' = plan
    BY <1>5 DEF SetupNet, OrphanStep, PopArc, ReleaseStep, RipStep
  <2> QED BY <1>2, <2>1
<1> QED BY <1>1, <1>3, <1>4, <1>5, Steps

LEMMA StepKeepsBasic == Basic /\ [Next]_vars => Basic'
<1> SUFFICES ASSUME Basic, [Next]_vars PROVE Basic'
  OBVIOUS
<1>1. TypeOK' /\ InHand' /\ Consistent'
  BY StepTypes, StepKeepsConsistent DEF Basic
<1>2. Phases' /\ MapsAgree'
  BY StepKeepsPhases, StepKeepsAgreement DEF Basic
<1> QED BY <1>1, <1>2, StepKeepsPlanDrives DEF Basic

LEMMA InitBasic == Init => Basic
<1> SUFFICES ASSUME Init PROVE Basic
  OBVIOUS
<1>1. MapsAgree /\ Phases /\ PlanDrives
  BY DEF Init, MapsAgree, Phases, PlanDrives
<1> QED BY <1>1, InitIsConsistent DEF Basic

-----------------------------------------------------------------------------
(* Setup and the arcs it has handed over.                                   *)

\* The arcs of the nets that setup has been through.
Live == {a \in arcs : ArcNet[a] \in Visited}

\* Only such arcs are queued, in hand or registered, and all nets have been
\* visited when the main loop starts.
ArcsLive ==
    /\ setup_nets \cap Skipped = {}
    /\ queued_arcs \subseteq Live
    /\ arc \in Live \cup {NoArc}
    /\ \A a \in Arcs : arc_to_wires[a] # {} => a \in Live
    /\ pc \notin {"setup", "orphans", "rejected", "crashed"} => setup_nets = {}

\* What setup is about to release belongs to a visited net, is not locked, and no
\* arc uses it.
OrphansUnused ==
    pc = "orphans" =>
        \A w \in work :
            /\ wire_to_arcs[w] = {}
            /\ \E n \in Visited : /\ wires[n][w] # Unbound
                                   /\ wires[n][w].strength < STRENGTH_LOCKED

\* A net that setup has not visited has the routing it came with.
SetupUntouched ==
    \E d \in Designs : /\ arcs = d.arcs
                       /\ \A n \in setup_nets : wires[n] = d.routing[n]

Setup == ArcsLive /\ OrphansUnused /\ SetupUntouched

LEMMA InitSetup == Init => Setup
<1> USE RouterAssumption
<1> SUFFICES ASSUME Init PROVE Setup
  OBVIOUS
<1>1. ArcsLive /\ OrphansUnused
  BY DEF Init, ArcsLive, OrphansUnused
<1>2. SetupUntouched
  BY DEF Init, SetupUntouched
<1> QED BY <1>1, <1>2 DEF Setup

\* The arcs setup adopts from one net, and the books afterwards.
LEMMA SetupAdopts ==
    ASSUME Basic, Setup, NEW n \in Nets, SetupNet(n)
    PROVE  /\ n \in setup_nets /\ n \notin Visited /\ Visited' = Visited \cup {n}
           /\ \A a \in Arcs : ArcNet[a] = n => arc_to_wires[a] = {}
           /\ \A a \in Arcs : arc_to_wires'[a] =
                 IF a \in Found(n) THEN Walk(n, ArcSink[a]) ELSE arc_to_wires[a]
           /\ \A w \in Wires : wire_to_arcs'[w] =
                 wire_to_arcs[w] \cup {a \in Found(n) : w \in Walk(n, ArcSink[a])}
           /\ Found(n) \subseteq ArcsOf(n) /\ Broken(n) \subseteq Found(n)
           /\ ArcsOf(n) = {a \in arcs : ArcNet[a] = n} /\ ArcsOf(n) \subseteq Arcs
<1>1. n \in setup_nets /\ n \notin Skipped
  BY DEF SetupNet, Setup, ArcsLive
<1>2. n \notin Visited /\ Visited' = Visited \cup {n}
  BY <1>1 DEF Visited, SetupNet
<1>3. \A a \in Arcs : ArcNet[a] = n => arc_to_wires[a] = {}
  BY <1>2 DEF Setup, ArcsLive, Live
<1>4. /\ Found(n) \subseteq ArcsOf(n) /\ Broken(n) \subseteq Found(n)
      /\ ArcsOf(n) = {a \in arcs : ArcNet[a] = n} /\ ArcsOf(n) \subseteq Arcs
  BY DEF Found, Broken, ArcsOf, Basic, TypeOK
<1> DEFINE walk == [a \in Found(n) |-> Walk(n, ArcSink[a])]
<1>5. /\ arc_to_wires' = [a \in Arcs |-> IF a \in Found(n) THEN arc_to_wires[a] \cup walk[a]
                                        ELSE arc_to_wires[a]]
      /\ wire_to_arcs' = [w \in Wires |-> wire_to_arcs[w] \cup {a \in Found(n) : w \in walk[a]}]
  BY DEF SetupNet
<1>6. \A a \in Found(n) : walk[a] = Walk(n, ArcSink[a])
  OBVIOUS
<1> HIDE DEF walk
<1>7. \A a \in Arcs : arc_to_wires'[a] =
         IF a \in Found(n) THEN Walk(n, ArcSink[a]) ELSE arc_to_wires[a]
  BY <1>3, <1>4, <1>5, <1>6
<1>8. \A w \in Wires : wire_to_arcs'[w] =
         wire_to_arcs[w] \cup {a \in Found(n) : w \in Walk(n, ArcSink[a])}
  BY <1>5, <1>6
<1> QED BY <1>1, <1>2, <1>3, <1>4, <1>7, <1>8

LEMMA StepKeepsArcsLive == Basic /\ Setup /\ [Next]_vars => ArcsLive'
<1> USE RouterAssumption
<1> SUFFICES ASSUME Basic, Setup, [Next]_vars PROVE ArcsLive'
  OBVIOUS
<1>0. ArcsLive
  BY DEF Setup
<1>1. CASE \E n \in Nets : SetupNet(n)
  <2>1. PICK n \in Nets : SetupNet(n)
    BY <1>1
  <2>2. /\ setup_nets' = setup_nets \ {n} /\ UNCHANGED <<arc, arcs>>
        /\ queued_arcs' = queued_arcs \cup (ArcsOf(n) \ Found(n)) \cup Broken(n)
        /\ pc' \in {"crashed", "orphans"}
    BY <2>1 DEF SetupNet
  <2>3. Live' = Live \cup ArcsOf(n)
    BY <2>1, <2>2, SetupAdopts DEF Live
  <2> QED BY <1>0, <2>1, <2>2, <2>3, SetupAdopts DEF ArcsLive
<1>2. ASSUME UNCHANGED <<setup_nets, arcs>> PROVE UNCHANGED <<Live, Visited>>
  BY <1>2 DEF Live, Visited
<1>3. CASE \E w \in work : OrphanStep(w)
  BY <1>0, <1>2, <1>3 DEF OrphanStep, ArcsLive
<1>4. CASE \E a \in Arcs : PopArc(a)
  <2>1. PICK b \in Arcs : PopArc(b)
    BY <1>4
  <2>2. /\ b \in queued_arcs /\ arc' = b /\ queued_arcs' = queued_arcs \ {b}
        /\ UNCHANGED <<setup_nets, arcs>>
        /\ \A a \in Arcs : arc_to_wires'[a] = IF a = b THEN {} ELSE arc_to_wires[a]
        /\ pc = "idle"
    BY <2>1 DEF PopArc, Basic, TypeOK
  <2> QED BY <1>0, <1>2, <2>2 DEF ArcsLive
<1>5. CASE \E w \in work : ReleaseStep(w)
  BY <1>0, <1>2, <1>5 DEF ReleaseStep, ArcsLive
<1>6. CASE \E w \in Wires : RipStep(w)
  <2>1. PICK w \in Wires : RipStep(w)
    BY <1>6
  <2>2. \A a \in wire_to_arcs[w] : a \in Arcs /\ w \in arc_to_wires[a]
    <3>1. MutuallyInverse(arc_to_wires, wire_to_arcs)
      BY <2>1, AgreeIsInverse DEF RipStep, Basic
    <3>2. wire_to_arcs[w] \subseteq Arcs
      BY DEF Basic, TypeOK
    <3> QED BY <3>1, <3>2 DEF MutuallyInverse
  <2> QED BY <1>0, <1>2, <2>1, <2>2 DEF RipStep, ArcsLive
<1>7. CASE \E h \in Hop : TakeStep(h)
  <2>1. PICK h \in Hop : TakeStep(h)
    BY <1>7
  <2> QED BY <1>0, <1>2, <2>1 DEF TakeStep, Registered, ArcsLive
<1>8. CASE FindPath
  BY <1>0, <1>2, <1>8 DEF FindPath, ArcsLive
<1>9. CASE QuietStep
  BY <1>0, <1>2, <1>9 DEF QuietStep, TimingPass, ArcsLive
<1> QED BY <1>1, <1>3, <1>4, <1>5, <1>6, <1>7, <1>8, <1>9, Steps

LEMMA StepKeepsOrphansUnused == Basic /\ Setup /\ [Next]_vars => OrphansUnused'
<1> USE RouterAssumption
<1> SUFFICES ASSUME Basic, Setup, [Next]_vars, pc' = "orphans", NEW v \in work'
             PROVE  /\ wire_to_arcs'[v] = {}
                    /\ \E n \in Visited' : /\ wires'[n][v] # Unbound
                                            /\ wires'[n][v].strength < STRENGTH_LOCKED
  BY DEF OrphansUnused
<1>1. CASE \E n \in Nets : SetupNet(n)
  <2>1. PICK n \in Nets : SetupNet(n)
    BY <1>1
  <2>2. v \in Orphans(n, wire_to_arcs') /\ UNCHANGED wires
    BY <2>1 DEF SetupNet, archVars
  <2>3. n \in Visited'
    BY <2>1, SetupAdopts
  <2> QED BY <2>2, <2>3 DEF Orphans
<1>2. CASE \E w \in work : OrphanStep(w)
  <2>1. PICK w \in work : OrphanStep(w)
    BY <1>2
  <2>2. v \in work /\ v # w /\ pc = "orphans" /\ UNCHANGED <<wire_to_arcs, Visited>>
    BY <2>1 DEF OrphanStep, Visited
  <2>3. v \in Wires /\ Visited \subseteq Nets
    BY <2>2 DEF Basic, TypeOK, Visited
  <2>4. \A n \in Nets : wires'[n][v] = wires[n][v]
    BY <2>1, <2>2, <2>3 DEF OrphanStep, FreesWire
  <2> QED BY <2>2, <2>3, <2>4 DEF Setup, OrphansUnused
<1>3. CASE QuietStep
  <2>1. UNCHANGED <<pc, work, wires, wire_to_arcs, setup_nets>>
    BY <1>3 DEF QuietStep, TimingPass
  <2> QED BY <2>1 DEF Setup, OrphansUnused, Visited
<1>4. CASE \/ \E a \in Arcs : PopArc(a)
           \/ \E w \in work : ReleaseStep(w)
           \/ \E w \in Wires : RipStep(w)
           \/ \E h \in Hop : TakeStep(h)
           \/ FindPath
  BY <1>4 DEF PopArc, ReleaseStep, RipStep, TakeStep, FindPath
<1> QED BY <1>1, <1>2, <1>3, <1>4, Steps

LEMMA StepKeepsSetupUntouched == Basic /\ Setup /\ [Next]_vars => SetupUntouched'
<1> USE RouterAssumption
<1> SUFFICES ASSUME Basic, Setup, [Next]_vars PROVE SetupUntouched'
  OBVIOUS
<1>1. PICK d \in Designs : arcs = d.arcs /\ \A n \in setup_nets : wires[n] = d.routing[n]
  BY DEF Setup, SetupUntouched
<1>2. ASSUME arcs' = arcs, setup_nets' \subseteq setup_nets,
             \A n \in setup_nets' : wires'[n] = wires[n]
      PROVE  SetupUntouched'
  BY <1>1, <1>2 DEF SetupUntouched
<1>3. CASE \E n \in Nets : SetupNet(n)
  BY <1>2, <1>3 DEF SetupNet, archVars
<1>4. CASE \E w \in work : OrphanStep(w)
  <2>1. PICK w \in work : OrphanStep(w)
    BY <1>4
  <2>2. w \in Wires /\ pc = "orphans"
    BY <2>1 DEF OrphanStep, Basic, TypeOK
  <2>3. PICK m \in Visited : wires[m][w] # Unbound
    BY <2>1, <2>2 DEF Setup, OrphansUnused
  <2>4. ASSUME NEW n \in setup_nets PROVE wires'[n] = wires[n]
    <3>1. n \in Nets /\ m \in Nets /\ n # m
      BY <2>3, <2>4 DEF Visited, Basic, TypeOK
    <3>2. wires[n][w] = Unbound
      <4>1. RecordedIsBound
        BY DEF Basic, Consistent
      <4>2. wires[m][w] # Unbound
        BY <2>3
      <4>3. wire_to_net[w] = m
        BY <2>2, <3>1, <4>1, <4>2 DEF RecordedIsBound
      <4> QED BY <2>2, <3>1, <4>1, <4>3 DEF RecordedIsBound
    <3>3. \A v \in Wires : wires'[n][v] = wires[n][v]
      BY <2>1, <2>2, <3>1, <3>2 DEF OrphanStep, FreesWire
    <3>4. wires[n] \in [Wires -> PipMap \cup {Unbound}] /\ wires'[n] \in [Wires -> PipMap \cup {Unbound}]
      <4>1. Basic'
        BY StepKeepsBasic
      <4>2. TypeOK /\ TypeOK'
        BY <4>1 DEF Basic
      <4> QED BY <3>1, <4>2 DEF TypeOK, ArchTypeOK
    <3> QED BY <3>3, <3>4
  <2> QED BY <1>2, <2>1, <2>4 DEF OrphanStep
<1>5. CASE \/ \E a \in Arcs : PopArc(a)
           \/ FindPath \/ QuietStep
  BY <1>2, <1>5 DEF PopArc, FindPath, QuietStep, TimingPass, archVars
<1>6. CASE \/ \E w \in work : ReleaseStep(w)
           \/ \E w \in Wires : RipStep(w)
           \/ \E h \in Hop : TakeStep(h)
  <2>1. UNCHANGED <<arcs, setup_nets>> /\ pc \in {"release", "bind", "ripup"}
    BY <1>6 DEF ReleaseStep, RipStep, TakeStep
  <2>2. setup_nets = {}
    BY <2>1 DEF Setup, ArcsLive
  <2> QED BY <1>2, <2>1, <2>2
<1> QED BY <1>3, <1>4, <1>5, <1>6, Steps

LEMMA StepKeepsSetup == Basic /\ Setup /\ [Next]_vars => Setup'
BY StepKeepsArcsLive, StepKeepsOrphansUnused, StepKeepsSetupUntouched DEF Setup

-----------------------------------------------------------------------------
(* The wires of an arc lead from its sink back to the source.              *)

\* The net drives a wire from within a set of wires, or starts there.
Drives(n, w, W) ==
    \/ AtSource(n, w)
    \/ wires[n][w] # Unbound /\ wires[n][w].pip # NoPip /\ PipSrc[wires[n][w].pip] \in W

LeadsBack(a, W) ==
    /\ ArcSink[a] \in W
    /\ \E w \in W : AtSource(ArcNet[a], w)
    /\ \A w \in arc_to_wires[a] : Drives(ArcNet[a], w, W)

\* An arc that has been taken in hand and has not got its route yet.
InFlight(a) == a = arc /\ pc \in {"release", "bind", "failed"}

RoutesLead ==
    pc # "crashed" =>
        \A a \in Live \ queued_arcs : ~InFlight(a) => LeadsBack(a, arc_to_wires[a])

\* The wires of the arc in hand once its plan is carried out.
WiresToBe == arc_to_wires[arc] \cup {h.wire : h \in HopsOf(plan)}

\* Unless a rip-up has taken a wire of its own from it, the arc in hand will
\* lead back when its plan is carried out.
PlanLeads ==
    (pc = "bind" /\ arc \notin queued_arcs) =>
        /\ LeadsBack(arc, WiresToBe)
        /\ \A h \in HopsOf(plan) : IF h.pip = NoPip THEN AtSource(ArcNet[arc], h.wire)
                                   ELSE PipSrc[h.pip] \in WiresToBe

Leads == RoutesLead /\ PlanLeads

LEMMA RootIsSource ==
    ASSUME NEW n, NEW w, RouteRoot(n, w) PROVE AtSource(n, w)
BY DEF RouteRoot, AtSource

\* A wire stays driven unless the net lets it go.
LEMMA DrivesStays ==
    ASSUME NEW n \in Nets, NEW w \in Wires, NEW W, NEW V, W \subseteq V,
           Drives(n, w, W), wires'[n][w] = wires[n][w]
    PROVE  Drives(n, w, V)'
BY DEF Drives, AtSource, IsConst

\* An arc that keeps its wires, each of them as it is, still leads back.
LEMMA LeadsBackStays ==
    ASSUME Basic, NEW a \in Arcs, LeadsBack(a, arc_to_wires[a]),
           arc_to_wires'[a] = arc_to_wires[a],
           \A w \in arc_to_wires[a] : wires'[ArcNet[a]][w] = wires[ArcNet[a]][w]
                                      \/ AtSource(ArcNet[a], w)
    PROVE  LeadsBack(a, arc_to_wires[a])'
<1> USE RouterAssumption
<1>1. ArcNet[a] \in Nets /\ arc_to_wires[a] \subseteq Wires
  BY DEF Basic, TypeOK
<1> QED BY <1>1, DrivesStays DEF LeadsBack, Drives, AtSource, IsConst

\* The walk from a sink is closed: unless it ends in a wire, it goes on to the
\* wire that drives it.
LEMMA WalkGoesOn ==
    ASSUME NEW n \in Nets, NEW d \in Wires, ArchTypeOK
    PROVE  /\ d \in Walk(n, d)
           /\ \A w \in Walk(n, d) : ~WalkEnds(n, w) => PipSrc[wires[n][w].pip] \in Walk(n, d)
<1>1. d \in Walk(n, d)
  BY DEF Walk
<1>2. ASSUME NEW w \in Walk(n, d), ~WalkEnds(n, w)
      PROVE  PipSrc[wires[n][w].pip] \in Walk(n, d)
  <2> DEFINE u == PipSrc[wires[n][w].pip]
  <2>1. w \in Wires
    BY <1>2, WalkTypes
  <2>2. u \in Drivers(n)
    BY <1>2, <2>1 DEF WalkEnds, Drivers, HeldBy
  <2>3. ASSUME NEW S \in SUBSET ({d} \cup Drivers(n)), d \in S,
               \A v \in S : WalkEnds(n, v) \/ PipSrc[wires[n][v].pip] \in S
        PROVE  u \in S
    BY <1>2, <2>3 DEF Walk
  <2> QED BY <2>2, <2>3 DEF Walk
<1> QED BY <1>1, <1>2

\* What setup adopts for an arc leads back, unless it queues the arc.
LEMMA AdoptedLeadsBack ==
    ASSUME Basic, Setup, NEW n \in Nets, SetupNet(n), ~MeetsBareWire(n),
           \A d \in Designs : NoLoop(d.routing),
           NEW a \in Found(n), a \notin Broken(n)
    PROVE  LeadsBack(a, arc_to_wires[a])'
<1> USE RouterAssumption
<1> DEFINE W == Walk(n, ArcSink[a])
<1>1. /\ a \in Arcs /\ ArcNet[a] = n /\ ArcSink[a] \in Wires /\ arc_to_wires'[a] = W
      /\ UNCHANGED wires /\ ArchTypeOK
  BY SetupAdopts DEF SetupNet, archVars, Basic, TypeOK
<1>2. W \subseteq Wires /\ ArcSink[a] \in W
  BY <1>1, WalkTypes, WalkGoesOn
<1>3. ASSUME NEW w \in W PROVE Drives(n, w, W)
  <2>1. AtSource(n, w) \/ (wires[n][w] # Unbound /\ wires[n][w].pip # NoPip)
    BY DEF Broken, MeetsBareWire
  <2>2. ~WalkEnds(n, w) => PipSrc[wires[n][w].pip] \in W
    BY <1>1, WalkGoesOn
  <2> QED BY <2>1, <2>2 DEF Drives, WalkEnds
<1>4. \E w \in W : AtSource(n, w)
  <2>1. PICK d \in Designs : wires[n] = d.routing[n]
    BY SetupAdopts DEF Setup, SetupUntouched
  <2>2. PICK w \in W : \/ AtSource(n, w)
                       \/ wires[n][w] = Unbound
                       \/ wires[n][w].pip = NoPip
                       \/ PipSrc[wires[n][w].pip] \notin W
    <3> HIDE RouterAssumption DEF W
    <3>1. W \in (SUBSET Wires) \ {{}} /\ NoLoop(d.routing)
      BY <1>2
    <3> QED BY <2>1, <3>1 DEF NoLoop
  <2> QED BY <1>3, <2>2 DEF Drives
<1> HIDE DEF W
<1> QED BY <1>1, <1>2, <1>3, <1>4 DEF LeadsBack, Drives, AtSource, IsConst

\* An arc that is not the one in hand keeps its route through a step that takes
\* no wire of it away.
LEMMA RouteStays ==
    ASSUME Basic, Leads, pc # "crashed",
           NEW a \in Arcs, a \in Live \ queued_arcs, ~InFlight(a),
           arc_to_wires'[a] = arc_to_wires[a],
           \A w \in arc_to_wires[a] : wires'[ArcNet[a]][w] = wires[ArcNet[a]][w]
                                      \/ wires[ArcNet[a]][w] = Unbound
    PROVE  LeadsBack(a, arc_to_wires[a])'
<1>1. LeadsBack(a, arc_to_wires[a])
  BY DEF Leads, RoutesLead
<1>2. \A w \in arc_to_wires[a] : wires'[ArcNet[a]][w] = wires[ArcNet[a]][w]
                                 \/ AtSource(ArcNet[a], w)
  BY <1>1 DEF LeadsBack, Drives
<1> QED BY <1>1, <1>2, LeadsBackStays

\* Where the route of an arc that is not queued comes from: it was there before
\* the step, setup has just adopted it, or the arc in hand has just got it.
LEMMA RouteCases ==
    ASSUME Basic, Setup, [Next]_vars, pc' # "crashed",
           NEW a \in (Live \ queued_arcs)', ~InFlight(a)'
    PROVE  /\ a \in Arcs /\ ArcNet[a] \in Nets /\ a \notin queued_arcs'
           /\ \/ /\ pc # "crashed" /\ a \in Live \ queued_arcs /\ ~InFlight(a)
                 /\ arc_to_wires'[a] = arc_to_wires[a]
                 /\ \A w \in arc_to_wires[a] : wires'[ArcNet[a]][w] = wires[ArcNet[a]][w]
                                               \/ wires[ArcNet[a]][w] = Unbound
              \/ \E n \in Nets : /\ SetupNet(n) /\ ~MeetsBareWire(n)
                                 /\ a \in Found(n) /\ a \notin Broken(n)
              \/ /\ a = arc /\ arc \in Arcs
                 /\ \E h \in Hop : /\ TakeStep(h)
                                   /\ pc = "bind" => Len(plan) = 1 /\ arc \notin queued_arcs
<1> USE RouterAssumption
<1>0. /\ a \in Arcs /\ ArcNet[a] \in Nets /\ arc_to_wires[a] \subseteq Wires
      /\ a \in arcs' /\ ArcNet[a] \in Visited' /\ a \notin queued_arcs'
  <2>1. Basic'
    BY StepKeepsBasic
  <2>2. a \in Arcs
    BY <2>1 DEF Basic, TypeOK, Live
  <2> QED BY <2>2 DEF Live, Basic, TypeOK
<1>1. ASSUME UNCHANGED <<arcs, setup_nets>> PROVE a \in Live
  BY <1>0, <1>1 DEF Live, Visited
<1> DEFINE Kept == /\ pc # "crashed" /\ a \in Live \ queued_arcs /\ ~InFlight(a)
                   /\ arc_to_wires'[a] = arc_to_wires[a]
                   /\ \A w \in arc_to_wires[a] : wires'[ArcNet[a]][w] = wires[ArcNet[a]][w]
                                                 \/ wires[ArcNet[a]][w] = Unbound
<1>2. CASE \E n \in Nets : SetupNet(n)
  <2>1. PICK n \in Nets : SetupNet(n)
    BY <1>2
  <2>2. /\ pc = "setup" /\ ~MeetsBareWire(n) /\ UNCHANGED <<wires, arcs, arc>> /\ pc' = "orphans"
        /\ queued_arcs' = queued_arcs \cup (ArcsOf(n) \ Found(n)) \cup Broken(n)
    BY <2>1 DEF SetupNet, archVars
  <2>3. CASE ArcNet[a] = n
    BY <1>0, <2>1, <2>2, <2>3, SetupAdopts
  <2>4. CASE ArcNet[a] # n
    <3>1. a \notin Found(n) /\ arc_to_wires'[a] = arc_to_wires[a] /\ a \in Live /\ ~InFlight(a)
      BY <1>0, <2>1, <2>2, <2>4, SetupAdopts DEF Live, InFlight
    <3>2. Kept
      BY <1>0, <2>2, <3>1
    <3> QED BY <1>0, <3>2
  <2> QED BY <2>3, <2>4
<1>3. CASE \E w \in work : OrphanStep(w)
  <2>1. PICK w \in work : OrphanStep(w)
    BY <1>3
  <2>2. /\ pc = "orphans" /\ FreesWire(w) /\ wire_to_arcs[w] = {} /\ w \in Wires
        /\ UNCHANGED <<queued_arcs, arcs, setup_nets, arc_to_wires>>
    BY <2>1 DEF OrphanStep, Setup, OrphansUnused, Basic, TypeOK
  <2>3. w \notin arc_to_wires[a]
    BY <1>0, <2>2 DEF Basic, MapsAgree
  <2>4. \A v \in arc_to_wires[a] : wires'[ArcNet[a]][v] = wires[ArcNet[a]][v]
    BY <1>0, <2>2, <2>3 DEF FreesWire
  <2>5. Kept
    BY <1>0, <1>1, <2>2, <2>4 DEF InFlight
  <2> QED BY <1>0, <2>5
<1>4. CASE \E b \in Arcs : PopArc(b)
  <2>1. PICK b \in Arcs : PopArc(b)
    BY <1>4
  <2>2. /\ pc = "idle" /\ pc' = "release" /\ arc' = b /\ queued_arcs' = queued_arcs \ {b}
        /\ UNCHANGED <<wires, arcs, setup_nets>>
        /\ \A c \in Arcs : arc_to_wires'[c] = IF c = b THEN {} ELSE arc_to_wires[c]
    BY <2>1 DEF PopArc, archVars, Basic, TypeOK
  <2>3. a # b
    BY <2>2 DEF InFlight
  <2>4. Kept
    BY <1>0, <1>1, <2>2, <2>3 DEF InFlight
  <2> QED BY <1>0, <2>4
<1>5. CASE \E w \in work : ReleaseStep(w)
  <2>1. PICK w \in work : ReleaseStep(w)
    BY <1>5
  <2>2. /\ pc = "release" /\ pc' = "release" /\ arc' = arc /\ w \in Wires /\ a # arc
        /\ UNCHANGED <<queued_arcs, arc_to_wires, arcs, setup_nets>>
        /\ UNCHANGED wires \/ (FreesWire(w) /\ wire_to_arcs[w] = {arc})
    BY <2>1 DEF ReleaseStep, InFlight, Basic, TypeOK
  <2>3. wire_to_arcs[w] = {arc} => w \notin arc_to_wires[a]
    BY <1>0, <2>2 DEF Basic, MapsAgree
  <2>4. \A v \in arc_to_wires[a] : wires'[ArcNet[a]][v] = wires[ArcNet[a]][v]
    BY <1>0, <2>2, <2>3 DEF FreesWire
  <2>5. Kept
    BY <1>0, <1>1, <2>2, <2>4 DEF InFlight
  <2> QED BY <1>0, <2>5
<1>6. CASE \E w \in Wires : RipStep(w)
  <2>1. PICK w \in Wires : RipStep(w)
    BY <1>6
  <2>2. /\ pc \in {"bind", "ripup"} /\ UNCHANGED <<pc, arc, arcs, setup_nets>> /\ FreesWire(w)
        /\ a \notin queued_arcs /\ a \notin wire_to_arcs[w]
        /\ arc_to_wires'[a] = arc_to_wires[a] \ {w}
    BY <1>0, <2>1 DEF RipStep
  <2>3. w \notin arc_to_wires[a]
    BY <1>0, <2>2 DEF Basic, MapsAgree
  <2>4. \A v \in arc_to_wires[a] : wires'[ArcNet[a]][v] = wires[ArcNet[a]][v]
    BY <1>0, <2>1, <2>2, <2>3 DEF FreesWire
  <2>5. Kept
    BY <1>0, <1>1, <2>2, <2>3, <2>4 DEF InFlight
  <2> QED BY <1>0, <2>5
<1>7. CASE \E h \in Hop : TakeStep(h)
  <2>1. PICK h \in Hop : TakeStep(h)
    BY <1>7
  <2>2. /\ arc \in Arcs /\ ArcNet[arc] \in Nets /\ h.wire \in Wires
        /\ UNCHANGED <<queued_arcs, arc, arcs, setup_nets>>
        /\ Registered(arc, h.wire) /\ pc \in {"release", "bind"}
        /\ UNCHANGED wires \/ TakesWire(ArcNet[arc], h.wire, h.pip)
    BY <2>1 DEF TakeStep, Hop
  <2>3. \A v \in Wires, m \in Nets : wires'[m][v] = wires[m][v] \/ wires[m][v] = Unbound
    BY <2>2 DEF TakesWire
  <2>4. CASE a # arc
    <3>1. arc_to_wires'[a] = arc_to_wires[a]
      BY <1>0, <2>2, <2>4 DEF Registered
    <3>2. Kept
      BY <1>0, <1>1, <2>2, <2>3, <2>4, <3>1 DEF InFlight
    <3> QED BY <1>0, <3>2
  <2>5. CASE a = arc
    <3>1. pc = "bind" => Len(plan) = 1
      BY <2>1, <2>2, <2>5 DEF TakeStep, InFlight
    <3> QED BY <1>0, <2>1, <2>2, <2>5, <3>1
  <2> QED BY <2>4, <2>5
<1>8. CASE FindPath
  <2>1. /\ UNCHANGED <<wires, queued_arcs, arc_to_wires, arc, arcs, setup_nets>>
        /\ pc = "release" /\ pc' = "bind"
    BY <1>8 DEF FindPath, archVars
  <2>2. Kept
    BY <1>0, <1>1, <2>1 DEF InFlight
  <2> QED BY <1>0, <2>2
<1>9. CASE QuietStep
  <2>1. /\ UNCHANGED <<wires, queued_arcs, arc_to_wires, arc, arcs, setup_nets>>
        /\ pc # "crashed" /\ ~InFlight(a)
    BY <1>9 DEF QuietStep, TimingPass, InFlight
  <2>2. Kept
    BY <1>0, <1>1, <2>1
  <2> QED BY <1>0, <2>2
<1> QED BY <1>2, <1>3, <1>4, <1>5, <1>6, <1>7, <1>8, <1>9, Steps

\* The last hop of a plan is bound: the arc owns all the wires of its path.
LEMMA LastHop ==
    ASSUME Basic, NEW h \in Hop, TakeStep(h), pc = "bind", Len(plan) = 1
    PROVE  HopsOf(plan) = {h} /\ arc_to_wires'[arc] = WiresToBe /\ h.wire \in Wires
<1>1. /\ h = Head(plan) /\ plan \in Seq(Hop) /\ plan # <<>> /\ arc \in Arcs /\ h.wire \in Wires
      /\ arc_to_wires'[arc] = arc_to_wires[arc] \cup {h.wire}
  BY DEF TakeStep, Registered, Basic, TypeOK, InHand, Hop
<1>2. HopsOf(plan) = {h}
  BY <1>1, PlanSplits
<1>3. {k.wire : k \in HopsOf(plan)} = {h.wire}
  BY <1>2
<1> QED BY <1>1, <1>2, <1>3 DEF WiresToBe

\* The net of the arc in hand drives a wire as the hop says, unless it starts
\* there, once the hop is done; and it keeps what else it holds.
LEMMA HopDone ==
    ASSUME Basic, NEW h \in Hop, TakeStep(h)
    PROVE  /\ wires'[ArcNet[arc]][h.wire] # Unbound
           /\ h.pip # NoPip => wires'[ArcNet[arc]][h.wire].pip = h.pip
           /\ \A m \in Nets, v \in Wires : wires[m][v] # Unbound => wires'[m][v] = wires[m][v]
<1>1. h.wire \in Wires /\ h.pip \in Pips \cup {NoPip} /\ ArcNet[arc] \in Nets
  BY RouterAssumption DEF Hop, TakeStep
<1>2. CASE /\ UNCHANGED wires /\ wires[ArcNet[arc]][h.wire] # Unbound
           /\ h.pip = NoPip \/ wires[ArcNet[arc]][h.wire].pip = h.pip
  BY <1>2
<1>3. CASE TakesWire(ArcNet[arc], h.wire, h.pip)
  <2>1. wires'[ArcNet[arc]][h.wire] = [pip |-> h.pip, strength |-> STRENGTH_WEAK]
    BY <1>1, <1>3 DEF TakesWire
  <2>2. STRENGTH_WEAK \in Strengths
    BY RouterAssumption
  <2>3. wires'[ArcNet[arc]][h.wire] # Unbound
    BY <1>1, <2>1, <2>2, RoutingAssumption
  <2> QED BY <1>3, <2>1, <2>3 DEF TakesWire
<1> QED BY <1>2, <1>3 DEF TakeStep

LEMMA StepKeepsRoutesLead ==
    ASSUME \A d \in Designs : NoLoop(d.routing), Basic, Setup, Leads, [Next]_vars
    PROVE  RoutesLead'
<1> USE RouterAssumption
<1> SUFFICES ASSUME pc' # "crashed", NEW a \in (Live \ queued_arcs)', ~InFlight(a)'
             PROVE  LeadsBack(a, arc_to_wires[a])'
  BY DEF RoutesLead
<1>1. CASE /\ pc # "crashed" /\ a \in Arcs /\ a \in Live \ queued_arcs /\ ~InFlight(a)
           /\ arc_to_wires'[a] = arc_to_wires[a]
           /\ \A w \in arc_to_wires[a] : wires'[ArcNet[a]][w] = wires[ArcNet[a]][w]
                                         \/ wires[ArcNet[a]][w] = Unbound
  BY <1>1, RouteStays
<1>2. CASE \E n \in Nets : /\ SetupNet(n) /\ ~MeetsBareWire(n)
                           /\ a \in Found(n) /\ a \notin Broken(n)
  BY <1>2, AdoptedLeadsBack
<1>3. CASE /\ a = arc /\ arc \in Arcs
           /\ \E h \in Hop : /\ TakeStep(h)
                             /\ pc = "bind" => Len(plan) = 1 /\ arc \notin queued_arcs
  <2>1. PICK h \in Hop : TakeStep(h) /\ (pc = "bind" => Len(plan) = 1 /\ arc \notin queued_arcs)
    BY <1>3
  <2>2. CASE pc = "release"
    <3>1. h.wire = ArcSink[a] /\ AtSource(ArcNet[a], h.wire)
      BY <1>3, <2>1, <2>2, RootIsSource DEF TakeStep
    <3>2. arc_to_wires'[a] = {h.wire}
      BY <1>3, <2>1, <2>2 DEF TakeStep, Registered, Basic, Phases
    <3> QED BY <3>1, <3>2 DEF LeadsBack, Drives, AtSource, IsConst
  <2>3. CASE pc = "bind"
    <3>1. HopsOf(plan) = {h} /\ arc_to_wires'[a] = WiresToBe /\ h.wire \in Wires
      BY <1>3, <2>1, <2>3, LastHop
    <3>2. LeadsBack(arc, WiresToBe)
      BY <2>1, <2>3 DEF Leads, PlanLeads
    <3>3. IF h.pip = NoPip THEN AtSource(ArcNet[arc], h.wire) ELSE PipSrc[h.pip] \in WiresToBe
      BY <2>1, <2>3, <3>1 DEF Leads, PlanLeads
    <3>4. ASSUME NEW v \in arc_to_wires'[a] PROVE Drives(ArcNet[a], v, arc_to_wires[a])'
      <4>1. CASE v = h.wire
        BY <1>3, <2>1, <3>1, <3>3, <4>1, HopDone DEF Drives, AtSource, IsConst
      <4>2. CASE v # h.wire
        <5>1. v \in arc_to_wires[a] /\ v \in Wires /\ ArcNet[a] \in Nets
          <6>1. v \in arc_to_wires[a]
            BY <1>3, <2>1, <3>1, <4>2 DEF WiresToBe
          <6> QED BY <1>3, <6>1 DEF Basic, TypeOK
        <5>2. Drives(ArcNet[a], v, WiresToBe)
          BY <1>3, <3>2, <5>1 DEF LeadsBack
        <5>3. wires[ArcNet[a]][v] # Unbound => wires'[ArcNet[a]][v] = wires[ArcNet[a]][v]
          BY <2>1, <5>1, HopDone
        <5> QED BY <3>1, <5>2, <5>3 DEF Drives, AtSource, IsConst
      <4> QED BY <4>1, <4>2
    <3>5. ArcSink[a] \in arc_to_wires'[a] /\ \E v \in arc_to_wires'[a] : AtSource(ArcNet[a], v)
      BY <1>3, <3>1, <3>2 DEF LeadsBack
    <3> QED BY <3>4, <3>5 DEF LeadsBack, AtSource, IsConst
  <2> QED BY <2>1, <2>2, <2>3 DEF TakeStep
<1> QED BY <1>1, <1>2, <1>3, RouteCases

LEMMA StepKeepsPlanLeads ==
    ASSUME Basic, Setup, Leads, [Next]_vars PROVE PlanLeads'
<1> USE RouterAssumption
<1> SUFFICES ASSUME pc' = "bind", arc' \notin queued_arcs'
             PROVE  /\ LeadsBack(arc, WiresToBe)'
                    /\ \A h \in HopsOf(plan') :
                          IF h.pip = NoPip THEN AtSource(ArcNet[arc'], h.wire)
                          ELSE PipSrc[h.pip] \in WiresToBe'
  BY DEF PlanLeads, AtSource, IsConst
<1>1. CASE FindPath
  <2>1. PICK path \in PathsFor(arc) :
           /\ LeadsTo(path, ArcSink[arc])
           /\ HopsOf(plan') =
                 {[wire |-> PipDst[path[i]], pip |-> path[i]] : i \in 1..Len(path)}
                    \cup {[wire |-> PipSrc[path[Len(path)]], pip |-> NoPip]}
    BY <1>1, PlanMade DEF Basic
  <2> DEFINE k == Len(path)
             U == WiresToBe'
  <2>2. /\ arc \in Arcs /\ arc' = arc /\ arc_to_wires'[arc'] = {} /\ k \in Nat \ {0}
        /\ \A i \in 1..k : path[i] \in Pips
    BY <1>1, <2>1 DEF FindPath, Basic, InHand, Phases, LeadsTo
  <2>3. \A i \in 1..k : PipDst[path[i]] \in U
    <3> SUFFICES ASSUME NEW i \in 1..k PROVE PipDst[path[i]] \in U
      OBVIOUS
    <3>1. [wire |-> PipDst[path[i]], pip |-> path[i]] \in HopsOf(plan')
      BY <2>1
    <3> QED BY <3>1 DEF WiresToBe
  <2>4. PipSrc[path[k]] \in U
    <3>1. [wire |-> PipSrc[path[k]], pip |-> NoPip] \in HopsOf(plan')
      BY <2>1
    <3> QED BY <3>1 DEF WiresToBe
  <2>5. \A i \in 1..k : PipSrc[path[i]] \in U
    <3>1. \A i \in 1..k : i = k \/ (i \in 1..(k - 1) /\ i + 1 \in 1..k)
      BY <2>2
    <3> QED BY <2>1, <2>3, <2>4, <3>1 DEF LeadsTo
  <2>6. AtSource(ArcNet[arc], PipSrc[path[k]])
    BY <2>1, <2>2, PathFound, RootIsSource
  <2>7. ArcSink[arc] \in U
    BY <2>1, <2>2, <2>3 DEF LeadsTo
  <2>8. ASSUME NEW h \in HopsOf(plan')
        PROVE  IF h.pip = NoPip THEN AtSource(ArcNet[arc'], h.wire) ELSE PipSrc[h.pip] \in U
    <3>1. CASE h = [wire |-> PipSrc[path[k]], pip |-> NoPip]
      BY <2>2, <2>6, <3>1
    <3>2. CASE \E i \in 1..k : h = [wire |-> PipDst[path[i]], pip |-> path[i]]
      BY <2>2, <2>5, <3>2, RoutingAssumption
    <3> QED BY <2>1, <2>8, <3>1, <3>2
  <2> HIDE DEF U
  <2>9. LeadsBack(arc, WiresToBe)'
    BY <2>2, <2>4, <2>6, <2>7 DEF LeadsBack, U, AtSource, IsConst
  <2> QED BY <2>8, <2>9 DEF U
<1>2. CASE \E h \in Hop : TakeStep(h)
  <2>1. PICK h \in Hop : TakeStep(h)
    BY <1>2
  <2> DEFINE n == ArcNet[arc]
             U == WiresToBe
  <2>2. /\ pc = "bind" /\ h = Head(plan) /\ plan' = Tail(plan)
        /\ arc \in Arcs /\ n \in Nets /\ h.wire \in Wires /\ h.pip \in Pips \cup {NoPip}
        /\ UNCHANGED <<queued_arcs, arc>> /\ Registered(arc, h.wire)
        /\ plan \in Seq(Hop) /\ plan # <<>>
    BY <2>1 DEF TakeStep, Hop, Basic, TypeOK, InHand
  <2>3. HopsOf(plan) = {h} \cup HopsOf(plan')
    BY <2>2, PlanSplits
  <2>4. arc_to_wires'[arc] = arc_to_wires[arc] \cup {h.wire}
    BY <2>2 DEF Registered
  <2>5. WiresToBe' = U
    <3>1. {k.wire : k \in HopsOf(plan)} = {h.wire} \cup {k.wire : k \in HopsOf(plan')}
      BY <2>3
    <3> QED BY <2>2, <2>4, <3>1 DEF WiresToBe
  <2>6. /\ LeadsBack(arc, U)
        /\ \A k \in HopsOf(plan) : IF k.pip = NoPip THEN AtSource(n, k.wire)
                                    ELSE PipSrc[k.pip] \in U
    BY <2>2 DEF Leads, PlanLeads
  <2> HIDE DEF U
  <2>7. ASSUME NEW v \in arc_to_wires'[arc]
        PROVE  AtSource(n, v) \/ /\ wires'[n][v] # Unbound /\ wires'[n][v].pip # NoPip
                                 /\ PipSrc[wires'[n][v].pip] \in U
    <3>1. CASE v = h.wire
      <4>1. IF h.pip = NoPip THEN AtSource(n, v) ELSE PipSrc[h.pip] \in U
        BY <2>3, <2>6, <3>1
      <4>2. \/ /\ UNCHANGED wires /\ wires[n][v] # Unbound
               /\ h.pip = NoPip \/ wires[n][v].pip = h.pip
            \/ TakesWire(n, v, h.pip)
        BY <2>1, <3>1 DEF TakeStep
      <4>3. TakesWire(n, v, h.pip) =>
               wires'[n][v] = [pip |-> h.pip, strength |-> STRENGTH_WEAK]
        BY <2>2, <3>1 DEF TakesWire
      <4>4. TakesWire(n, v, h.pip) => wires'[n][v] # Unbound /\ wires'[n][v].pip = h.pip
        BY <2>2, <4>3, RoutingAssumption
      <4> QED BY <4>1, <4>2, <4>4
    <3>2. CASE v # h.wire
      <4>1. v \in arc_to_wires[arc] /\ v \in Wires
        BY <2>2, <2>4, <3>2 DEF Basic, TypeOK
      <4>2. Drives(n, v, U)
        BY <2>6, <4>1 DEF LeadsBack
      <4>3. wires'[n][v] = wires[n][v]
        <5>1. UNCHANGED wires \/ TakesWire(n, h.wire, h.pip)
          BY <2>1 DEF TakeStep
        <5> QED BY <2>2, <3>2, <4>1, <5>1 DEF TakesWire
      <4> QED BY <4>2, <4>3 DEF Drives
    <3> QED BY <3>1, <3>2
  <2>8. LeadsBack(arc, WiresToBe)'
    <3>1. \A v \in arc_to_wires'[arc] : Drives(ArcNet[arc], v, WiresToBe)'
      BY <2>2, <2>5, <2>7 DEF Drives, AtSource, IsConst
    <3>2. ArcSink[arc] \in U /\ \E v \in U : AtSource(n, v)
      BY <2>6 DEF LeadsBack
    <3> QED BY <2>2, <2>5, <3>1, <3>2 DEF LeadsBack, AtSource, IsConst
  <2> QED BY <2>2, <2>3, <2>5, <2>6, <2>8
<1>3. CASE \E w \in Wires : RipStep(w)
  <2>1. PICK w \in Wires : RipStep(w)
    BY <1>3
  <2>2. /\ pc = "bind" /\ UNCHANGED <<arc, plan>> /\ FreesWire(w) /\ arc \in Arcs
        /\ arc \notin queued_arcs /\ arc \notin wire_to_arcs[w]
        /\ arc_to_wires'[arc] = arc_to_wires[arc] \ {w}
    BY <2>1 DEF RipStep, Basic, InHand
  <2>3. w \notin arc_to_wires[arc] /\ arc_to_wires[arc] \subseteq Wires /\ ArcNet[arc] \in Nets
    BY <2>2 DEF Basic, MapsAgree, TypeOK
  <2>4. arc_to_wires'[arc] = arc_to_wires[arc] /\ WiresToBe' = WiresToBe
    BY <2>2, <2>3 DEF WiresToBe
  <2>5. \A v \in arc_to_wires[arc] : wires'[ArcNet[arc]][v] = wires[ArcNet[arc]][v]
    BY <2>1, <2>2, <2>3 DEF FreesWire
  <2>6. PlanLeads
    BY DEF Leads
  <2> QED BY <2>2, <2>4, <2>5, <2>6 DEF PlanLeads, LeadsBack, Drives, AtSource, IsConst
<1>4. CASE \/ \E n \in Nets : SetupNet(n)
           \/ \E w \in work : OrphanStep(w)
           \/ \E a \in Arcs : PopArc(a)
           \/ \E w \in work : ReleaseStep(w)
  BY <1>4 DEF SetupNet, OrphanStep, PopArc, ReleaseStep
<1>5. CASE QuietStep
  <2>1. pc = "bind" /\ UNCHANGED <<wires, queued_arcs, arc_to_wires, arc, plan>>
    BY <1>5 DEF QuietStep, TimingPass
  <2>2. PlanLeads
    BY DEF Leads
  <2> QED BY <2>1, <2>2 DEF PlanLeads, LeadsBack, Drives, AtSource, IsConst, WiresToBe
<1> QED BY <1>1, <1>2, <1>3, <1>4, <1>5, Steps

\* Whatever is ripped up on the way, an arc that is not queued has been routed.
\* The routing that is there at the start may stop short of its source, but
\* must not run in a circle.
THEOREM RoutedArcsStayConnected ==
    ASSUME \A d \in Designs : NoLoop(d.routing)
    PROVE  Spec => []RoutedArcsAreConnected
<1>1. Init => Basic /\ Setup /\ Leads
  <2>1. Init => Leads
    BY DEF Init, Leads, RoutesLead, PlanLeads, Live, Visited
  <2> QED BY <2>1, InitBasic, InitSetup
<1>2. Basic /\ Setup /\ Leads /\ [Next]_vars => (Basic /\ Setup /\ Leads)'
  <2>1. Basic /\ Setup /\ Leads /\ [Next]_vars => Leads'
    BY StepKeepsRoutesLead, StepKeepsPlanLeads DEF Leads
  <2> QED BY <2>1, StepKeepsBasic, StepKeepsSetup
<1>3. Basic /\ Setup /\ Leads => RoutedArcsAreConnected
  <2> SUFFICES ASSUME Basic, Setup, Leads, Settled, NEW a \in arcs,
                      ArcNet[a] \notin Skipped, a \notin queued_arcs, pc = "failed" => a # arc
               PROVE  LET n == ArcNet[a] IN
                      /\ ArcSink[a] \in arc_to_wires[a]
                      /\ \E w \in arc_to_wires[a] : AtSource(n, w)
                      /\ \A w \in arc_to_wires[a] :
                            IF WalkEnds(n, w) THEN AtSource(n, w)
                            ELSE PipSrc[wires[n][w].pip] \in arc_to_wires[a]
    BY DEF RoutedArcsAreConnected
  <2>1. a \in Live /\ pc # "crashed" /\ ~InFlight(a)
    BY RouterAssumption DEF Settled, Setup, ArcsLive, Live, Visited, InFlight, Basic, TypeOK
  <2>2. LeadsBack(a, arc_to_wires[a])
    BY <2>1 DEF Leads, RoutesLead
  <2> QED BY <2>2 DEF LeadsBack, Drives, WalkEnds
<1> QED BY <1>1, <1>2, <1>3, PTL DEF Spec

-----------------------------------------------------------------------------
(* What the arcs use is bound, and what is bound and not locked is used.    *)

\* A wire registered with an arc is bound to the arc's net.
Owned == \A w \in Wires : \A a \in wire_to_arcs[w] : wires[ArcNet[a]][w] # Unbound

\* A wire of a visited net that is not locked serves an arc, or setup is about
\* to release it.
Used ==
    pc # "crashed" =>
        \A n \in Visited, w \in Wires :
            (wires[n][w] # Unbound /\ wires[n][w].strength < STRENGTH_LOCKED)
                => wire_to_arcs[w] # {} \/ (pc = "orphans" /\ w \in work)

\* The walk from a bound sink does not leave the wires of the net.
LEMMA WalkHeld ==
    ASSUME Basic, NEW n \in Nets \ Skipped, NEW d \in Wires, wires[n][d] # Unbound,
           NEW r \in [Nets -> [Wires -> PipMap \cup {Unbound}]], Driven(r), wires[n] = r[n]
    PROVE  Walk(n, d) \subseteq HeldBy(n)
<1> USE RouterAssumption
<1> DEFINE S == ({d} \cup Drivers(n)) \cap HeldBy(n)
<1>0. ArchTypeOK
  BY DEF Basic, TypeOK
<1>1. ASSUME NEW u \in S, ~WalkEnds(n, u) PROVE PipSrc[wires[n][u].pip] \in S
  <2>1. u \in Wires /\ wires[n][u].pip \in Pips /\ u \in HeldBy(n)
    BY <1>0, <1>1 DEF WalkEnds, HeldBy, ArchTypeOK, PipMap
  <2>2. wires[n][PipSrc[wires[n][u].pip]] # Unbound
    BY <1>1, <2>1 DEF WalkEnds, Driven
  <2> QED BY <1>1, <2>1, <2>2 DEF WalkEnds, Drivers, HeldBy
<1>2. d \in S /\ S \in SUBSET ({d} \cup Drivers(n))
  BY DEF HeldBy
<1>3. \A w \in Walk(n, d) : w \in S
  BY <1>1, <1>2 DEF Walk
<1> QED BY <1>3

LEMMA StepKeepsOwned ==
    ASSUME \A d \in Designs : Driven(d.routing), Basic, Setup, Owned, [Next]_vars
    PROVE  Owned'
<1> USE RouterAssumption
<1> SUFFICES ASSUME NEW w \in Wires, NEW a \in wire_to_arcs'[w]
             PROVE  wires'[ArcNet[a]][w] # Unbound
  BY DEF Owned
<1>0. a \in Arcs /\ ArcNet[a] \in Nets
  <2>1. Basic'
    BY StepKeepsBasic
  <2> QED BY <2>1 DEF Basic, TypeOK
<1>1. CASE \E n \in Nets : SetupNet(n)
  <2>1. PICK n \in Nets : SetupNet(n)
    BY <1>1
  <2>2. UNCHANGED wires
    BY <2>1 DEF SetupNet, archVars
  <2>3. CASE a \in wire_to_arcs[w]
    BY <2>2, <2>3 DEF Owned
  <2>4. CASE a \in Found(n) /\ w \in Walk(n, ArcSink[a])
    <3>1. ArcNet[a] = n /\ wires[n][ArcSink[a]] # Unbound /\ n \in setup_nets /\ n \notin Skipped
      BY <2>1, <2>4, SetupAdopts DEF Found, ArcsOf, Setup, ArcsLive
    <3>2. PICK d \in Designs : wires[n] = d.routing[n]
      BY <3>1 DEF Setup, SetupUntouched
    <3>3. Driven(d.routing) /\ d.routing \in [Nets -> [Wires -> PipMap \cup {Unbound}]]
      OBVIOUS
    <3>4. ArcSink[a] \in Wires
      BY <1>0
    <3>5. Walk(n, ArcSink[a]) \subseteq HeldBy(n)
      BY <3>1, <3>2, <3>3, <3>4, WalkHeld
    <3> QED BY <2>2, <2>4, <3>1, <3>5 DEF HeldBy
  <2> QED BY <2>1, <2>3, <2>4, SetupAdopts
<1>2. CASE \E v \in work : OrphanStep(v)
  <2>1. PICK v \in work : OrphanStep(v)
    BY <1>2
  <2>2. wire_to_arcs[v] = {} /\ UNCHANGED wire_to_arcs /\ FreesWire(v)
    BY <2>1 DEF OrphanStep, Setup, OrphansUnused
  <2> QED BY <1>0, <2>2 DEF FreesWire, Owned
<1>3. CASE \E v \in work : ReleaseStep(v)
  <2>1. PICK v \in work : ReleaseStep(v)
    BY <1>3
  <2>2. /\ wire_to_arcs'[w] = IF w = v THEN wire_to_arcs[v] \ {arc} ELSE wire_to_arcs[w]
        /\ UNCHANGED wires \/ (FreesWire(v) /\ wire_to_arcs[v] = {arc})
    BY <2>1 DEF ReleaseStep
  <2> QED BY <1>0, <2>2 DEF FreesWire, Owned
<1>4. CASE \E v \in Wires : RipStep(v)
  <2>1. PICK v \in Wires : RipStep(v)
    BY <1>4
  <2>2. wire_to_arcs'[w] = (IF w = v THEN {} ELSE wire_to_arcs[w]) /\ FreesWire(v)
    BY <2>1 DEF RipStep
  <2> QED BY <1>0, <2>2 DEF FreesWire, Owned
<1>5. CASE \E h \in Hop : TakeStep(h)
  <2>1. PICK h \in Hop : TakeStep(h)
    BY <1>5
  <2> DEFINE n == ArcNet[arc]
  <2>2. /\ wire_to_arcs'[w] = IF w = h.wire THEN wire_to_arcs[w] \cup {arc} ELSE wire_to_arcs[w]
        /\ arc \in Arcs /\ n \in Nets /\ h.wire \in Wires /\ h.pip \in Pips \cup {NoPip}
    BY <2>1 DEF TakeStep, Registered, Hop
  <2>3. CASE UNCHANGED wires /\ wires[n][h.wire] # Unbound
    BY <1>0, <2>2, <2>3 DEF Owned
  <2>4. CASE TakesWire(n, h.wire, h.pip)
    <3>1. wires'[n][h.wire] # Unbound
      BY <2>2, <2>4, RoutingAssumption DEF TakesWire
    <3>2. \A m \in Nets, v \in Wires : wires[m][v] # Unbound => wires'[m][v] # Unbound
      BY <2>4, <2>2, <3>1 DEF TakesWire
    <3> QED BY <1>0, <2>2, <3>1, <3>2 DEF Owned
  <2> QED BY <2>1, <2>3, <2>4 DEF TakeStep
<1>6. CASE (\E b \in Arcs : PopArc(b)) \/ FindPath \/ QuietStep
  <2>1. UNCHANGED <<wires, wire_to_arcs>>
    BY <1>6 DEF PopArc, FindPath, QuietStep, TimingPass, archVars
  <2> QED BY <2>1 DEF Owned
<1> QED BY <1>1, <1>2, <1>3, <1>4, <1>5, <1>6, Steps

\* A wire without an arc had none before the step, unless setup has just come to
\* its net.
LEMMA UnusedBefore ==
    ASSUME Basic, Setup, [Next]_vars, pc' # "crashed", NEW n \in Visited', NEW w \in Wires,
           wires'[n][w] # Unbound, wire_to_arcs'[w] = {}
    PROVE  \/ /\ SetupNet(n)
              /\ pc' = "orphans" /\ work' = Orphans(n, wire_to_arcs') /\ UNCHANGED wires
           \/ /\ n \in Visited /\ wires'[n][w] = wires[n][w] /\ wire_to_arcs[w] = {}
              /\ pc # "crashed"
              /\ (pc = "orphans" /\ w \in work) => (pc' = "orphans" /\ w \in work')
<1> USE RouterAssumption
<1>0. n \in Nets
  BY DEF Visited
<1> DEFINE Before ==
      /\ n \in Visited /\ wires'[n][w] = wires[n][w] /\ wire_to_arcs[w] = {}
      /\ pc # "crashed"
      /\ (pc = "orphans" /\ w \in work) => (pc' = "orphans" /\ w \in work')
<1>1. ASSUME setup_nets' = setup_nets PROVE n \in Visited
  BY <1>1 DEF Visited
<1>2. CASE \E m \in Nets : SetupNet(m)
  <2>1. PICK m \in Nets : SetupNet(m)
    BY <1>2
  <2>2. UNCHANGED wires /\ pc = "setup" /\ pc' = "orphans" /\ work' = Orphans(m, wire_to_arcs')
    BY <2>1 DEF SetupNet, archVars
  <2>3. wire_to_arcs[w] = {} /\ Visited' = Visited \cup {m}
    BY <2>1, SetupAdopts
  <2>4. CASE n = m
    BY <2>1, <2>2, <2>4
  <2>5. CASE n # m
    BY <2>2, <2>3, <2>5
  <2> QED BY <2>4, <2>5
<1>3. CASE \E v \in work : OrphanStep(v)
  <2>1. PICK v \in work : OrphanStep(v)
    BY <1>3
  <2>2. FreesWire(v) /\ UNCHANGED <<wire_to_arcs, setup_nets, pc>> /\ pc = "orphans"
        /\ work' = work \ {v}
    BY <2>1 DEF OrphanStep
  <2>3. w # v /\ wires'[n][w] = wires[n][w]
    BY <1>0, <2>2 DEF FreesWire
  <2>4. Before
    BY <1>1, <2>2, <2>3
  <2> QED BY <2>4
<1>4. CASE \E v \in work : ReleaseStep(v)
  <2>1. PICK v \in work : ReleaseStep(v)
    BY <1>4
  <2>2. /\ v \in Wires /\ pc = "release" /\ arc \in Arcs /\ UNCHANGED setup_nets
        /\ wire_to_arcs'[w] = IF w = v THEN wire_to_arcs[v] \ {arc} ELSE wire_to_arcs[w]
        /\ (UNCHANGED wires /\ wire_to_arcs[v] # {arc}) \/ FreesWire(v)
    BY <2>1 DEF ReleaseStep, Basic, TypeOK
  <2>3. arc \in wire_to_arcs[v]
    BY <2>2 DEF Basic, MapsAgree
  <2>4. w # v
    BY <1>0, <2>2, <2>3 DEF FreesWire
  <2>5. wires'[n][w] = wires[n][w]
    BY <1>0, <2>2, <2>4 DEF FreesWire
  <2>6. Before
    BY <1>1, <2>2, <2>4, <2>5
  <2> QED BY <2>6
<1>5. CASE \E v \in Wires : RipStep(v)
  <2>1. PICK v \in Wires : RipStep(v)
    BY <1>5
  <2>2. wire_to_arcs'[w] = (IF w = v THEN {} ELSE wire_to_arcs[w]) /\ FreesWire(v)
        /\ pc \in {"bind", "ripup"} /\ UNCHANGED setup_nets
    BY <2>1 DEF RipStep
  <2>3. w # v /\ wires'[n][w] = wires[n][w]
    BY <1>0, <2>2 DEF FreesWire
  <2>4. Before
    BY <1>1, <2>2, <2>3
  <2> QED BY <2>4
<1>6. CASE \E h \in Hop : TakeStep(h)
  <2>1. PICK h \in Hop : TakeStep(h)
    BY <1>6
  <2>2. /\ wire_to_arcs'[w] = IF w = h.wire THEN wire_to_arcs[w] \cup {arc} ELSE wire_to_arcs[w]
        /\ h.wire \in Wires /\ pc \in {"release", "bind"} /\ UNCHANGED setup_nets
        /\ UNCHANGED wires \/ TakesWire(ArcNet[arc], h.wire, h.pip)
    BY <2>1 DEF TakeStep, Registered, Hop
  <2>3. w # h.wire
    BY <2>2
  <2>4. wires'[n][w] = wires[n][w]
    BY <1>0, <2>2, <2>3 DEF TakesWire
  <2>5. Before
    BY <1>1, <2>2, <2>3, <2>4
  <2> QED BY <2>5
<1>7. CASE (\E b \in Arcs : PopArc(b)) \/ FindPath
  <2>1. UNCHANGED <<wires, wire_to_arcs, setup_nets>> /\ pc \in {"idle", "release"}
    BY <1>7 DEF PopArc, FindPath, archVars
  <2>2. Before
    BY <1>1, <2>1
  <2> QED BY <2>2
<1>8. CASE QuietStep
  <2>1. /\ UNCHANGED <<wires, wire_to_arcs, setup_nets>> /\ pc # "crashed"
        /\ pc = "orphans" => UNCHANGED <<pc, work>> \/ work = {}
    BY <1>8 DEF QuietStep, TimingPass
  <2>2. Before
    BY <1>1, <2>1
  <2> QED BY <2>2
<1> QED BY <1>2, <1>3, <1>4, <1>5, <1>6, <1>7, <1>8, Steps

LEMMA StepKeepsUsed ==
    ASSUME Basic, Setup, Used, [Next]_vars PROVE Used'
<1> SUFFICES ASSUME pc' # "crashed", NEW n \in Visited', NEW w \in Wires,
                    wires'[n][w] # Unbound, wires'[n][w].strength < STRENGTH_LOCKED,
                    wire_to_arcs'[w] = {}
             PROVE  pc' = "orphans" /\ w \in work'
  BY DEF Used
<1>1. CASE /\ pc' = "orphans" /\ work' = Orphans(n, wire_to_arcs') /\ UNCHANGED wires
  BY <1>1 DEF Orphans
<1>2. CASE /\ n \in Visited /\ wires'[n][w] = wires[n][w] /\ wire_to_arcs[w] = {}
           /\ pc # "crashed"
           /\ (pc = "orphans" /\ w \in work) => (pc' = "orphans" /\ w \in work')
  BY <1>2 DEF Used
<1> QED BY <1>1, <1>2, UnusedBefore

LEMMA InitOwned == Init => Owned /\ Used
BY DEF Init, Owned, Used, Visited

\* What uses a wire of a net is an arc of this net.
LEMMA UsersAreOfTheNet ==
    ASSUME Basic, Setup, Owned, pc \notin {"release", "crashed"},
           NEW n \in Nets, NEW w \in Wires, wires[n][w] # Unbound, NEW a \in wire_to_arcs[w]
    PROVE  a \in ArcsOf(n) /\ w \in arc_to_wires[a]
<1>1. a \in Arcs /\ w \in arc_to_wires[a] /\ ArcNet[a] \in Nets
  BY RouterAssumption DEF Basic, TypeOK, MapsAgree
<1>2. ArcNet[a] = n
  <2>1. wires[ArcNet[a]][w] # Unbound
    BY DEF Owned
  <2>2. RecordedIsBound
    BY DEF Basic, Consistent
  <2>3. wire_to_net[w] = ArcNet[a] /\ wire_to_net[w] = n
    BY <1>1, <2>1, <2>2 DEF RecordedIsBound
  <2> QED BY <2>3
<1>3. a \in arcs
  BY <1>1 DEF Setup, ArcsLive, Live
<1> QED BY <1>1, <1>2, <1>3 DEF ArcsOf

\* The router's own consistency check holds whenever the code runs it, for every
\* design whose routing is driven to begin with.
THEOREM CheckAlwaysHolds ==
    ASSUME \A d \in Designs : Driven(d.routing)
    PROVE  Spec => []CheckHolds
<1>1. Init => Basic /\ Setup /\ Owned /\ Used
  BY InitBasic, InitSetup, InitOwned
<1>2. Basic /\ Setup /\ Owned /\ Used /\ [Next]_vars => (Basic /\ Setup /\ Owned /\ Used)'
  BY StepKeepsBasic, StepKeepsSetup, StepKeepsOwned, StepKeepsUsed
<1>3. Basic /\ Setup /\ Owned /\ Used => CheckHolds
  <2> SUFFICES ASSUME Basic, Setup, Owned, Used, Settled PROVE CheckHolds
    BY DEF CheckHolds
  <2>1. \A a \in Arcs, w \in Wires : w \in arc_to_wires[a] <=> a \in wire_to_arcs[w]
    BY DEF Settled, Basic, MapsAgree
  <2>2. \A a \in Arcs, w \in Wires : w \in arc_to_wires[a] => wires[ArcNet[a]][w] # Unbound
    BY <2>1 DEF Owned
  <2>3. ASSUME NEW n \in Nets \ Skipped, NEW w \in Wires, wires[n][w] # Unbound,
               wires[n][w].strength < STRENGTH_LOCKED
        PROVE  \E a \in ArcsOf(n) : w \in arc_to_wires[a]
    <3>1. n \in Visited /\ pc \notin {"crashed", "orphans"}
      BY DEF Settled, Setup, ArcsLive, Visited
    <3>2. PICK a \in wire_to_arcs[w] : TRUE
      BY <2>3, <3>1 DEF Used
    <3> QED BY <2>3, <3>2, UsersAreOfTheNet DEF Settled
  <2> QED BY <2>1, <2>2, <2>3 DEF CheckHolds
<1> QED BY <1>1, <1>2, <1>3, PTL DEF Spec

-----------------------------------------------------------------------------
(* Locked wires of other nets.  No step binds a wire more strongly than     *)
(* STRENGTH_WEAK, so what is clear of locks stays clear.                    *)

\* No other net has locked the wire, or a pip of the switch.
ClearWire(n, w) ==
    \A m \in Nets \ {n} :
        wires[m][w] # Unbound => wires[m][w].strength < STRENGTH_LOCKED

ClearSwitch(n, p) ==
    \A m \in Nets \ {n}, v \in Wires :
        (wires[m][v] # Unbound /\ wires[m][v].pip # NoPip /\ Switch[wires[m][v].pip] = Switch[p])
            => wires[m][v].strength < STRENGTH_LOCKED

\* The ends of a route that the searches do not test.
EndsClear ==
    \A a \in arcs : ArcNet[a] \notin Skipped =>
        /\ \A w \in Wires : RouteRoot(ArcNet[a], w) => ClearWire(ArcNet[a], w)
        /\ IsConst(ArcNet[a]) => ClearWire(ArcNet[a], ArcSink[a])

\* The wires that a net's pips come from.
PipsClear ==
    \A a \in arcs : ArcNet[a] \notin Skipped =>
        \A w \in Wires :
            (wires[ArcNet[a]][w] # Unbound /\ wires[ArcNet[a]][w].pip # NoPip)
                => ClearWire(ArcNet[a], PipSrc[wires[ArcNet[a]][w].pip])

\* All that is still to be bound.
PlanClear ==
    pc = "bind" =>
        \A h \in HopsOf(plan) :
            /\ ClearWire(ArcNet[arc], h.wire)
            /\ h.pip # NoPip => /\ ClearWire(ArcNet[arc], PipSrc[h.pip])
                                /\ ClearSwitch(ArcNet[arc], h.pip)

\* The sinks that a timing pass takes.
LateClear ==
    /\ pc = "timing" => queued_arcs = {}
    /\ pc = "ripup" =>
          \A w \in work, m \in Nets :
              wires[m][w] # Unbound => wires[m][w].strength < STRENGTH_LOCKED

Clear == EndsClear /\ PipsClear /\ PlanClear /\ LateClear

\* What is bound by a step is bound weakly.
LEMMA NoNewLocks ==
    ASSUME Basic, [Next]_vars, NEW m \in Nets, NEW v \in Wires, wires'[m][v] # Unbound
    PROVE  \/ wires'[m][v] = wires[m][v]
           \/ /\ wires'[m][v].strength < STRENGTH_LOCKED
              /\ pc \in {"release", "bind"}
              /\ \E h \in Hop : TakeStep(h) /\ v = h.wire /\ m = ArcNet[arc]
                                /\ wires'[m][v].pip = h.pip
<1>1. CASE \/ \E n \in Nets : SetupNet(n)
           \/ \E a \in Arcs : PopArc(a)
           \/ FindPath
           \/ QuietStep
  BY <1>1 DEF SetupNet, PopArc, FindPath, QuietStep, TimingPass, archVars
<1>2. CASE \/ \E w \in work : OrphanStep(w)
           \/ \E w \in work : ReleaseStep(w)
           \/ \E w \in Wires : RipStep(w)
  BY <1>2 DEF OrphanStep, ReleaseStep, RipStep, FreesWire
<1>3. CASE \E h \in Hop : TakeStep(h)
  <2>1. PICK h \in Hop : TakeStep(h)
    BY <1>3
  <2>2. UNCHANGED wires \/ TakesWire(ArcNet[arc], h.wire, h.pip)
    BY <2>1 DEF TakeStep
  <2>3. pc \in {"release", "bind"}
    BY <2>1 DEF TakeStep
  <2> QED BY <2>1, <2>2, <2>3 DEF TakesWire, STRENGTH_WEAK, STRENGTH_LOCKED
<1> QED BY <1>1, <1>2, <1>3, Steps

LEMMA ClearStays ==
    ASSUME Basic, [Next]_vars, NEW n \in Nets
    PROVE  /\ \A w \in Wires : ClearWire(n, w) => ClearWire(n, w)'
           /\ \A p \in Pips : ClearSwitch(n, p) => ClearSwitch(n, p)'
<1>1. ASSUME NEW m \in Nets, NEW v \in Wires, wires'[m][v] # Unbound
      PROVE  wires'[m][v] = wires[m][v] \/ wires'[m][v].strength < STRENGTH_LOCKED
  BY <1>1, NoNewLocks
<1>2. ASSUME NEW w \in Wires, ClearWire(n, w) PROVE ClearWire(n, w)'
  BY <1>1, <1>2 DEF ClearWire
<1>3. ASSUME NEW p \in Pips, ClearSwitch(n, p) PROVE ClearSwitch(n, p)'
  BY <1>1, <1>3 DEF ClearSwitch
<1> QED BY <1>2, <1>3

\* What the searches do test: a wire or switch that is not held strongly, or that
\* the net itself holds, is clear.
LEMMA TestedIsClear ==
    ASSUME Basic, NEW n \in Nets, NEW w \in Wires, ~HeldStrongly(w) \/ wires[n][w] # Unbound
    PROVE  ClearWire(n, w)
<1>1. RecordedIsBound
  BY DEF Basic, Consistent
<1> SUFFICES ASSUME NEW m \in Nets \ {n}, wires[m][w] # Unbound
             PROVE  wires[m][w].strength < STRENGTH_LOCKED
  BY DEF ClearWire
<1>2. wire_to_net[w] = m
  BY <1>1 DEF RecordedIsBound
<1>3. wires[n][w] = Unbound
  BY <1>1, <1>2 DEF RecordedIsBound
<1>4. wires[m][w].strength \in Nat
  <2>1. wires[m][w] \in PipMap
    BY DEF Basic, TypeOK, ArchTypeOK
  <2>2. wires[m][w].strength \in Strengths
    BY <2>1 DEF PipMap
  <2> QED BY <2>2, RouterAssumption
<1>5. ~HeldStrongly(w) /\ m # NoNet
  BY <1>3, RoutingAssumption
<1>6. ~(wires[m][w].strength > STRENGTH_STRONG)
  BY <1>2, <1>5 DEF HeldStrongly
<1> QED BY <1>4, <1>6 DEF STRENGTH_STRONG, STRENGTH_LOCKED

LEMMA ObtainableIsClear ==
    ASSUME Basic, NEW n \in Nets, NEW p \in Pips, PipObtainable(p) \/ Reuses(n, p)
    PROVE  ClearSwitch(n, p)
<1> USE RoutingAssumption
<1>1. RecordedIsBound /\ PipDrivesItsWire /\ OnePipPerSwitch /\ ArchTypeOK
  BY DEF Basic, Consistent, TypeOK
<1> SUFFICES ASSUME NEW m \in Nets \ {n}, NEW v \in Wires, wires[m][v] # Unbound,
                    wires[m][v].pip # NoPip, Switch[wires[m][v].pip] = Switch[p]
             PROVE  wires[m][v].strength < STRENGTH_LOCKED
  BY DEF ClearSwitch
<1> DEFINE q == wires[m][v].pip
<1>2. q \in Pips /\ pip_to_net[q] = m /\ PipDst[q] = v /\ m # NoNet
  BY <1>1 DEF RecordedIsBound, ArchTypeOK, PipMap
<1>3. switches_locked[Switch[p]] = v
  BY <1>1, <1>2 DEF PipDrivesItsWire
<1>4. ~Reuses(n, p)
  <2> SUFFICES ASSUME Reuses(n, p) PROVE FALSE
    OBVIOUS
  <2>1. pip_to_net[p] = n /\ n # NoNet
    BY <1>1 DEF Reuses, RecordedIsBound
  <2>2. p = q
    BY <1>1, <1>2, <2>1 DEF OnePipPerSwitch
  <2> QED BY <1>2, <2>1, <2>2
<1>5. ~HeldStrongly(v)
  BY <1>3, <1>4 DEF PipObtainable, checkPipAvail, getConflictingPipWire
<1> QED BY <1>5, TestedIsClear DEF ClearWire

\* The plan of a search passes only through wires and switches that are clear.
LEMMA PlanIsClear ==
    ASSUME Basic, Setup, EndsClear, PipsClear, FindPath, NEW h \in HopsOf(plan')
    PROVE  /\ ClearWire(ArcNet[arc], h.wire)
           /\ h.pip # NoPip => /\ ClearWire(ArcNet[arc], PipSrc[h.pip])
                               /\ ClearSwitch(ArcNet[arc], h.pip)
<1> USE RouterAssumption, RoutingAssumption
<1> DEFINE n == ArcNet[arc]
           d == ArcSink[arc]
<1>1. PICK path \in PathsFor(arc) :
         /\ LeadsTo(path, d)
         /\ HopsOf(plan') =
               {[wire |-> PipDst[path[i]], pip |-> path[i]] : i \in 1..Len(path)}
                  \cup {[wire |-> PipSrc[path[Len(path)]], pip |-> NoPip]}
  BY PlanMade DEF Basic
<1> DEFINE k == Len(path)
<1>2. /\ arc \in Arcs /\ n \in Nets /\ d \in Wires /\ k \in Nat \ {0}
      /\ \A i \in 1..k : /\ path[i] \in Pips /\ PipSrc[path[i]] \in Wires
                         /\ PipDst[path[i]] \in Wires
  BY <1>1 DEF FindPath, Basic, InHand, LeadsTo
<1>3. arc \in arcs /\ n \notin Skipped
  BY <1>2 DEF Setup, ArcsLive, Live, Visited
<1>4. /\ RouteRoot(n, PipSrc[path[k]])
      /\ \A i \in 1..k : IF IsConst(n) THEN ConstHopAllowed(n, path[i])
                         ELSE HopAllowed(n, path[i])
  BY <1>2, PathFound
<1>5. ClearWire(n, PipSrc[path[k]])
  BY <1>2, <1>3, <1>4 DEF EndsClear
<1>6. \A i \in 1..k : i = k \/ (i \in 1..(k - 1) /\ i + 1 \in 1..k)
  BY <1>2
<1>7. \A i \in 1..k : i = 1 \/ (i - 1 \in 1..(k - 1) /\ i - 1 \in 1..k /\ (i - 1) + 1 = i)
  BY <1>2
<1>8. PipDst[path[1]] = d /\ \A i \in 1..(k - 1) : PipDst[path[i + 1]] = PipSrc[path[i]]
  BY <1>1 DEF LeadsTo
<1>9. ASSUME NEW i \in 1..k PROVE ClearSwitch(n, path[i])
  <2>1. PipObtainable(path[i]) \/ Reuses(n, path[i])
    BY <1>4 DEF HopAllowed, ConstHopAllowed
  <2> QED BY <1>2, <2>1, ObtainableIsClear
<1>10. ASSUME NEW i \in 1..k PROVE ClearWire(n, PipSrc[path[i]]) /\ ClearWire(n, PipDst[path[i]])
  <2>1. CASE IsConst(n)
    <3>1. ASSUME NEW j \in 1..k PROVE ClearWire(n, PipSrc[path[j]])
      <4>1. CASE wires[n][PipDst[path[j]]] # Unbound
        <5>1. Reuses(n, path[j]) /\ path[j] # NoPip
          BY <1>2, <1>4, <2>1, <4>1 DEF ConstHopAllowed
        <5> QED BY <1>2, <1>3, <5>1 DEF PipsClear, Reuses
      <4>2. CASE wires[n][PipDst[path[j]]] = Unbound
        <5>1. ~HeldStrongly(PipSrc[path[j]])
          BY <1>4, <2>1, <4>2 DEF ConstHopAllowed
        <5> QED BY <1>2, <5>1, TestedIsClear
      <4> QED BY <4>1, <4>2
    <3>2. ClearWire(n, d)
      BY <1>3, <2>1 DEF EndsClear
    <3>3. CASE i = 1
      BY <1>8, <3>1, <3>2, <3>3
    <3>4. CASE i # 1
      <4>1. i - 1 \in 1..(k - 1) /\ i - 1 \in 1..k /\ (i - 1) + 1 = i
        BY <1>7, <3>4
      <4>2. PipDst[path[i]] = PipSrc[path[i - 1]]
        BY <1>8, <4>1
      <4> QED BY <3>1, <4>1, <4>2
    <3> QED BY <3>3, <3>4
  <2>2. CASE ~IsConst(n)
    <3>1. ASSUME NEW j \in 1..k PROVE ClearWire(n, PipDst[path[j]])
      <4>1. wires[n][PipDst[path[j]]] # Unbound \/ ~HeldStrongly(PipDst[path[j]])
        BY <1>4, <2>2 DEF HopAllowed, Reuses
      <4> QED BY <1>2, <4>1, TestedIsClear
    <3> QED BY <1>5, <1>6, <1>8, <3>1
  <2> QED BY <2>1, <2>2
<1>11. CASE h = [wire |-> PipSrc[path[k]], pip |-> NoPip]
  BY <1>5, <1>11
<1>12. CASE \E i \in 1..k : h = [wire |-> PipDst[path[i]], pip |-> path[i]]
  BY <1>9, <1>10, <1>12
<1> QED BY <1>1, <1>11, <1>12

\* The sinks of a timing pass are held by nets without any strong wire.
LEMMA LateIsClear ==
    ASSUME Basic, Setup, Owned, Leads, LateClear, TimingPass, NEW w \in work', NEW m \in Nets,
           wires'[m][w] # Unbound
    PROVE  wires'[m][w].strength < STRENGTH_LOCKED
<1> USE RouterAssumption
<1>1. PICK a \in arcs : /\ w = ArcSink[a] /\ ArcNet[a] \notin Skipped
                        /\ \A v \in Wires :
                              wires[ArcNet[a]][v] # Unbound =>
                                 wires[ArcNet[a]][v].strength <= STRENGTH_STRONG
  BY DEF TimingPass
<1>2. pc = "timing" /\ queued_arcs = {} /\ UNCHANGED wires /\ a \in Arcs /\ w \in Wires
      /\ ArcNet[a] \in Nets
  BY <1>1 DEF TimingPass, archVars, LateClear, Basic, TypeOK
<1>3. a \in Live /\ ~InFlight(a)
  BY <1>1, <1>2 DEF Setup, ArcsLive, Live, Visited, InFlight
<1>4. w \in arc_to_wires[a]
  BY <1>1, <1>2, <1>3 DEF Leads, RoutesLead, LeadsBack
<1>5. wires[ArcNet[a]][w] # Unbound
  BY <1>2, <1>4 DEF Owned, Basic, MapsAgree
<1>6. m = ArcNet[a]
  <2>1. RecordedIsBound
    BY DEF Basic, Consistent
  <2>2. wire_to_net[w] = m
    BY <1>2, <2>1 DEF RecordedIsBound
  <2>3. wire_to_net[w] = ArcNet[a]
    BY <1>2, <1>5, <2>1 DEF RecordedIsBound
  <2> QED BY <2>2, <2>3
<1>7. wires[m][w].strength \in Nat
  <2>1. wires[m][w] \in PipMap
    BY <1>2, <1>5, <1>6 DEF Basic, TypeOK, ArchTypeOK
  <2>2. wires[m][w].strength \in Strengths
    BY <2>1 DEF PipMap
  <2> QED BY <2>2
<1>8. wires[m][w].strength <= STRENGTH_STRONG
  BY <1>1, <1>2, <1>5, <1>6
<1> QED BY <1>2, <1>7, <1>8 DEF STRENGTH_STRONG, STRENGTH_LOCKED

LEMMA StepKeepsClear ==
    ASSUME Basic, Setup, Owned, Leads, Clear, [Next]_vars PROVE Clear'
<1> USE RouterAssumption
<1>0. /\ EndsClear /\ PipsClear /\ PlanClear /\ LateClear /\ arcs' = arcs /\ arcs \subseteq Arcs
      /\ \A a \in arcs : ArcNet[a] \in Nets /\ ArcSink[a] \in Wires
  <2>1. arcs' = arcs
    <3>1. CASE \/ \E m \in Nets : SetupNet(m)
               \/ \E a \in Arcs : PopArc(a)
               \/ FindPath
      BY <3>1 DEF SetupNet, PopArc, FindPath
    <3>2. CASE \/ \E w \in work : OrphanStep(w)
               \/ \E w \in work : ReleaseStep(w)
               \/ \E w \in Wires : RipStep(w)
               \/ \E h \in Hop : TakeStep(h)
               \/ QuietStep
      BY <3>2 DEF OrphanStep, ReleaseStep, RipStep, TakeStep, QuietStep
    <3> QED BY <3>1, <3>2, Steps
  <2> QED BY <2>1 DEF Clear, Basic, TypeOK
<1>1. EndsClear'
  <2> SUFFICES ASSUME NEW a \in arcs, ArcNet[a] \notin Skipped
               PROVE  /\ \A w \in Wires : RouteRoot(ArcNet[a], w) => ClearWire(ArcNet[a], w)'
                      /\ IsConst(ArcNet[a]) => ClearWire(ArcNet[a], ArcSink[a])'
    BY <1>0 DEF EndsClear, RouteRoot, IsConst
  <2> QED BY <1>0, ClearStays DEF EndsClear
<1>2. PipsClear'
  <2> SUFFICES ASSUME NEW a \in arcs, ArcNet[a] \notin Skipped, NEW w \in Wires,
                      wires'[ArcNet[a]][w] # Unbound,
                      NEW p, p = wires'[ArcNet[a]][w].pip, p # NoPip
               PROVE  ClearWire(ArcNet[a], PipSrc[p])'
    BY <1>0 DEF PipsClear
  <2> DEFINE n == ArcNet[a]
  <2>0. p \in Pips /\ PipSrc[p] \in Wires /\ n \in Nets
    <3>1. Basic'
      BY StepKeepsBasic
    <3>2. wires'[n][w] \in PipMap
      BY <1>0, <3>1 DEF Basic, TypeOK, ArchTypeOK
    <3>3. p \in Pips
      BY <3>2 DEF PipMap
    <3> QED BY <1>0, <3>3
  <2>1. CASE wires'[n][w] = wires[n][w]
    <3>1. ClearWire(n, PipSrc[p])
      BY <1>0, <2>1 DEF PipsClear
    <3> QED BY <2>0, <3>1, ClearStays
  <2>2. CASE \E h \in Hop : /\ TakeStep(h) /\ w = h.wire /\ n = ArcNet[arc]
                            /\ wires'[n][w].pip = h.pip
    <3>1. PICK h \in Hop : /\ TakeStep(h) /\ w = h.wire /\ n = ArcNet[arc]
                           /\ p = h.pip
      BY <2>2
    <3>2. pc = "bind" /\ h = Head(plan)
      BY <3>1 DEF TakeStep
    <3>3. plan \in Seq(Hop) /\ plan # <<>>
      BY <3>2 DEF Basic, TypeOK, InHand
    <3>4. h \in HopsOf(plan)
      BY <3>2, <3>3, PlanSplits
    <3>5. ClearWire(n, PipSrc[p])
      BY <1>0, <3>1, <3>2, <3>4 DEF PlanClear
    <3> QED BY <2>0, <3>5, ClearStays
  <2> QED BY <1>0, <2>1, <2>2, NoNewLocks
<1>3. PlanClear'
  <2> SUFFICES ASSUME pc' = "bind", NEW h \in HopsOf(plan'), NEW n, n = ArcNet[arc']
               PROVE  /\ ClearWire(n, h.wire)'
                      /\ h.pip # NoPip => ClearWire(n, PipSrc[h.pip])' /\ ClearSwitch(n, h.pip)'
    BY DEF PlanClear
  <2>0. Basic'
    BY StepKeepsBasic
  <2>1. arc' = arc /\ arc \in Arcs /\ n = ArcNet[arc] /\ n \in Nets
    <3>1. arc' = arc
      <4>1. CASE \/ \E m \in Nets : SetupNet(m)
                 \/ \E a \in Arcs : PopArc(a)
        BY <4>1 DEF SetupNet, PopArc
      <4>2. CASE \/ \E w \in work : OrphanStep(w)
                 \/ \E w \in work : ReleaseStep(w)
                 \/ \E w \in Wires : RipStep(w)
                 \/ \E k \in Hop : TakeStep(k)
                 \/ FindPath
                 \/ QuietStep
        BY <4>2 DEF OrphanStep, ReleaseStep, RipStep, TakeStep, FindPath, QuietStep
      <4> QED BY <4>1, <4>2, Steps
    <3>2. arc' \in Arcs
      BY <2>0 DEF Basic, InHand
    <3> QED BY <3>1, <3>2
  <2>2. h.wire \in Wires /\ (h.pip # NoPip => h.pip \in Pips /\ PipSrc[h.pip] \in Wires)
    <3>1. plan' \in Seq(Hop) /\ plan' # <<>>
      BY <2>0 DEF Basic, TypeOK, InHand
    <3>2. h \in Hop
      BY <3>1, PlanSplits
    <3> QED BY <3>2 DEF Hop
  <2>3. /\ ClearWire(n, h.wire)
        /\ h.pip # NoPip => ClearWire(n, PipSrc[h.pip]) /\ ClearSwitch(n, h.pip)
    <3>1. CASE pc = "bind" /\ HopsOf(plan') \subseteq HopsOf(plan)
      BY <1>0, <2>1, <3>1 DEF PlanClear
    <3>2. CASE \E k \in Hop : TakeStep(k)
      <4>1. pc = "bind" /\ plan' = Tail(plan)
        BY <3>2 DEF TakeStep
      <4>2. plan \in Seq(Hop) /\ plan # <<>>
        BY <4>1 DEF Basic, TypeOK, InHand
      <4>3. HopsOf(plan') \subseteq HopsOf(plan)
        BY <4>1, <4>2, PlanSplits
      <4> QED BY <3>1, <4>1, <4>3
    <3>3. CASE FindPath
      BY <1>0, <2>1, <3>3, PlanIsClear
    <3>4. CASE \/ \E m \in Nets : SetupNet(m)
               \/ \E w \in work : OrphanStep(w)
               \/ \E a \in Arcs : PopArc(a)
               \/ \E w \in work : ReleaseStep(w)
               \/ \E w \in Wires : RipStep(w)
               \/ QuietStep
      <4>1. pc = "bind" /\ plan' = plan
        BY <3>4 DEF SetupNet, OrphanStep, PopArc, ReleaseStep, RipStep, QuietStep, TimingPass
      <4> QED BY <3>1, <4>1
    <3> QED BY <3>2, <3>3, <3>4, Steps
  <2> QED BY <2>1, <2>2, <2>3, ClearStays
<1>4. LateClear'
  <2>1. pc' = "timing" => queued_arcs' = {}
    <3>1. CASE \E h \in Hop : TakeStep(h)
      BY <3>1 DEF TakeStep
    <3>2. CASE \/ \E m \in Nets : SetupNet(m)
               \/ \E w \in work : OrphanStep(w)
               \/ \E a \in Arcs : PopArc(a)
               \/ \E w \in work : ReleaseStep(w)
               \/ \E w \in Wires : RipStep(w)
               \/ FindPath
      BY <3>2 DEF SetupNet, OrphanStep, PopArc, ReleaseStep, RipStep, FindPath
    <3>3. CASE QuietStep
      BY <1>0, <3>3 DEF QuietStep, TimingPass, LateClear
    <3> QED BY <3>1, <3>2, <3>3, Steps
  <2>2. ASSUME pc' = "ripup", NEW w \in work', NEW m \in Nets, wires'[m][w] # Unbound
        PROVE  wires'[m][w].strength < STRENGTH_LOCKED
    <3>1. CASE pc = "ripup" /\ work' \subseteq work
      <4>1. w \in Wires
        BY <3>1 DEF Basic, TypeOK
      <4>2. wires'[m][w] = wires[m][w] \/ wires'[m][w].strength < STRENGTH_LOCKED
        BY <2>2, <4>1, NoNewLocks
      <4> QED BY <1>0, <2>2, <3>1, <4>2 DEF LateClear
    <3>2. CASE TimingPass
      BY <1>0, <2>2, <3>2, LateIsClear
    <3>3. CASE \/ \E n \in Nets : SetupNet(n)
               \/ \E v \in work : OrphanStep(v)
               \/ \E a \in Arcs : PopArc(a)
               \/ \E v \in work : ReleaseStep(v)
               \/ \E v \in Wires : RipStep(v)
               \/ \E h \in Hop : TakeStep(h)
               \/ FindPath
      BY <2>2, <3>1, <3>3 DEF SetupNet, OrphanStep, PopArc, ReleaseStep, RipStep, TakeStep, FindPath
    <3>4. CASE QuietStep
      BY <2>2, <3>1, <3>2, <3>4 DEF QuietStep
    <3> QED BY <3>2, <3>3, <3>4, Steps
  <2> QED BY <2>1, <2>2 DEF LateClear
<1> QED BY <1>1, <1>2, <1>3, <1>4 DEF Clear

LEMMA InitClear ==
    ASSUME \A d \in Designs : LocksKeepClear(d), Init PROVE Clear
<1> USE RouterAssumption
<1>1. PICK d \in Designs : arcs = d.arcs /\ wires = d.routing
  BY DEF Init
<1>2. d.routing \in [Nets -> [Wires -> PipMap \cup {Unbound}]] /\ d.arcs \subseteq Arcs
  OBVIOUS
<1>3. ASSUME NEW n \in Nets, NEW m \in Nets \ {n}, NEW w \in Wires, wires[m][w] # Unbound
      PROVE  wires[m][w].strength < STRENGTH_LOCKED \/ wires[m][w].strength >= STRENGTH_LOCKED
  <2>1. wires[m][w] \in PipMap
    BY <1>1, <1>2, <1>3
  <2>2. wires[m][w].strength \in Strengths
    BY <2>1 DEF PipMap
  <2>3. wires[m][w].strength \in Nat
    BY <2>2
  <2> HIDE RouterAssumption
  <2> QED BY <2>3 DEF STRENGTH_LOCKED
<1>4. ASSUME NEW a \in arcs, ArcNet[a] \notin Skipped, NEW w \in Wires, ~ClearWire(ArcNet[a], w)
      PROVE  /\ ~RouteRoot(ArcNet[a], w)
             /\ IsConst(ArcNet[a]) => ArcSink[a] # w
             /\ \A v \in Wires :
                   (wires[ArcNet[a]][v] # Unbound /\ wires[ArcNet[a]][v].pip # NoPip)
                      => PipSrc[wires[ArcNet[a]][v].pip] # w
  <2> DEFINE n == ArcNet[a]
  <2>1. n \in Nets /\ n \in {ArcNet[b] : b \in d.arcs} \ Skipped
    BY <1>1, <1>2, <1>4
  <2>2. PICK m \in Nets \ {n} : wires[m][w] # Unbound /\ ~(wires[m][w].strength < STRENGTH_LOCKED)
    BY <1>4 DEF ClearWire
  <2>3. wires[m][w].strength >= STRENGTH_LOCKED
    BY <1>3, <2>1, <2>2
  <2>4. LocksKeepClear(d)
    OBVIOUS
  <2> HIDE DEF n
  <2>5. /\ ~RouteRoot(n, w)
        /\ IsConst(n) => \A b \in d.arcs : ArcNet[b] = n => ArcSink[b] # w
        /\ \A v \in Wires : (d.routing[n][v] # Unbound /\ d.routing[n][v].pip # NoPip)
                               => PipSrc[d.routing[n][v].pip] # w
    BY <1>1, <2>1, <2>2, <2>3, <2>4 DEF LocksKeepClear
  <2> QED BY <1>1, <2>5 DEF n
<1>5. EndsClear
  BY <1>1, <1>2, <1>4 DEF EndsClear
<1>6. PipsClear
  <2> SUFFICES ASSUME NEW a \in arcs, ArcNet[a] \notin Skipped, NEW v \in Wires,
                      wires[ArcNet[a]][v] # Unbound, wires[ArcNet[a]][v].pip # NoPip
               PROVE  ClearWire(ArcNet[a], PipSrc[wires[ArcNet[a]][v].pip])
    BY DEF PipsClear
  <2>1. wires[ArcNet[a]][v].pip \in Pips
    <3>1. wires[ArcNet[a]][v] \in PipMap
      BY <1>1, <1>2
    <3> QED BY <3>1 DEF PipMap
  <2>2. PipSrc[wires[ArcNet[a]][v].pip] \in Wires
    BY <2>1
  <2> QED BY <1>4, <2>2
<1>7. PlanClear /\ LateClear
  BY DEF Init, PlanClear, LateClear
<1> QED BY <1>5, <1>6, <1>7 DEF Clear

\* Only the arc in hand loses locked wires.
LEMMA LocksStay ==
    ASSUME Basic, Setup, Owned, Leads, Clear, [Next]_vars,
           NEW n \in Nets, NEW w \in Wires, wires[n][w] # Unbound,
           wires[n][w].strength >= STRENGTH_LOCKED, arc # NoArc => ArcNet[arc] # n
    PROVE  wires'[n][w] = wires[n][w]
<1> USE RouterAssumption
<1>0. /\ \A m \in Nets : wires[m][w] # Unbound => m = n
      /\ ~(wires[n][w].strength < STRENGTH_LOCKED)
  <2>1. RecordedIsBound
    BY DEF Basic, Consistent
  <2>2. wires[n][w] \in PipMap
    BY DEF Basic, TypeOK, ArchTypeOK
  <2>3. wires[n][w].strength \in Nat
    <3>1. wires[n][w].strength \in Strengths
      BY <2>2 DEF PipMap
    <3> QED BY <3>1
  <2>4. ~(wires[n][w].strength < STRENGTH_LOCKED)
    <3> HIDE RouterAssumption
    <3> QED BY <2>3 DEF STRENGTH_LOCKED
  <2>5. ASSUME NEW m \in Nets, wires[m][w] # Unbound PROVE m = n
    <3>1. wire_to_net[w] = n
      BY <2>1 DEF RecordedIsBound
    <3>2. wire_to_net[w] = m
      BY <2>1, <2>5 DEF RecordedIsBound
    <3> QED BY <3>1, <3>2
  <2> QED BY <2>4, <2>5
<1>1. CASE \E v \in work : OrphanStep(v)
  <2>1. PICK v \in work : OrphanStep(v)
    BY <1>1
  <2>2. v # w
    BY <1>0, <2>1 DEF OrphanStep, Setup, OrphansUnused, Visited
  <2> QED BY <2>1, <2>2 DEF OrphanStep, FreesWire
<1>2. CASE \E v \in work : ReleaseStep(v)
  <2>1. PICK v \in work : ReleaseStep(v)
    BY <1>2
  <2>2. /\ pc = "release" /\ arc \in Arcs /\ v \in Wires /\ ArcNet[arc] # n
        /\ UNCHANGED wires \/ (FreesWire(v) /\ wire_to_arcs[v] = {arc})
    BY <2>1 DEF ReleaseStep, Basic, TypeOK
  <2>3. wire_to_arcs[v] = {arc} => v # w
    BY <1>0, <2>2 DEF Owned
  <2> QED BY <2>2, <2>3 DEF FreesWire
<1>3. CASE \E v \in Wires : RipStep(v)
  <2>1. PICK v \in Wires : RipStep(v)
    BY <1>3
  <2>2. v # w
    <3> SUFFICES ASSUME v = w PROVE FALSE
      OBVIOUS
    <3>1. CASE pc = "ripup"
      BY <1>0, <2>1, <3>1 DEF RipStep, Clear, LateClear
    <3>2. CASE pc = "bind"
      <4> DEFINE h == Head(plan)
      <4>1. arc \in Arcs /\ ArcNet[arc] \in Nets /\ n \in Nets \ {ArcNet[arc]}
            /\ plan \in Seq(Hop) /\ plan # <<>>
        BY <3>2 DEF Basic, InHand, TypeOK
      <4>2. h \in HopsOf(plan)
        BY <4>1, PlanSplits
      <4>3. CASE w = h.wire
        BY <1>0, <3>2, <4>1, <4>2, <4>3 DEF Clear, PlanClear, ClearWire
      <4>4. CASE h.pip \in Pips /\ w = getConflictingPipWire(h.pip)
        <5>1. switches_locked[Switch[h.pip]] = w /\ w # NoWire
          BY <4>4, RoutingAssumption DEF getConflictingPipWire
        <5>2. PICK q \in Pips : Switch[q] = Switch[h.pip] /\ pip_to_net[q] # NoNet
          BY <4>4, <5>1, RoutingAssumption DEF Basic, Consistent, LockedSwitchIsUsed
        <5>3. /\ wires[pip_to_net[q]][PipDst[q]] # Unbound /\ wires[pip_to_net[q]][PipDst[q]].pip = q
              /\ PipDst[q] = w /\ pip_to_net[q] \in Nets
          BY <5>1, <5>2 DEF Basic, Consistent, PipDrivesItsWire, TypeOK, ArchTypeOK
        <5>4. wires[n][w].pip = q /\ q # NoPip
          BY <1>0, <5>3, RoutingAssumption
        <5>5. ClearSwitch(ArcNet[arc], h.pip)
          BY <3>2, <4>2, <4>4, RoutingAssumption DEF Clear, PlanClear
        <5> QED BY <1>0, <4>1, <5>2, <5>4, <5>5 DEF ClearSwitch
      <4> QED BY <2>1, <3>2, <4>3, <4>4 DEF RipStep
    <3> QED BY <2>1, <3>1, <3>2 DEF RipStep
  <2> QED BY <2>1, <2>2 DEF RipStep, FreesWire
<1>4. CASE \E h \in Hop : TakeStep(h)
  <2>1. PICK h \in Hop : UNCHANGED wires \/ TakesWire(ArcNet[arc], h.wire, h.pip)
    BY <1>4 DEF TakeStep
  <2> QED BY <2>1 DEF TakesWire
<1>5. CASE \/ \E m \in Nets : SetupNet(m)
           \/ \E a \in Arcs : PopArc(a)
           \/ FindPath
           \/ QuietStep
  BY <1>5 DEF SetupNet, PopArc, FindPath, QuietStep, TimingPass, archVars
<1> QED BY <1>1, <1>2, <1>3, <1>4, <1>5, Steps

\* Routing one net never takes a locked wire from another, whatever is ripped up,
\* if the locked routing keeps clear of the wires the searches do not test.
THEOREM LockedWiresStay ==
    ASSUME \A d \in Designs : /\ NoLoop(d.routing) /\ Driven(d.routing)
                              /\ LocksKeepClear(d)
    PROVE  Spec => LockedWiresOfOthersStay
<1> DEFINE IInv == Basic /\ Setup /\ Owned /\ Leads /\ Clear
<1>1. Init => IInv
  <2>1. Init => Leads
    BY DEF Init, Leads, RoutesLead, PlanLeads, Live, Visited
  <2> QED BY <2>1, InitBasic, InitSetup, InitOwned, InitClear
<1>2. IInv /\ [Next]_vars => IInv'
  <2> SUFFICES ASSUME Basic, Setup, Owned, Leads, Clear, [Next]_vars
               PROVE  Basic' /\ Setup' /\ Owned' /\ Leads' /\ Clear'
    OBVIOUS
  <2>1. Basic' /\ Setup' /\ Owned'
    BY StepKeepsBasic, StepKeepsSetup, StepKeepsOwned
  <2>2. Leads'
    BY StepKeepsRoutesLead, StepKeepsPlanLeads DEF Leads
  <2> QED BY <2>1, <2>2, StepKeepsClear
<1>3. IInv /\ [Next]_vars =>
         [\A n \in Nets, w \in Wires :
            (/\ wires[n][w] # Unbound
             /\ wires[n][w].strength >= STRENGTH_LOCKED
             /\ arc # NoArc => ArcNet[arc] # n) => wires'[n][w] = wires[n][w]]_vars
  BY LocksStay
<1> QED BY <1>1, <1>2, <1>3, PTL DEF Spec, LockedWiresOfOthersStay

-----------------------------------------------------------------------------
(* No assertion fails.                                                      *)

\* Two nets that setup has let pass have no sink in common.
SinksApart ==
    \A a, b \in Live : ArcSink[a] = ArcSink[b] => ArcNet[a] = ArcNet[b]

\* The arcs that need no path.
TrivialArcs == {a \in arcs : ArcNet[a] \notin Skipped /\ RouteRoot(ArcNet[a], ArcSink[a])}

TrivialSinksFree ==
    \A a \in TrivialArcs : \A m \in Nets \ {ArcNet[a]} : wires[m][ArcSink[a]] = Unbound

\* No net can go on from the sink of another net's arc that needs no path.
PipsApart ==
    \A a \in TrivialArcs, b \in arcs, p \in Pips :
        (ArcNet[b] \notin Skipped /\ ArcNet[b] # ArcNet[a] /\ p \in Allowed[ArcNet[b]])
            => PipSrc[p] # ArcSink[a]

\* No hop goes there, or uses a pip that the placement rules out.
PlanGoesAround ==
    pc = "bind" =>
        \A h \in HopsOf(plan) :
            /\ h.pip \notin HardUnavail
            /\ \A a \in TrivialArcs : ArcNet[a] # ArcNet[arc] => h.wire # ArcSink[a]

Asserted ==
    /\ SinksApart /\ TrivialSinksFree /\ PipsApart /\ PlanGoesAround
    /\ PipsUsable(wires)
    /\ pc # "crashed"

LEMMA ArcsFixed == ASSUME Basic, [Next]_vars PROVE arcs' = arcs
<1>1. CASE \/ \E m \in Nets : SetupNet(m)
           \/ \E a \in Arcs : PopArc(a)
           \/ FindPath
  BY <1>1 DEF SetupNet, PopArc, FindPath
<1>2. CASE \/ \E w \in work : OrphanStep(w)
           \/ \E w \in work : ReleaseStep(w)
           \/ \E w \in Wires : RipStep(w)
           \/ \E h \in Hop : TakeStep(h)
           \/ QuietStep
  BY <1>2 DEF OrphanStep, ReleaseStep, RipStep, TakeStep, QuietStep
<1> QED BY <1>1, <1>2, Steps

LEMMA StepKeepsSinksApart ==
    ASSUME Basic, Setup, SinksApart, [Next]_vars PROVE SinksApart'
<1>1. arcs' = arcs
  BY ArcsFixed
<1>2. CASE \E n \in Nets : SetupNet(n)
  <2>1. PICK n \in Nets : SetupNet(n)
    BY <1>2
  <2>2. n \notin Visited /\ Visited' = Visited \cup {n} /\ ~Rejected(n)
    BY <2>1, SetupAdopts DEF SetupNet
  <2>3. \A a, b \in arcs : ArcNet[a] = n /\ ArcNet[b] \in Visited => ArcSink[a] # ArcSink[b]
    BY <2>2 DEF Rejected, Sinks, ArcsOf
  <2>4. Live' = Live \cup {a \in arcs : ArcNet[a] = n}
    BY <1>1, <2>2 DEF Live
  <2>5. \A a, b \in Live' : ArcSink[a] = ArcSink[b] => ArcNet[a] = ArcNet[b]
    BY <2>3, <2>4 DEF SinksApart, Live
  <2> QED BY <2>5 DEF SinksApart
<1>3. CASE UNCHANGED setup_nets
  BY <1>1, <1>3 DEF SinksApart, Live, Visited
<1>4. CASE \/ \E a \in Arcs : PopArc(a)
           \/ FindPath
           \/ \E w \in work : OrphanStep(w)
           \/ \E w \in work : ReleaseStep(w)
           \/ \E w \in Wires : RipStep(w)
           \/ \E h \in Hop : TakeStep(h)
           \/ QuietStep
  BY <1>3, <1>4 DEF PopArc, FindPath, OrphanStep, ReleaseStep, RipStep, TakeStep, QuietStep
<1> QED BY <1>2, <1>4, Steps

LEMMA PlanAvoids ==
    ASSUME Basic, Setup, Asserted, FindPath, NEW h \in HopsOf(plan')
    PROVE  /\ h.pip \notin HardUnavail
           /\ \A a \in TrivialArcs : ArcNet[a] # ArcNet[arc] => h.wire # ArcSink[a]
<1> USE RouterAssumption, RoutingAssumption
<1> DEFINE n == ArcNet[arc]
           d == ArcSink[arc]
<1>1. PICK path \in PathsFor(arc) :
         /\ LeadsTo(path, d)
         /\ HopsOf(plan') =
               {[wire |-> PipDst[path[i]], pip |-> path[i]] : i \in 1..Len(path)}
                  \cup {[wire |-> PipSrc[path[Len(path)]], pip |-> NoPip]}
  BY PlanMade DEF Basic
<1> DEFINE k == Len(path)
<1>2. /\ arc \in Arcs /\ n \in Nets /\ d \in Wires /\ k \in Nat \ {0}
      /\ \A i \in 1..k : /\ path[i] \in Pips /\ PipSrc[path[i]] \in Wires
                         /\ PipDst[path[i]] \in Wires
  BY <1>1 DEF FindPath, Basic, InHand, LeadsTo
<1>3. arc \in Live /\ arc \in arcs /\ n \notin Skipped /\ setup_nets = {}
  BY <1>2 DEF FindPath, Setup, ArcsLive, Live, Visited
<1>4. \A i \in 1..k : /\ path[i] \in Allowed[n]
                      /\ Reuses(n, path[i]) \/ PipObtainable(path[i])
  BY <1>2, PathFound DEF HopAllowed, ConstHopAllowed
<1>5. ASSUME NEW i \in 1..k PROVE path[i] \notin HardUnavail
  <2>1. CASE Reuses(n, path[i])
    BY <1>2, <2>1 DEF Asserted, PipsUsable, Reuses
  <2>2. CASE PipObtainable(path[i])
    BY <2>2 DEF PipObtainable, checkPipAvail, getConflictingPipWire
  <2> QED BY <1>4, <2>1, <2>2
<1>6. ASSUME NEW a \in TrivialArcs, ArcNet[a] # n
      PROVE  /\ d # ArcSink[a]
             /\ \A i \in 1..k : PipSrc[path[i]] # ArcSink[a]
             /\ \A i \in 1..k : PipDst[path[i]] # ArcSink[a]
  <2>1. a \in Live
    BY <1>3 DEF TrivialArcs, Live, Visited, Basic, TypeOK
  <2>2. d # ArcSink[a]
    BY <1>3, <1>6, <2>1 DEF Asserted, SinksApart
  <2>3. \A i \in 1..k : PipSrc[path[i]] # ArcSink[a]
    BY <1>2, <1>3, <1>4, <1>6 DEF Asserted, PipsApart
  <2>4. ASSUME NEW i \in 1..k PROVE PipDst[path[i]] # ArcSink[a]
    <3>1. CASE i = 1
      BY <1>1, <2>2, <3>1 DEF LeadsTo
    <3>2. CASE i # 1
      <4>1. i - 1 \in 1..(k - 1) /\ i - 1 \in 1..k /\ (i - 1) + 1 = i
        BY <1>2, <3>2
      <4>2. PipDst[path[i]] = PipSrc[path[i - 1]]
        BY <1>1, <4>1 DEF LeadsTo
      <4> QED BY <2>3, <4>1, <4>2
    <3> QED BY <3>1, <3>2
  <2> QED BY <2>2, <2>3, <2>4
<1>7. k \in 1..k /\ NoPip \notin HardUnavail
  BY <1>2
<1>8. CASE h = [wire |-> PipSrc[path[k]], pip |-> NoPip]
  BY <1>6, <1>7, <1>8
<1>9. CASE \E i \in 1..k : h = [wire |-> PipDst[path[i]], pip |-> path[i]]
  BY <1>5, <1>6, <1>9
<1> QED BY <1>1, <1>8, <1>9

LEMMA StepKeepsTrivialSinksFree ==
    ASSUME Basic, Setup, Asserted, [Next]_vars PROVE TrivialSinksFree'
<1> USE RouterAssumption
<1> SUFFICES ASSUME NEW a \in TrivialArcs, NEW m \in Nets \ {ArcNet[a]},
                    wires'[m][ArcSink[a]] # Unbound
             PROVE  FALSE
  <2>1. TrivialArcs' = TrivialArcs
    BY ArcsFixed DEF TrivialArcs, RouteRoot, IsConst
  <2> QED BY <2>1 DEF TrivialSinksFree
<1>1. /\ a \in arcs /\ a \in Arcs /\ ArcNet[a] \in Nets /\ ArcSink[a] \in Wires
      /\ wires[m][ArcSink[a]] = Unbound
  BY DEF Asserted, TrivialSinksFree, TrivialArcs, Basic, TypeOK
<1>2. PICK h \in Hop : TakeStep(h) /\ ArcSink[a] = h.wire /\ m = ArcNet[arc]
  BY <1>1, NoNewLocks
<1>3. CASE pc = "release"
  <2>1. arc \in Live /\ a \in Live /\ ArcSink[arc] = ArcSink[a]
    BY <1>1, <1>2, <1>3 DEF TakeStep, Setup, ArcsLive, Live, Visited, TrivialArcs
  <2> QED BY <1>2, <2>1 DEF Asserted, SinksApart
<1>4. CASE pc = "bind"
  <2>1. h = Head(plan) /\ plan \in Seq(Hop) /\ plan # <<>>
    BY <1>2, <1>4 DEF TakeStep, Basic, TypeOK, InHand
  <2>2. h \in HopsOf(plan)
    BY <2>1, PlanSplits
  <2> QED BY <1>2, <1>4, <2>2 DEF Asserted, PlanGoesAround
<1> QED BY <1>2, <1>3, <1>4 DEF TakeStep

LEMMA StepKeepsPipsUsable ==
    ASSUME Basic, Asserted, [Next]_vars PROVE PipsUsable(wires')
<1> USE RoutingAssumption
<1> SUFFICES ASSUME NEW n \in Nets, NEW w \in Wires, wires'[n][w] # Unbound,
                    wires'[n][w].pip \in HardUnavail
             PROVE  FALSE
  BY DEF PipsUsable
<1>1. wires'[n][w] # wires[n][w]
  BY DEF Asserted, PipsUsable
<1>2. PICK h \in Hop : TakeStep(h) /\ wires'[n][w].pip = h.pip
  BY <1>1, NoNewLocks
<1>3. CASE pc = "release"
  BY <1>2, <1>3 DEF TakeStep
<1>4. CASE pc = "bind"
  <2>1. h = Head(plan) /\ plan \in Seq(Hop) /\ plan # <<>>
    BY <1>2, <1>4 DEF TakeStep, Basic, TypeOK, InHand
  <2>2. h \in HopsOf(plan)
    BY <2>1, PlanSplits
  <2> QED BY <1>2, <1>4, <2>2 DEF Asserted, PlanGoesAround
<1> QED BY <1>2, <1>3, <1>4 DEF TakeStep

LEMMA StepKeepsPlanGoesAround ==
    ASSUME Basic, Setup, Asserted, [Next]_vars PROVE PlanGoesAround'
<1>1. TrivialArcs' = TrivialArcs
  BY ArcsFixed DEF TrivialArcs, RouteRoot, IsConst
<1> SUFFICES ASSUME pc' = "bind", NEW h \in HopsOf(plan')
             PROVE  /\ h.pip \notin HardUnavail
                    /\ \A a \in TrivialArcs : ArcNet[a] # ArcNet[arc'] => h.wire # ArcSink[a]
  BY <1>1 DEF PlanGoesAround
<1>2. CASE FindPath
  BY <1>2, PlanAvoids DEF FindPath
<1>3. CASE pc = "bind" /\ arc' = arc /\ HopsOf(plan') \subseteq HopsOf(plan)
  BY <1>3 DEF Asserted, PlanGoesAround
<1>4. CASE \E k \in Hop : TakeStep(k)
  <2>1. pc = "bind" /\ plan' = Tail(plan) /\ arc' = arc
    BY <1>4 DEF TakeStep
  <2>2. plan \in Seq(Hop) /\ plan # <<>>
    BY <2>1 DEF Basic, TypeOK, InHand
  <2>3. HopsOf(plan') \subseteq HopsOf(plan)
    BY <2>1, <2>2, PlanSplits
  <2> QED BY <1>3, <2>1, <2>3
<1>5. CASE \/ \E m \in Nets : SetupNet(m)
           \/ \E w \in work : OrphanStep(w)
           \/ \E a \in Arcs : PopArc(a)
           \/ \E w \in work : ReleaseStep(w)
           \/ \E w \in Wires : RipStep(w)
           \/ QuietStep
  <2>1. pc = "bind" /\ plan' = plan /\ arc' = arc
    BY <1>5 DEF SetupNet, OrphanStep, PopArc, ReleaseStep, RipStep, QuietStep, TimingPass
  <2> QED BY <1>3, <2>1
<1> QED BY <1>2, <1>4, <1>5, Steps

\* The four places where an assertion could fail.
LEMMA NoStepCrashes ==
    ASSUME \A d \in Designs : Driven(d.routing), Basic, Setup, Owned, Asserted, [Next]_vars
    PROVE  pc' # "crashed"
<1> USE RouterAssumption, RoutingAssumption
<1> SUFFICES ASSUME pc' = "crashed" PROVE FALSE
  OBVIOUS
<1>0. pc # "crashed" /\ RecordedIsBound /\ BoundIsRecorded /\ ArchTypeOK
  BY DEF Asserted, Basic, Consistent, TypeOK
<1>1. ASSUME NEW n \in Nets, SetupNet(n) PROVE FALSE
  <2>1. PICK a \in Found(n) : \E w \in Walk(n, ArcSink[a]) :
           ~AtSource(n, w) /\ wires[n][w] # Unbound /\ wires[n][w].pip = NoPip
    BY <1>1 DEF SetupNet, MeetsBareWire
  <2>2. PICK w \in Walk(n, ArcSink[a]) :
           ~AtSource(n, w) /\ wires[n][w] # Unbound /\ wires[n][w].pip = NoPip
    BY <2>1
  <2>3. n \in setup_nets /\ n \notin Skipped /\ ArcSink[a] \in Wires
    BY <1>1, SetupAdopts DEF Setup, ArcsLive, Found, ArcsOf, Basic, TypeOK
  <2>4. w \in Wires
    BY <1>0, <2>2, <2>3, WalkTypes
  <2>5. PICK d \in Designs : wires[n] = d.routing[n]
    BY <2>3 DEF Setup, SetupUntouched
  <2>6. d.routing[n][w] # Unbound => AtSource(n, w) \/ d.routing[n][w].pip # NoPip
    BY <2>3, <2>4 DEF Driven
  <2> QED BY <2>2, <2>5, <2>6
<1>2. ASSUME NEW w \in Wires, ReleaseWire(w) PROVE FALSE
  <2>1. wire_to_arcs[w] = {arc} /\ wire_to_net[w] = NoNet
    BY <1>0, <1>2 DEF ReleaseWire, checkWireAvail
  <2>2. wires[ArcNet[arc]][w] # Unbound
    BY <2>1 DEF Owned
  <2>3. ArcNet[arc] \in Nets
    BY <1>2 DEF ReleaseWire, Basic, InHand
  <2>4. wire_to_net[w] = ArcNet[arc]
    BY <1>0, <2>2, <2>3 DEF RecordedIsBound
  <2> QED BY <2>1, <2>3, <2>4
<1>3. ASSUME RouteTrivialArc PROVE FALSE
  <2> DEFINE n == ArcNet[arc]
             b == wire_to_net[ArcSink[arc]]
  <2>1. /\ pc = "release" /\ arc \in Arcs /\ RouteRoot(n, ArcSink[arc]) /\ b \notin {n, NoNet}
    BY <1>0, <1>3 DEF RouteTrivialArc, AfterArc, Basic, InHand
  <2>2. b \in Nets \ {n} /\ wires[b][ArcSink[arc]] # Unbound
    BY <1>0, <2>1 DEF ArchTypeOK, BoundIsRecorded
  <2>3. arc \in TrivialArcs
    BY <2>1 DEF Setup, ArcsLive, Live, Visited, TrivialArcs
  <2> QED BY <2>2, <2>3 DEF Asserted, TrivialSinksFree
<1>4. ASSUME RipupPip PROVE FALSE
  <2> DEFINE h == Head(plan)
  <2>1. pc = "bind" /\ ~checkPipAvail(h.pip) /\ getConflictingPipWire(h.pip) = NoWire
    BY <1>0, <1>4 DEF RipupPip
  <2>2. h.pip \in HardUnavail
    BY <2>1 DEF checkPipAvail, getConflictingPipWire
  <2>3. plan \in Seq(Hop) /\ plan # <<>>
    BY <2>1 DEF Basic, TypeOK, InHand
  <2>4. h \in HopsOf(plan)
    BY <2>3, PlanSplits
  <2> QED BY <2>1, <2>2, <2>4 DEF Asserted, PlanGoesAround
<1>5. CASE \/ \E n \in Nets : SetupRejects(n)
           \/ UnbindOrphan \/ SetupNetDone
           \/ \E a \in Arcs : PopArc(a)
           \/ FindPath \/ NoPath \/ RipupWire \/ KeepHop \/ BindHop
           \/ TimingPass
           \/ \E w \in Wires : RipupLateSink(w)
           \/ TimingPassDone \/ Finish \/ Returned \/ UNCHANGED vars
  BY <1>0, <1>5 DEF SetupRejects, UnbindOrphan, SetupNetDone, PopArc, FindPath, NoPath,
     RipupWire, KeepHop, BindHop, NextHop, AfterArc, TimingPass, RipupLateSink,
     TimingPassDone, Finish, Returned, vars
<1> QED BY <1>1, <1>2, <1>3, <1>4, <1>5 DEF Next

LEMMA StepKeepsAsserted ==
    ASSUME \A d \in Designs : Driven(d.routing), Basic, Setup, Owned, Asserted, [Next]_vars
    PROVE  Asserted'
<1>1. SinksApart' /\ TrivialSinksFree' /\ PlanGoesAround' /\ PipsUsable(wires)' /\ pc' # "crashed"
  <2>1. PipsUsable(wires)'
    BY StepKeepsPipsUsable DEF PipsUsable
  <2> QED BY <2>1, StepKeepsSinksApart, StepKeepsTrivialSinksFree, StepKeepsPlanGoesAround,
             NoStepCrashes DEF Asserted
<1>2. PipsApart'
  <2>1. TrivialArcs' = TrivialArcs /\ arcs' = arcs
    BY ArcsFixed DEF TrivialArcs, RouteRoot, IsConst
  <2> QED BY <2>1 DEF Asserted, PipsApart
<1> QED BY <1>1, <1>2 DEF Asserted

LEMMA InitAsserted ==
    ASSUME \A d \in Designs : PipsUsable(d.routing) /\ TrivialSinksApart(d), Init
    PROVE  Asserted
<1> USE RouterAssumption
<1>1. PICK d \in Designs : arcs = d.arcs /\ wires = d.routing
  BY DEF Init
<1>2. TrivialSinksFree
  BY <1>1 DEF TrivialSinksFree, TrivialArcs, TrivialSinksApart
<1>3. PipsApart
  <2> SUFFICES ASSUME NEW a \in TrivialArcs, NEW b \in arcs, NEW p \in Pips,
                      ArcNet[b] \notin Skipped, ArcNet[b] # ArcNet[a], p \in Allowed[ArcNet[b]]
               PROVE  PipSrc[p] # ArcSink[a]
    BY DEF PipsApart
  <2>1. ArcNet[b] \in {ArcNet[c] : c \in d.arcs} \ (Skipped \cup {ArcNet[a]})
    BY <1>1
  <2>2. a \in d.arcs /\ ArcNet[a] \notin Skipped /\ RouteRoot(ArcNet[a], ArcSink[a])
    BY <1>1 DEF TrivialArcs
  <2> QED BY <2>1, <2>2 DEF TrivialSinksApart
<1>4. SinksApart /\ PlanGoesAround /\ pc # "crashed" /\ PipsUsable(wires)
  BY <1>1 DEF Init, SinksApart, Live, Visited, PlanGoesAround
<1> QED BY <1>2, <1>3, <1>4 DEF Asserted

\* No assertion of setup(), route_arc() or route_const_arc() fails, nor the one
\* unbindWire() makes of the wires they release, for designs whose routing is
\* driven, uses only pips that can be used and keeps away from the sinks that need
\* no path.
THEOREM AssertionsNeverFail ==
    ASSUME \A d \in Designs : /\ Driven(d.routing) /\ PipsUsable(d.routing)
                              /\ TrivialSinksApart(d)
    PROVE  Spec => []NoAssertionFails
<1> DEFINE IInv == Basic /\ Setup /\ Owned /\ Asserted
<1>1. Init => IInv
  BY InitBasic, InitSetup, InitOwned, InitAsserted
<1>2. IInv /\ [Next]_vars => IInv'
  BY StepKeepsBasic, StepKeepsSetup, StepKeepsOwned, StepKeepsAsserted
<1>3. IInv => NoAssertionFails
  BY DEF Asserted, NoAssertionFails
<1> QED BY <1>1, <1>2, <1>3, PTL DEF Spec

-----------------------------------------------------------------------------
(* A finished run leaves a legal design.  Beyond what has been shown, each   *)
(* wire of a routed arc must lead on to its sink, no wire may be held for    *)
(* nothing, and no wires may drive one another in a circle.                  *)

\* A wire of the net drives w on to one of a set of wires.
Feeds(n, w, W) ==
    \E v \in W : /\ wires[n][v] # Unbound /\ wires[n][v].pip # NoPip
                 /\ PipSrc[wires[n][v].pip] = w

RoutesServe ==
    pc # "crashed" =>
        \A a \in Live \ queued_arcs :
            ~InFlight(a) => \A w \in arc_to_wires[a] :
                               w = ArcSink[a] \/ Feeds(ArcNet[a], w, arc_to_wires[a])

PlanServes ==
    (pc = "bind" /\ arc \notin queued_arcs) =>
        \A w \in WiresToBe :
            \/ w = ArcSink[arc]
            \/ Feeds(ArcNet[arc], w, arc_to_wires[arc])
            \/ \E h \in HopsOf(plan) : h.pip # NoPip /\ PipSrc[h.pip] = w

Serves == RoutesServe /\ PlanServes

\* Wires stay fed as long as the net keeps the wires they feed.
LEMMA FeedsStays ==
    ASSUME NEW n \in Nets, NEW w, NEW W, NEW V, W \subseteq V, Feeds(n, w, W),
           \A v \in W : wires[n][v] # Unbound => wires'[n][v] = wires[n][v]
    PROVE  Feeds(n, w, V)'
BY DEF Feeds

\* Setup adopts the wires on the way back from a sink, and no others.
LEMMA WalkServes ==
    ASSUME NEW n \in Nets, NEW d \in Wires, ArchTypeOK, NEW w \in Walk(n, d)
    PROVE  w = d \/ Feeds(n, w, Walk(n, d))
<1> DEFINE S == {u \in Walk(n, d) : u = d \/ Feeds(n, u, Walk(n, d))}
<1>1. S \subseteq {d} \cup Drivers(n) /\ d \in S
  BY WalkGoesOn DEF Walk
<1>2. ASSUME NEW u \in S PROVE WalkEnds(n, u) \/ PipSrc[wires[n][u].pip] \in S
  <2>1. ~WalkEnds(n, u) => PipSrc[wires[n][u].pip] \in Walk(n, d)
    BY WalkGoesOn
  <2> QED BY <2>1 DEF Feeds, WalkEnds
<1>3. w \in S
  BY <1>1, <1>2 DEF Walk
<1> QED BY <1>3

LEMMA StepKeepsRoutesServe ==
    ASSUME Basic, Setup, Serves, [Next]_vars PROVE RoutesServe'
<1> USE RouterAssumption
<1> SUFFICES ASSUME pc' # "crashed", NEW a \in (Live \ queued_arcs)', ~InFlight(a)',
                    NEW w \in arc_to_wires'[a], w # ArcSink[a]
             PROVE  Feeds(ArcNet[a], w, arc_to_wires[a])'
  BY DEF RoutesServe, Feeds
<1>0. a \in Arcs /\ ArcNet[a] \in Nets /\ arc_to_wires[a] \subseteq Wires
  BY RouteCases DEF Basic, TypeOK
<1>1. CASE /\ pc # "crashed" /\ a \in Live \ queued_arcs /\ ~InFlight(a)
           /\ arc_to_wires'[a] = arc_to_wires[a]
           /\ \A v \in arc_to_wires[a] : wires'[ArcNet[a]][v] = wires[ArcNet[a]][v]
                                         \/ wires[ArcNet[a]][v] = Unbound
  <2>1. Feeds(ArcNet[a], w, arc_to_wires[a])
    BY <1>1 DEF Serves, RoutesServe
  <2> QED BY <1>0, <1>1, <2>1, FeedsStays
<1>2. CASE \E n \in Nets : /\ SetupNet(n) /\ ~MeetsBareWire(n)
                           /\ a \in Found(n) /\ a \notin Broken(n)
  <2>1. PICK n \in Nets : SetupNet(n) /\ a \in Found(n)
    BY <1>2
  <2>2. ArcNet[a] = n /\ arc_to_wires'[a] = Walk(n, ArcSink[a]) /\ UNCHANGED wires
        /\ ArcSink[a] \in Wires /\ ArchTypeOK
    BY <1>0, <2>1, SetupAdopts DEF SetupNet, archVars, Basic, TypeOK
  <2>3. Feeds(n, w, Walk(n, ArcSink[a]))
    BY <2>2, WalkServes
  <2> QED BY <2>2, <2>3 DEF Feeds
<1>3. CASE /\ a = arc /\ arc \in Arcs
           /\ \E h \in Hop : /\ TakeStep(h)
                             /\ pc = "bind" => Len(plan) = 1 /\ arc \notin queued_arcs
  <2>1. PICK h \in Hop : TakeStep(h) /\ (pc = "bind" => Len(plan) = 1 /\ arc \notin queued_arcs)
    BY <1>3
  <2>2. CASE pc = "release"
    <3>1. h.wire = ArcSink[a] /\ arc_to_wires'[a] = {h.wire}
      BY <1>3, <2>1, <2>2 DEF TakeStep, Registered, Basic, Phases
    <3> QED BY <3>1
  <2>3. CASE pc = "bind"
    <3>1. HopsOf(plan) = {h} /\ arc_to_wires'[a] = WiresToBe /\ h.wire \in Wires
      BY <1>3, <2>1, <2>3, LastHop
    <3>2. \/ Feeds(ArcNet[a], w, arc_to_wires[a])
          \/ h.pip # NoPip /\ PipSrc[h.pip] = w
      BY <1>3, <2>1, <2>3, <3>1 DEF Serves, PlanServes
    <3>3. arc_to_wires[a] \subseteq arc_to_wires'[a] /\ h.wire \in arc_to_wires'[a]
      BY <1>3, <3>1 DEF WiresToBe
    <3>4. CASE Feeds(ArcNet[a], w, arc_to_wires[a])
      <4>1. \A v \in arc_to_wires[a] : wires[ArcNet[a]][v] # Unbound
                                          => wires'[ArcNet[a]][v] = wires[ArcNet[a]][v]
        BY <1>0, <2>1, HopDone
      <4> QED BY <1>0, <3>3, <3>4, <4>1, FeedsStays
    <3>5. CASE h.pip # NoPip /\ PipSrc[h.pip] = w
      BY <1>3, <2>1, <3>3, <3>5, HopDone DEF Feeds
    <3> QED BY <3>2, <3>4, <3>5
  <2> QED BY <2>1, <2>2, <2>3 DEF TakeStep
<1> QED BY <1>1, <1>2, <1>3, RouteCases

LEMMA StepKeepsPlanServes ==
    ASSUME Basic, Setup, Serves, [Next]_vars PROVE PlanServes'
<1> USE RouterAssumption
<1> SUFFICES ASSUME pc' = "bind", arc' \notin queued_arcs', NEW w \in WiresToBe'
             PROVE  \/ w = ArcSink[arc']
                    \/ Feeds(ArcNet[arc], w, arc_to_wires[arc])'
                    \/ \E h \in HopsOf(plan') : h.pip # NoPip /\ PipSrc[h.pip] = w
  BY DEF PlanServes, Feeds
<1>1. CASE FindPath
  <2>1. PICK path \in PathsFor(arc) :
           /\ LeadsTo(path, ArcSink[arc])
           /\ HopsOf(plan') =
                 {[wire |-> PipDst[path[i]], pip |-> path[i]] : i \in 1..Len(path)}
                    \cup {[wire |-> PipSrc[path[Len(path)]], pip |-> NoPip]}
    BY <1>1, PlanMade DEF Basic
  <2> DEFINE k == Len(path)
             hop(i) == [wire |-> PipDst[path[i]], pip |-> path[i]]
  <2>2. /\ arc \in Arcs /\ arc' = arc /\ arc_to_wires'[arc'] = {} /\ k \in Nat \ {0}
        /\ \A i \in 1..k : path[i] \in Pips
    BY <1>1, <2>1 DEF FindPath, Basic, InHand, Phases, LeadsTo
  <2>3. ASSUME NEW i \in 1..k, w = PipSrc[path[i]]
        PROVE  \E h \in HopsOf(plan') : h.pip # NoPip /\ PipSrc[h.pip] = w
    <3>1. hop(i) \in HopsOf(plan') /\ hop(i).pip = path[i]
      BY <2>1
    <3>2. path[i] # NoPip
      BY <2>2, RoutingAssumption
    <3> QED BY <2>3, <3>1, <3>2
  <2>4. PICK h \in HopsOf(plan') : w = h.wire
    BY <2>2 DEF WiresToBe
  <2>5. CASE h = [wire |-> PipSrc[path[k]], pip |-> NoPip]
    <3>1. k \in 1..k /\ w = PipSrc[path[k]]
      BY <2>2, <2>4, <2>5
    <3> QED BY <2>3, <3>1
  <2>6. CASE \E i \in 1..k : h = hop(i)
    <3>1. PICK i \in 1..k : w = PipDst[path[i]]
      BY <2>4, <2>6
    <3>2. CASE i = 1
      BY <2>1, <2>2, <3>1, <3>2 DEF LeadsTo
    <3>3. CASE i # 1
      <4>1. i - 1 \in 1..(k - 1) /\ i - 1 \in 1..k /\ (i - 1) + 1 = i
        BY <2>2, <3>3
      <4>2. w = PipSrc[path[i - 1]]
        BY <2>1, <3>1, <4>1 DEF LeadsTo
      <4> QED BY <2>3, <4>1, <4>2
    <3> QED BY <3>2, <3>3
  <2> QED BY <2>1, <2>4, <2>5, <2>6
<1>2. CASE \E h \in Hop : TakeStep(h)
  <2>1. PICK h \in Hop : TakeStep(h)
    BY <1>2
  <2> DEFINE n == ArcNet[arc]
  <2>2. /\ pc = "bind" /\ h = Head(plan) /\ plan' = Tail(plan)
        /\ arc \in Arcs /\ n \in Nets /\ h.wire \in Wires
        /\ UNCHANGED <<queued_arcs, arc>> /\ Registered(arc, h.wire)
        /\ plan \in Seq(Hop) /\ plan # <<>> /\ arc_to_wires[arc] \subseteq Wires
    BY <2>1 DEF TakeStep, Hop, Basic, TypeOK, InHand
  <2>3. HopsOf(plan) = {h} \cup HopsOf(plan')
    BY <2>2, PlanSplits
  <2>4. arc_to_wires'[arc] = arc_to_wires[arc] \cup {h.wire}
    BY <2>2 DEF Registered
  <2>5. WiresToBe' = WiresToBe
    <3>1. {k.wire : k \in HopsOf(plan)} = {h.wire} \cup {k.wire : k \in HopsOf(plan')}
      BY <2>3
    <3> QED BY <2>2, <2>4, <3>1 DEF WiresToBe
  <2>6. \/ w = ArcSink[arc]
        \/ Feeds(n, w, arc_to_wires[arc])
        \/ \E k \in HopsOf(plan) : k.pip # NoPip /\ PipSrc[k.pip] = w
    BY <2>2, <2>5 DEF Serves, PlanServes
  <2>7. CASE Feeds(n, w, arc_to_wires[arc])
    <3>1. \A v \in arc_to_wires[arc] : wires[n][v] # Unbound => wires'[n][v] = wires[n][v]
      BY <2>1, <2>2, HopDone
    <3>2. arc_to_wires[arc] \subseteq arc_to_wires'[arc]
      BY <2>4
    <3>3. \E v \in arc_to_wires[arc] : /\ wires'[n][v] # Unbound /\ wires'[n][v].pip # NoPip
                                        /\ PipSrc[wires'[n][v].pip] = w
      BY <2>7, <3>1 DEF Feeds
    <3> QED BY <2>2, <3>2, <3>3 DEF Feeds
  <2>8. CASE h.pip # NoPip /\ PipSrc[h.pip] = w
    <3>1. wires'[n][h.wire] # Unbound /\ wires'[n][h.wire].pip = h.pip
      BY <2>1, <2>8, HopDone
    <3>2. h.wire \in arc_to_wires'[arc]
      BY <2>4
    <3> QED BY <2>2, <2>8, <3>1, <3>2 DEF Feeds
  <2>9. CASE \E k \in HopsOf(plan') : k.pip # NoPip /\ PipSrc[k.pip] = w
    BY <2>9
  <2> QED BY <2>2, <2>3, <2>6, <2>7, <2>8, <2>9
<1>3. CASE \E v \in Wires : RipStep(v)
  <2>1. PICK v \in Wires : RipStep(v)
    BY <1>3
  <2>2. /\ pc = "bind" /\ UNCHANGED <<arc, plan>> /\ FreesWire(v) /\ arc \in Arcs
        /\ arc \notin queued_arcs /\ arc \notin wire_to_arcs[v]
        /\ arc_to_wires'[arc] = arc_to_wires[arc] \ {v}
    BY <2>1 DEF RipStep, Basic, InHand
  <2>3. v \notin arc_to_wires[arc] /\ arc_to_wires[arc] \subseteq Wires /\ ArcNet[arc] \in Nets
    BY <2>1, <2>2 DEF Basic, MapsAgree, TypeOK
  <2>4. arc_to_wires'[arc] = arc_to_wires[arc] /\ WiresToBe' = WiresToBe
    BY <2>2, <2>3 DEF WiresToBe
  <2>5. \A u \in arc_to_wires[arc] : wires'[ArcNet[arc]][u] = wires[ArcNet[arc]][u]
    BY <2>2, <2>3 DEF FreesWire
  <2>6. PlanServes
    BY DEF Serves
  <2> QED BY <2>2, <2>4, <2>5, <2>6 DEF PlanServes, Feeds
<1>4. CASE \/ \E n \in Nets : SetupNet(n)
           \/ \E v \in work : OrphanStep(v)
           \/ \E a \in Arcs : PopArc(a)
           \/ \E v \in work : ReleaseStep(v)
  BY <1>4 DEF SetupNet, OrphanStep, PopArc, ReleaseStep
<1>5. CASE QuietStep
  <2>1. pc = "bind" /\ UNCHANGED <<wires, queued_arcs, arc_to_wires, arc, plan>>
    BY <1>5 DEF QuietStep, TimingPass
  <2>2. PlanServes
    BY DEF Serves
  <2> QED BY <2>1, <2>2 DEF PlanServes, Feeds, WiresToBe
<1> QED BY <1>1, <1>2, <1>3, <1>4, <1>5, Steps

\* A path starts where its net starts, and nowhere else: the plan has no pip for
\* the first wire of the path, and a pip for every other.
PlanStarts ==
    pc = "bind" => \A h \in HopsOf(plan) : h.pip = NoPip <=> AtSource(ArcNet[arc], h.wire)

\* The pips that a net drives a wire by, when the plan is carried out.
NextPips(n, w) ==
    IF pc = "bind" /\ n = ArcNet[arc] /\ w \in {h.wire : h \in HopsOf(plan)}
    THEN {h.pip : h \in {k \in HopsOf(plan) : k.wire = w}}
    ELSE IF wires[n][w] = Unbound THEN {NoPip} ELSE {wires[n][w].pip}

Loop(n, W) == \A w \in W : \E p \in NextPips(n, w) : p # NoPip /\ PipSrc[p] \in W

NoLoops ==
    pc # "crashed" => \A n \in Nets, W \in (SUBSET Wires) \ {{}} : ~Loop(n, W)

Started == SourcesBare(wires) /\ PlanStarts /\ NoLoops

\* What is left of a net that setup has been through serves an arc, locked or not.
LocksUsed ==
    pc # "crashed" =>
        \A n \in Visited, w \in Wires :
            (wires[n][w] # Unbound /\ wires[n][w].strength >= STRENGTH_LOCKED)
                => wire_to_arcs[w] # {}

VisitedStart == \A n \in Visited : IsConst(n) \/ SourceWire[n] # NoWire

DoneIsEmpty == pc = "done" => queued_arcs = {}

Finished == Serves /\ Started /\ LocksUsed /\ VisitedStart /\ DoneIsEmpty /\ SkippedBare(wires)

LEMMA StepKeepsSkippedBare ==
    ASSUME Basic, Setup, SkippedBare(wires), [Next]_vars PROVE SkippedBare(wires')
<1> USE RouterAssumption
<1> SUFFICES ASSUME NEW n \in Skipped, NEW w \in Wires, wires'[n][w] # Unbound PROVE FALSE
  BY DEF SkippedBare
<1>1. n \in Nets /\ wires'[n][w] # wires[n][w]
  BY DEF SkippedBare
<1>2. PICK h \in Hop : TakeStep(h) /\ n = ArcNet[arc]
  BY <1>1, NoNewLocks
<1>3. arc \in Live
  BY <1>2 DEF TakeStep, Setup, ArcsLive
<1> QED BY <1>2, <1>3 DEF Live, Visited

LEMMA StepKeepsVisitedStart ==
    ASSUME Basic, Setup, VisitedStart, [Next]_vars PROVE VisitedStart'
<1>1. CASE \E n \in Nets : SetupNet(n)
  <2>1. PICK n \in Nets : SetupNet(n)
    BY <1>1
  <2>2. Visited' = Visited \cup {n} /\ ~Rejected(n)
    BY <2>1, SetupAdopts DEF SetupNet
  <2> QED BY <2>2 DEF VisitedStart, Rejected, IsConst
<1>2. CASE UNCHANGED setup_nets
  BY <1>2 DEF VisitedStart, Visited, IsConst
<1>3. CASE \/ \E a \in Arcs : PopArc(a)
           \/ FindPath
           \/ \E w \in work : OrphanStep(w)
           \/ \E w \in work : ReleaseStep(w)
           \/ \E w \in Wires : RipStep(w)
           \/ \E h \in Hop : TakeStep(h)
           \/ QuietStep
  BY <1>2, <1>3 DEF PopArc, FindPath, OrphanStep, ReleaseStep, RipStep, TakeStep, QuietStep
<1> QED BY <1>1, <1>3, Steps

LEMMA StepKeepsDoneIsEmpty ==
    ASSUME Basic, DoneIsEmpty, [Next]_vars PROVE DoneIsEmpty'
<1>1. CASE \/ \E n \in Nets : SetupNet(n)
           \/ \E a \in Arcs : PopArc(a)
           \/ FindPath
           \/ \E w \in work : OrphanStep(w)
           \/ \E w \in work : ReleaseStep(w)
           \/ \E w \in Wires : RipStep(w)
           \/ \E h \in Hop : TakeStep(h)
  BY <1>1 DEF SetupNet, PopArc, FindPath, OrphanStep, ReleaseStep, RipStep, TakeStep, DoneIsEmpty
<1>2. CASE QuietStep
  BY <1>2 DEF QuietStep, TimingPass, DoneIsEmpty
<1> QED BY <1>1, <1>2, Steps

LEMMA StepKeepsLocksUsed ==
    ASSUME \A d \in Designs : LocksServe(d), Basic, Setup, LocksUsed, [Next]_vars
    PROVE  LocksUsed'
<1> USE RouterAssumption
<1> SUFFICES ASSUME pc' # "crashed", NEW n \in Visited', NEW w \in Wires,
                    wires'[n][w] # Unbound, wires'[n][w].strength >= STRENGTH_LOCKED,
                    wire_to_arcs'[w] = {}
             PROVE  FALSE
  BY DEF LocksUsed
<1>1. CASE SetupNet(n) /\ UNCHANGED wires
  <2>1. /\ n \in Nets /\ n \in setup_nets /\ n \notin Skipped
        /\ ArcsOf(n) = {a \in arcs : ArcNet[a] = n} /\ ArcsOf(n) \subseteq Arcs
    BY <1>1, SetupAdopts DEF Setup, ArcsLive, Visited
  <2>2. PICK d \in Designs : arcs = d.arcs /\ wires[n] = d.routing[n]
    BY <2>1 DEF Setup, SetupUntouched
  <2> DEFINE S == UNION {Walk(n, ArcSink[a]) : a \in Found(n)}
  <2>3. ASSUME NEW a \in Found(n)
        PROVE  /\ a \in Arcs /\ ArcSink[a] \in Wires
               /\ Walk(n, ArcSink[a]) \subseteq Wires /\ ArcSink[a] \in Walk(n, ArcSink[a])
    <3>1. a \in Arcs /\ ArcSink[a] \in Wires /\ ArchTypeOK
      BY <2>1 DEF Found, Basic, TypeOK
    <3> QED BY <2>1, <3>1, WalkTypes, WalkGoesOn
  <2>4. S \in SUBSET Wires
    BY <2>3
  <2>5. \A a \in d.arcs : (ArcNet[a] = n /\ d.routing[n][ArcSink[a]] # Unbound) => ArcSink[a] \in S
    <3> SUFFICES ASSUME NEW a \in d.arcs, ArcNet[a] = n, d.routing[n][ArcSink[a]] # Unbound
                 PROVE  ArcSink[a] \in S
      OBVIOUS
    <3>1. a \in Found(n)
      BY <2>1, <2>2 DEF Found
    <3> QED BY <2>3, <3>1
  <2>6. ASSUME NEW u \in S
        PROVE  \/ AtSource(n, u) \/ d.routing[n][u] = Unbound \/ d.routing[n][u].pip = NoPip
               \/ PipSrc[d.routing[n][u].pip] \in S
    <3>1. PICK a \in Found(n) : u \in Walk(n, ArcSink[a])
      OBVIOUS
    <3>2. ~WalkEnds(n, u) => PipSrc[wires[n][u].pip] \in Walk(n, ArcSink[a])
      BY <2>1, <2>3, <3>1, WalkGoesOn DEF Basic, TypeOK
    <3> QED BY <2>2, <3>1, <3>2 DEF WalkEnds
  <2> HIDE DEF S
  <2>7. w \in S
    <3>1. LocksServe(d)
      OBVIOUS
    <3> HIDE RouterAssumption
    <3> QED BY <1>1, <2>1, <2>2, <2>4, <2>5, <2>6, <3>1 DEF LocksServe
  <2>8. PICK a \in Found(n) : w \in Walk(n, ArcSink[a])
    BY <2>7 DEF S
  <2> QED BY <1>1, <2>1, <2>8, SetupAdopts
<1>2. CASE /\ n \in Visited /\ wires'[n][w] = wires[n][w] /\ wire_to_arcs[w] = {}
           /\ pc # "crashed"
  BY <1>2 DEF LocksUsed
<1> QED BY <1>1, <1>2, UnusedBefore

-----------------------------------------------------------------------------
(* Where nets start.                                                         *)

\* A search passes no wire where the net may start on its way.
LEMMA PathStarts ==
    ASSUME Basic, ConstantsEnd, NEW path \in PathsFor(arc), arc \in Arcs,
           LeadsTo(path, ArcSink[arc]), ~RouteRoot(ArcNet[arc], ArcSink[arc])
    PROVE  /\ AtSource(ArcNet[arc], PipSrc[path[Len(path)]])
           /\ \A i \in 1..Len(path) : ~AtSource(ArcNet[arc], PipDst[path[i]])
<1> USE RouterAssumption
<1> DEFINE n == ArcNet[arc]
           k == Len(path)
<1>1. /\ k \in Nat \ {0} /\ n \in Nets
      /\ \A i \in 1..k : path[i] \in Pips /\ PipDst[path[i]] \in Wires /\ PipSrc[path[i]] \in Wires
  BY RoutingAssumption DEF LeadsTo
<1>2. /\ path \in AllPathsBack[ArcSink[arc]] /\ RouteRoot(n, PipSrc[path[k]])
      /\ IsConst(n) \/ \A i \in 1..(k - 1) : ~RouteRoot(n, PipSrc[path[i]])
      /\ \A i \in 1..k : IF IsConst(n) THEN ConstHopAllowed(n, path[i])
                         ELSE HopAllowed(n, path[i])
  BY DEF PathsFor
<1>3. \A i \in 1..k : path[i] \in Allowed[n]
  BY <1>2 DEF ConstHopAllowed, HopAllowed
<1>4. \A i \in 1..(k - 1) : ~RouteRoot(n, PipSrc[path[i]])
  BY <1>2, <1>3 DEF ConstantsEnd
<1>5. \A v \in Wires : AtSource(n, v) => RouteRoot(n, v)
  BY RoutingAssumption DEF AtSource, RouteRoot, ConstantsEnd
<1>6. ASSUME NEW i \in 1..k PROVE ~AtSource(n, PipDst[path[i]])
  <2>1. CASE i = 1
    BY <1>1, <1>5, <2>1 DEF LeadsTo
  <2>2. CASE i # 1
    <3>1. i - 1 \in 1..(k - 1) /\ (i - 1) + 1 = i /\ i - 1 \in 1..k
      BY <1>1, <2>2
    <3>2. PipDst[path[i]] = PipSrc[path[i - 1]]
      BY <3>1 DEF LeadsTo
    <3> QED BY <1>1, <1>4, <1>5, <3>1, <3>2
  <2> QED BY <2>1, <2>2
<1> QED BY <1>2, <1>6, RootIsSource

LEMMA StepKeepsPlanStarts ==
    ASSUME ConstantsEnd, Basic, PlanStarts, [Next]_vars PROVE PlanStarts'
<1> USE RouterAssumption
<1> SUFFICES ASSUME pc' = "bind", NEW h \in HopsOf(plan')
             PROVE  h.pip = NoPip <=> AtSource(ArcNet[arc'], h.wire)
  BY DEF PlanStarts, AtSource, IsConst
<1>1. CASE FindPath
  <2>1. PICK path \in PathsFor(arc) :
           /\ LeadsTo(path, ArcSink[arc])
           /\ HopsOf(plan') =
                 {[wire |-> PipDst[path[i]], pip |-> path[i]] : i \in 1..Len(path)}
                    \cup {[wire |-> PipSrc[path[Len(path)]], pip |-> NoPip]}
    BY <1>1, PlanMade DEF Basic
  <2>2. arc \in Arcs /\ arc' = arc /\ ~RouteRoot(ArcNet[arc], ArcSink[arc])
        /\ \A i \in 1..Len(path) : path[i] # NoPip
    BY <1>1, <2>1, RoutingAssumption DEF FindPath, Basic, InHand, LeadsTo
  <2>3. /\ AtSource(ArcNet[arc], PipSrc[path[Len(path)]])
        /\ \A i \in 1..Len(path) : ~AtSource(ArcNet[arc], PipDst[path[i]])
    BY <2>1, <2>2, PathStarts
  <2>4. CASE h = [wire |-> PipSrc[path[Len(path)]], pip |-> NoPip]
    BY <2>2, <2>3, <2>4
  <2>5. CASE \E i \in 1..Len(path) : h = [wire |-> PipDst[path[i]], pip |-> path[i]]
    BY <2>2, <2>3, <2>5
  <2> QED BY <2>1, <2>4, <2>5
<1>2. CASE pc = "bind" /\ arc' = arc /\ HopsOf(plan') \subseteq HopsOf(plan)
  BY <1>2 DEF PlanStarts
<1>3. CASE \E k \in Hop : TakeStep(k)
  <2>1. pc = "bind" /\ plan' = Tail(plan) /\ arc' = arc
    BY <1>3 DEF TakeStep
  <2>2. plan \in Seq(Hop) /\ plan # <<>>
    BY <2>1 DEF Basic, TypeOK, InHand
  <2>3. HopsOf(plan') \subseteq HopsOf(plan)
    BY <2>1, <2>2, PlanSplits
  <2> QED BY <1>2, <2>1, <2>3
<1>4. CASE \/ \E m \in Nets : SetupNet(m)
           \/ \E w \in work : OrphanStep(w)
           \/ \E a \in Arcs : PopArc(a)
           \/ \E w \in work : ReleaseStep(w)
           \/ \E w \in Wires : RipStep(w)
           \/ QuietStep
  <2>1. pc = "bind" /\ plan' = plan /\ arc' = arc
    BY <1>4 DEF SetupNet, OrphanStep, PopArc, ReleaseStep, RipStep, QuietStep, TimingPass
  <2> QED BY <1>2, <2>1
<1> QED BY <1>1, <1>3, <1>4, Steps

LEMMA StepKeepsSourcesBare ==
    ASSUME Basic, SourcesBare(wires), PlanStarts, [Next]_vars PROVE SourcesBare(wires')
<1> USE RouterAssumption
<1> SUFFICES ASSUME NEW n \in Nets, NEW w \in Wires, AtSource(n, w), wires'[n][w] # Unbound,
                    wires'[n][w].pip # NoPip
             PROVE  FALSE
  BY DEF SourcesBare
<1>1. wires'[n][w] # wires[n][w]
  BY DEF SourcesBare
<1>2. PICK h \in Hop : TakeStep(h) /\ w = h.wire /\ n = ArcNet[arc] /\ wires'[n][w].pip = h.pip
  BY <1>1, NoNewLocks
<1>3. CASE pc = "release"
  BY <1>2, <1>3 DEF TakeStep
<1>4. CASE pc = "bind"
  <2>1. h = Head(plan) /\ plan \in Seq(Hop) /\ plan # <<>>
    BY <1>2, <1>4 DEF TakeStep, Basic, TypeOK, InHand
  <2>2. h \in HopsOf(plan)
    BY <2>1, PlanSplits
  <2> QED BY <1>2, <1>4, <2>2 DEF PlanStarts
<1> QED BY <1>2, <1>3, <1>4 DEF TakeStep

-----------------------------------------------------------------------------
(* No wires drive one another in a circle, nor will they when the plan is    *)
(* carried out: a path meets no wire twice.  Releasing and ripping up only   *)
(* cut, so it is enough to look at the step that makes the plan.             *)

\* If the wires a net drives are the same or fewer, no loop can have closed.
LEMMA LoopWasThere ==
    ASSUME NEW n, NEW W, Loop(n, W)',
           \A w \in W : NextPips(n, w)' \subseteq NextPips(n, w) \cup {NoPip}
    PROVE  Loop(n, W)
BY DEF Loop

\* The search leads from wire to wire, to one where the net starts, and the rest
\* of the net's wires are driven as before.
LEMMA PathHasNoLoop ==
    ASSUME Basic, Setup, Started, FindPath, NEW n \in Nets, NEW W \in (SUBSET Wires) \ {{}},
           Loop(n, W)'
    PROVE  FALSE
<1> USE RouterAssumption, RoutingAssumption
<1>1. PICK path \in PathsFor(arc) :
         /\ LeadsTo(path, ArcSink[arc])
         /\ HopsOf(plan') =
               {[wire |-> PipDst[path[i]], pip |-> path[i]] : i \in 1..Len(path)}
                  \cup {[wire |-> PipSrc[path[Len(path)]], pip |-> NoPip]}
  BY PlanMade DEF Basic
<1> DEFINE k == Len(path)
           last == PipSrc[path[k]]
           hop(i) == [wire |-> PipDst[path[i]], pip |-> path[i]]
           Passed == {PipDst[path[i]] : i \in 1..k} \cup {last}
<1>2. /\ arc \in Arcs /\ k \in Nat \ {0} /\ pc = "release" /\ pc' = "bind"
      /\ arc' = arc /\ UNCHANGED wires
      /\ \A i \in 1..k : path[i] \in Pips
  BY <1>1 DEF FindPath, Basic, InHand, LeadsTo, archVars
<1>3. /\ \A i \in 1..(k - 1) : PipDst[path[i + 1]] = PipSrc[path[i]]
      /\ \A i, j \in 1..k : PipDst[path[i]] = PipDst[path[j]] => i = j
      /\ \A i \in 1..k : last # PipDst[path[i]]
  BY <1>1 DEF LeadsTo
<1>4. {h.wire : h \in HopsOf(plan')} = Passed
  <2>1. \A h \in HopsOf(plan') : h.wire \in Passed
    BY <1>1
  <2>2. \A i \in 1..k : hop(i) \in HopsOf(plan') /\ hop(i).wire = PipDst[path[i]]
    BY <1>1
  <2>3. [wire |-> last, pip |-> NoPip] \in HopsOf(plan')
    BY <1>1
  <2>4. last \in {h.wire : h \in HopsOf(plan')}
    <3> DEFINE end == [wire |-> last, pip |-> NoPip]
    <3>1. end.wire = last /\ end \in HopsOf(plan')
      BY <2>3
    <3> HIDE DEF end, last
    <3> QED BY <3>1
  <2>5. \A i \in 1..k : PipDst[path[i]] \in {h.wire : h \in HopsOf(plan')}
    <3> HIDE DEF hop, k
    <3> QED BY <2>2
  <2>6. {h.wire : h \in HopsOf(plan')} \subseteq Passed
    <3> HIDE DEF Passed
    <3> QED BY <2>1
  <2>7. Passed \subseteq {h.wire : h \in HopsOf(plan')}
    BY <2>4, <2>5
  <2> QED BY <2>6, <2>7
<1>5. ASSUME NEW w, n # ArcNet[arc] \/ w \notin Passed
      PROVE  NextPips(n, w)' = NextPips(n, w)
  BY <1>2, <1>4, <1>5 DEF NextPips
<1>6. ASSUME n = ArcNet[arc], NEW i \in 1..k, PipDst[path[i]] \in W
      PROVE  PipSrc[path[i]] \in W
  <2>1. {h.pip : h \in {h \in HopsOf(plan') : h.wire = PipDst[path[i]]}} \subseteq {path[i]}
    BY <1>1, <1>2, <1>3
  <2>2. NextPips(n, PipDst[path[i]])' \subseteq {path[i]}
    BY <1>2, <1>4, <1>6, <2>1 DEF NextPips
  <2> QED BY <1>6, <2>2 DEF Loop
<1>7. n = ArcNet[arc] => last \notin W
  <2> SUFFICES ASSUME n = ArcNet[arc], last \in W PROVE FALSE
    OBVIOUS
  <2>1. {h.pip : h \in {h \in HopsOf(plan') : h.wire = last}} \subseteq {NoPip}
    BY <1>1, <1>2, <1>3
  <2>2. NextPips(n, last)' \subseteq {NoPip}
    BY <1>2, <1>4, <2>1 DEF NextPips
  <2> QED BY <2>2 DEF Loop
<1> HIDE DEF Passed, last, k, hop
<1>8. n = ArcNet[arc] => \A i \in 1..k : PipDst[path[i]] \notin W
  <2> SUFFICES ASSUME n = ArcNet[arc], NEW i0 \in 1..k, PipDst[path[i0]] \in W PROVE FALSE
    OBVIOUS
  <2> DEFINE T == {i \in 1..k : PipDst[path[i]] \in W}
  <2>1. PICK i \in T : \A j \in T : j <= i
    <3>1. T \in SUBSET (1..k) /\ T # {} /\ k \in Nat
      BY <1>2
    <3> HIDE DEF T
    <3> QED BY <3>1, LastIndex
  <2>2. PipSrc[path[i]] \in W
    BY <1>6, <2>1
  <2>3. CASE i = k
    BY <1>7, <2>2, <2>3 DEF last
  <2>4. CASE i # k
    <3>1. i \in 1..(k - 1) /\ i + 1 \in 1..k /\ ~(i + 1 <= i)
      BY <1>2, <2>1, <2>4
    <3>2. i + 1 \in T
      BY <1>3, <2>2, <3>1
    <3> QED BY <2>1, <3>1, <3>2
  <2> QED BY <2>3, <2>4
<1>9. \A w \in W : n # ArcNet[arc] \/ w \notin Passed
  BY <1>7, <1>8 DEF Passed
<1>10. Loop(n, W)
  BY <1>5, <1>9, LoopWasThere
<1> QED BY <1>2, <1>10 DEF Started, NoLoops

\* A hop done leaves the net with the driver the plan gave the wire.
LEMMA HopNarrows ==
    ASSUME Basic, Started, [Next]_vars, NEW h \in Hop, TakeStep(h), NEW n \in Nets, NEW w \in Wires
    PROVE  NextPips(n, w)' \subseteq NextPips(n, w) \cup {NoPip}
<1> USE RouterAssumption
<1>1. /\ arc \in Arcs /\ arc' = arc /\ ArcNet[arc] \in Nets /\ h.wire \in Wires
      /\ pc \in {"release", "bind"} /\ (pc' = "bind" => pc = "bind")
  BY DEF TakeStep, Hop
<1>2. n # ArcNet[arc] \/ w # h.wire => wires'[n][w] = wires[n][w]
  <2>1. UNCHANGED wires \/ TakesWire(ArcNet[arc], h.wire, h.pip)
    BY DEF TakeStep
  <2> QED BY <1>1, <2>1 DEF TakesWire
<1>3. CASE n # ArcNet[arc]
  BY <1>1, <1>2, <1>3 DEF NextPips
<1>4. CASE n = ArcNet[arc] /\ pc = "bind"
  <2>1. plan \in Seq(Hop) /\ plan # <<>> /\ h = Head(plan) /\ plan' = Tail(plan)
        /\ (pc' # "bind" => Len(plan) = 1)
    BY <1>4 DEF TakeStep, Basic, TypeOK, InHand
  <2>2. /\ HopsOf(plan) = {h} \cup HopsOf(plan')
        /\ pc' # "bind" => HopsOf(plan) = {h}
    BY <2>1, PlanSplits
  <2>3. CASE pc' = "bind" /\ w \in {k.wire : k \in HopsOf(plan')}
    <3>1. w \in {k.wire : k \in HopsOf(plan)}
      BY <2>2, <2>3
    <3>2. NextPips(n, w) = {k.pip : k \in {l \in HopsOf(plan) : l.wire = w}}
      BY <1>4, <3>1 DEF NextPips
    <3>3. NextPips(n, w)' = {k.pip : k \in {l \in HopsOf(plan') : l.wire = w}}
      BY <1>1, <1>4, <2>3 DEF NextPips
    <3> QED BY <2>2, <3>2, <3>3
  <2>4. CASE ~(pc' = "bind" /\ w \in {k.wire : k \in HopsOf(plan')})
    <3>1. NextPips(n, w)' = IF wires'[n][w] = Unbound THEN {NoPip} ELSE {wires'[n][w].pip}
      BY <1>1, <1>4, <2>4 DEF NextPips
    <3>2. CASE w = h.wire
      <4>1. h.pip \in NextPips(n, w)
        <5>1. h \in {l \in HopsOf(plan) : l.wire = w} /\ w \in {k.wire : k \in HopsOf(plan)}
          BY <2>2, <3>2
        <5>2. NextPips(n, w) = {k.pip : k \in {l \in HopsOf(plan) : l.wire = w}}
          BY <1>4, <5>1 DEF NextPips
        <5> QED BY <5>1, <5>2
      <4>2. wires'[n][w] # Unbound /\ (h.pip # NoPip => wires'[n][w].pip = h.pip)
        BY <1>4, <3>2, HopDone
      <4>3. h.pip = NoPip => wires'[n][w].pip = NoPip
        <5> SUFFICES ASSUME h.pip = NoPip PROVE wires'[n][w].pip = NoPip
          OBVIOUS
        <5>1. AtSource(n, w)
          BY <1>4, <2>2, <3>2 DEF Started, PlanStarts
        <5>2. SourcesBare(wires')
          BY StepKeepsSourcesBare DEF Started, TakeStep
        <5> QED BY <4>2, <5>1, <5>2 DEF SourcesBare
      <4> QED BY <3>1, <4>1, <4>2, <4>3
    <3>3. CASE w # h.wire
      <4>1. ~(w \in {k.wire : k \in HopsOf(plan)})
        BY <2>2, <2>4, <3>3
      <4> QED BY <1>2, <1>4, <3>1, <3>3, <4>1 DEF NextPips
    <3> QED BY <3>2, <3>3
  <2> QED BY <2>3, <2>4
<1>5. CASE n = ArcNet[arc] /\ pc = "release"
  <2>1. h.pip = NoPip /\ pc' # "bind"
    BY <1>5 DEF TakeStep
  <2>2. NextPips(n, w)' = IF wires'[n][w] = Unbound THEN {NoPip} ELSE {wires'[n][w].pip}
    BY <2>1 DEF NextPips
  <2>3. NextPips(n, w) = IF wires[n][w] = Unbound THEN {NoPip} ELSE {wires[n][w].pip}
    BY <1>5 DEF NextPips
  <2>4. \/ wires'[n][w] = wires[n][w]
        \/ wires'[n][w] = [pip |-> NoPip, strength |-> STRENGTH_WEAK]
    <3>1. UNCHANGED wires \/ TakesWire(ArcNet[arc], h.wire, NoPip)
      BY <2>1 DEF TakeStep
    <3> QED BY <1>1, <3>1 DEF TakesWire
  <2> QED BY <2>2, <2>3, <2>4
<1> QED BY <1>1, <1>3, <1>4, <1>5

LEMMA StepKeepsNoLoops ==
    ASSUME Basic, Setup, Started, [Next]_vars PROVE NoLoops'
<1> USE RouterAssumption
<1> SUFFICES ASSUME pc' # "crashed", NEW n \in Nets, NEW W \in (SUBSET Wires) \ {{}},
                    Loop(n, W)'
             PROVE  FALSE
  BY DEF NoLoops
<1>1. ASSUME pc # "crashed",
             \A w \in W : NextPips(n, w)' \subseteq NextPips(n, w) \cup {NoPip}
      PROVE  FALSE
  BY <1>1, LoopWasThere DEF Started, NoLoops
<1>2. CASE FindPath
  BY <1>2, PathHasNoLoop
<1>3. CASE \E h \in Hop : TakeStep(h)
  <2>1. pc # "crashed"
    BY <1>3 DEF TakeStep
  <2> QED BY <1>1, <1>3, <2>1, HopNarrows
<1>4. CASE \/ \E w \in work : OrphanStep(w)
           \/ \E w \in work : ReleaseStep(w)
           \/ \E w \in Wires : RipStep(w)
  <2>1. PICK w \in Wires : \/ OrphanStep(w)
                           \/ ReleaseStep(w)
                           \/ RipStep(w)
    BY <1>4 DEF Basic, TypeOK
  <2>2. /\ pc # "crashed" /\ UNCHANGED <<pc, arc, plan>>
        /\ UNCHANGED wires \/ FreesWire(w)
    BY <2>1 DEF OrphanStep, ReleaseStep, RipStep
  <2>3. \A v \in Wires : wires'[n][v] = wires[n][v] \/ wires'[n][v] = Unbound
    BY <2>2 DEF FreesWire
  <2>4. ASSUME NEW v \in W PROVE NextPips(n, v)' \subseteq NextPips(n, v) \cup {NoPip}
    BY <2>2, <2>3 DEF NextPips
  <2> QED BY <1>1, <2>2, <2>4
<1>5. CASE \/ \E m \in Nets : SetupNet(m)
           \/ \E a \in Arcs : PopArc(a)
  <2>1. UNCHANGED wires /\ pc \in {"setup", "idle"} /\ pc' # "bind"
    BY <1>5 DEF SetupNet, PopArc, archVars
  <2>2. ASSUME NEW v \in W PROVE NextPips(n, v)' = NextPips(n, v)
    BY <2>1 DEF NextPips
  <2> QED BY <1>1, <2>1, <2>2
<1>6. CASE QuietStep
  <2>1. UNCHANGED <<wires, arc, plan>> /\ pc # "crashed" /\ (pc = "bind" <=> pc' = "bind")
    BY <1>6 DEF QuietStep, TimingPass
  <2>2. ASSUME NEW v \in W PROVE NextPips(n, v)' = NextPips(n, v)
    BY <2>1 DEF NextPips
  <2> QED BY <1>1, <2>1, <2>2
<1> QED BY <1>2, <1>3, <1>4, <1>5, <1>6, Steps

LEMMA StepKeepsFinished ==
    ASSUME ConstantsEnd, \A d \in Designs : LocksServe(d), Basic, Setup, Finished, [Next]_vars
    PROVE  Finished'
<1>1. Serves /\ Started /\ LocksUsed /\ VisitedStart /\ DoneIsEmpty /\ SkippedBare(wires)
  BY DEF Finished
<1>2. Serves'
  BY <1>1, StepKeepsRoutesServe, StepKeepsPlanServes DEF Serves
<1>3. Started'
  <2>1. SourcesBare(wires)'
    BY <1>1, StepKeepsSourcesBare DEF Started, SourcesBare, AtSource, IsConst
  <2>2. PlanStarts' /\ NoLoops'
    BY <1>1, StepKeepsPlanStarts, StepKeepsNoLoops DEF Started
  <2> QED BY <2>1, <2>2 DEF Started
<1>4. LocksUsed' /\ VisitedStart' /\ DoneIsEmpty'
  BY <1>1, StepKeepsLocksUsed, StepKeepsVisitedStart, StepKeepsDoneIsEmpty
<1>5. SkippedBare(wires)'
  BY <1>1, StepKeepsSkippedBare DEF SkippedBare
<1> QED BY <1>2, <1>3, <1>4, <1>5 DEF Finished

LEMMA InitFinished ==
    ASSUME \A d \in Designs : /\ NoLoop(d.routing) /\ SourcesBare(d.routing)
                              /\ SkippedBare(d.routing),
           Init
    PROVE  Finished
<1> USE RouterAssumption
<1>1. PICK d \in Designs : wires = d.routing
  BY DEF Init
<1>2. NoLoop(wires) /\ SourcesBare(wires) /\ SkippedBare(wires)
  BY <1>1
<1>3. pc = "setup" /\ Live = {} /\ Visited = {}
  BY DEF Init, Live, Visited
<1>4. NoLoops
  <2> SUFFICES ASSUME NEW n \in Nets, NEW W \in (SUBSET Wires) \ {{}}, Loop(n, W) PROVE FALSE
    BY DEF NoLoops
  <2>1. PICK w \in W : \/ AtSource(n, w)
                       \/ wires[n][w] = Unbound
                       \/ wires[n][w].pip = NoPip
                       \/ PipSrc[wires[n][w].pip] \notin W
    <3> HIDE RouterAssumption
    <3> QED BY <1>2 DEF NoLoop
  <2>2. NextPips(n, w) = IF wires[n][w] = Unbound THEN {NoPip} ELSE {wires[n][w].pip}
    BY <1>3 DEF NextPips
  <2>3. \E p \in NextPips(n, w) : p # NoPip /\ PipSrc[p] \in W
    BY DEF Loop
  <2>4. wires[n][w] # Unbound /\ wires[n][w].pip # NoPip /\ PipSrc[wires[n][w].pip] \in W
    BY <2>2, <2>3
  <2> QED BY <1>2, <2>1, <2>4 DEF SourcesBare
<1>5. Started
  BY <1>2, <1>3, <1>4 DEF Started, PlanStarts
<1>6. Serves /\ LocksUsed /\ VisitedStart /\ DoneIsEmpty
  BY <1>3 DEF Serves, RoutesServe, PlanServes, LocksUsed, VisitedStart, DoneIsEmpty
<1> QED BY <1>2, <1>5, <1>6 DEF Finished

\* What is reached from the roots is closed under the wires driven from it.
LEMMA ReachedIsClosed ==
    ASSUME NEW n \in Nets, Roots(n) \subseteq HeldBy(n)
    PROVE  /\ Roots(n) \subseteq Reached(n)
           /\ Reached(n) \subseteq HeldBy(n)
           /\ \A u \in Reached(n) : Children(n, u) \subseteq Reached(n)
<1> DEFINE Closed(S) == Roots(n) \subseteq S /\ \A u \in S : Children(n, u) \subseteq S
<1>1. Reached(n) = {v \in Wires : \A S \in SUBSET Wires : Closed(S) => v \in S}
  BY DEF Reached
<1>2. HeldBy(n) \in SUBSET Wires /\ Closed(HeldBy(n))
  BY DEF HeldBy, Children
<1>3. Roots(n) \subseteq Reached(n) /\ Reached(n) \subseteq HeldBy(n)
  BY <1>1, <1>2
<1>4. ASSUME NEW u \in Reached(n), NEW c \in Children(n, u) PROVE c \in Reached(n)
  BY <1>1, <1>4 DEF Children, HeldBy
<1> QED BY <1>3, <1>4

\* The inductive invariant of the last theorem.
Done == Basic /\ Setup /\ Owned /\ Used /\ Leads /\ Finished

\* When the router is done, each wire a net holds serves one of its arcs.
LEMMA HeldIsRouted ==
    ASSUME Done, pc = "done", NEW n \in Nets \ Skipped, NEW w \in HeldBy(n)
    PROVE  \E a \in ArcsOf(n) : w \in arc_to_wires[a]
<1>1. n \in Visited /\ w \in Wires /\ wires[n][w] # Unbound
  BY DEF Done, Setup, ArcsLive, Visited, HeldBy
<1>2. wires[n][w].strength \in Nat
  <2>1. wires \in [Nets -> [Wires -> PipMap \cup {Unbound}]]
    BY DEF Done, Basic, TypeOK, ArchTypeOK
  <2>2. wires[n][w].strength \in Strengths /\ Strengths \subseteq Nat
    BY <1>1, <2>1, RouterAssumption DEF PipMap
  <2> QED BY <2>2
<1>3. wire_to_arcs[w] # {}
  BY <1>1, <1>2 DEF Done, Used, Finished, LocksUsed, STRENGTH_LOCKED
<1>4. PICK a \in wire_to_arcs[w] : TRUE
  BY <1>3
<1>5. Basic /\ Setup /\ Owned /\ pc \notin {"release", "crashed"}
  BY DEF Done
<1> QED BY <1>1, <1>4, <1>5, UsersAreOfTheNet

\* And each arc has its route: held wires that lead on to the sink and back to
\* where the net starts.
LEMMA ArcIsRouted ==
    ASSUME Done, pc = "done", NEW n \in Nets \ Skipped, NEW a \in ArcsOf(n)
    PROVE  /\ ArcSink[a] \in arc_to_wires[a]
           /\ arc_to_wires[a] \subseteq HeldBy(n)
           /\ \E w \in arc_to_wires[a] : AtSource(n, w)
           /\ \A w \in arc_to_wires[a] :
                 /\ w = ArcSink[a] \/ Children(n, w) # {}
                 /\ AtSource(n, w) \/ (wires[n][w].pip # NoPip
                                       /\ PipSrc[wires[n][w].pip] \in HeldBy(n))
<1>1. a \in Live \ queued_arcs /\ ~InFlight(a) /\ a \in Arcs /\ ArcNet[a] = n
  BY DEF Done, Basic, TypeOK, Setup, ArcsLive, Visited, ArcsOf, Live, Finished, DoneIsEmpty, InFlight
<1>2. LeadsBack(a, arc_to_wires[a])
  BY <1>1 DEF Done, Leads, RoutesLead
<1>3. arc_to_wires[a] \subseteq HeldBy(n)
  <2> SUFFICES ASSUME NEW w \in arc_to_wires[a] PROVE w \in HeldBy(n)
    OBVIOUS
  <2>1. w \in Wires /\ a \in wire_to_arcs[w]
    BY <1>1 DEF Done, Basic, TypeOK, MapsAgree
  <2> QED BY <1>1, <2>1 DEF Done, Owned, HeldBy
<1>4. \A w \in arc_to_wires[a] : w = ArcSink[a] \/ Feeds(n, w, arc_to_wires[a])
  BY <1>1 DEF Done, Finished, Serves, RoutesServe
<1>5. \A w \in arc_to_wires[a] : w = ArcSink[a] \/ Children(n, w) # {}
  BY <1>3, <1>4 DEF Feeds, Children
<1> QED BY <1>1, <1>2, <1>3, <1>5 DEF LeadsBack, Drives

LEMMA DoneIsRouted ==
    ASSUME Done, ConstantsEnd, pc = "done", NEW n \in Nets PROVE NetRouted(n, Sinks(n))
<1>1. CASE n \in Skipped
  <2>1. HeldBy(n) = {}
    BY <1>1 DEF Done, Finished, SkippedBare, HeldBy
  <2> QED BY <1>1, <2>1, RouterAssumption DEF NetRouted
<1>2. CASE n \notin Skipped /\ Sinks(n) = {}
  <2>1. ArcsOf(n) = {}
    BY <1>2 DEF Sinks
  <2>2. HeldBy(n) = {}
    BY <1>2, <2>1, HeldIsRouted
  <2> QED BY <1>2, <2>2 DEF NetRouted
<1>3. CASE n \notin Skipped /\ Sinks(n) # {}
  <2>1. PICK a0 \in ArcsOf(n) : TRUE
    BY <1>3 DEF Sinks
  <2>2. IsConst(n) \/ SourceWire[n] # NoWire
    BY <1>3 DEF Done, Setup, ArcsLive, Finished, VisitedStart, Visited
  <2>3. ASSUME NEW w \in HeldBy(n)
        PROVE  /\ AtSource(n, w) => wires[n][w].pip = NoPip
               /\ AtSource(n, w) => w \in Roots(n)
               /\ AtSource(n, w) \/ (wires[n][w].pip # NoPip
                                     /\ PipSrc[wires[n][w].pip] \in HeldBy(n))
               /\ w \in Sinks(n) \/ Children(n, w) # {}
    <3>1. PICK a \in ArcsOf(n) : w \in arc_to_wires[a]
      BY <1>3, HeldIsRouted
    <3>2. w \in Wires /\ wires[n][w] # Unbound
      BY DEF HeldBy
    <3>3. AtSource(n, w) => wires[n][w].pip = NoPip
      BY <3>2 DEF Done, Finished, Started, SourcesBare
    <3>4. AtSource(n, w) => w \in Roots(n)
      <4>1. a \in Arcs /\ ArcNet[a] = n
        BY DEF ArcsOf, Done, Basic, TypeOK
      <4>2. IsConst(n) => SourceWire[n] = NoWire \/ RouteRoot(n, SourceWire[n])
        BY <4>1 DEF ConstantsEnd
      <4> QED BY <3>2, <3>3, <4>2, RoutingAssumption DEF AtSource, RouteRoot, Roots, HeldBy
    <3>5. ArcSink[a] \in Sinks(n)
      BY DEF Sinks
    <3> QED BY <1>3, <3>1, <3>3, <3>4, <3>5, ArcIsRouted
  <2>4. Roots(n) \subseteq HeldBy(n)
    <3>1. PICK w \in HeldBy(n) : AtSource(n, w)
      BY <1>3, <2>1, ArcIsRouted
    <3> QED BY <3>1 DEF AtSource, Roots
  <2>5. \A r \in Roots(n) : wires[n][r].pip = NoPip
    <3>1. \A r \in Roots(n) : AtSource(n, r)
      BY DEF Roots, AtSource
    <3> QED BY <2>3, <2>4, <3>1
  <2>6. Sinks(n) \subseteq HeldBy(n)
    BY <1>3, ArcIsRouted DEF Sinks
  <2>7. {w \in Wires : Children(n, w) # {}} \subseteq HeldBy(n)
    <3> SUFFICES ASSUME NEW w \in Wires, NEW c \in Children(n, w) PROVE w \in HeldBy(n)
      OBVIOUS
    <3>1. c \in HeldBy(n) /\ wires[n][c].pip # NoPip /\ PipSrc[wires[n][c].pip] = w
      BY DEF Children
    <3> QED BY <2>3, <3>1
  <2>8. HeldBy(n) \subseteq Reached(n)
    <3> DEFINE U == HeldBy(n) \ Reached(n)
    <3>1. ASSUME NEW w \in U PROVE \E p \in NextPips(n, w) : p # NoPip /\ PipSrc[p] \in U
      <4>1. wires[n][w].pip # NoPip /\ PipSrc[wires[n][w].pip] \in HeldBy(n)
        BY <2>3, <2>4, ReachedIsClosed
      <4>2. PipSrc[wires[n][w].pip] \notin Reached(n)
        <5>1. w \in Children(n, PipSrc[wires[n][w].pip])
          BY <4>1 DEF Children
        <5> QED BY <2>4, <5>1, ReachedIsClosed
      <4>3. NextPips(n, w) = {wires[n][w].pip}
        BY DEF NextPips, HeldBy
      <4> QED BY <4>1, <4>2, <4>3
    <3>2. Loop(n, U) /\ U \in SUBSET Wires
      <4> HIDE DEF U
      <4>1. Loop(n, U)
        BY <3>1 DEF Loop
      <4> QED BY <4>1 DEF U, HeldBy
    <3>3. U = {}
      <4> HIDE DEF U
      <4> QED BY <3>2 DEF Done, Finished, Started, NoLoops
    <3> QED BY <3>3
  <2>9. \A u \in Reached(n) : Children(n, u) \cap Roots(n) = {}
    BY <2>5 DEF Children
  <2>10. \A u \in Reached(n) : Children(n, u) # {} \/ u \in Sinks(n)
    BY <2>3, <2>4, ReachedIsClosed
  <2>11. ~IsConst(n) => SourceWire[n] \in HeldBy(n)
    BY <2>4 DEF Roots
  <2> QED BY <1>3, <2>2, <2>6, <2>7, <2>8, <2>9, <2>10, <2>11 DEF NetRouted
<1> QED BY <1>1, <1>2, <1>3

\* When the router is done, debug builds find the design legal.  Asked of the
\* design it starts from: the routing that is there is driven without loops, a
\* net does not drive its own source, nets without a driver hold nothing, and
\* locked wires lead to sinks.  Asked of the device: wires that have a constant
\* by themselves do not lead on to one another.
THEOREM DoneMeansLegal ==
    ASSUME ConstantsEnd,
           \A d \in Designs : /\ NoLoop(d.routing) /\ Driven(d.routing)
                              /\ SourcesBare(d.routing) /\ SkippedBare(d.routing)
                              /\ LocksServe(d)
    PROVE  Spec => []DoneMeansRouted
<1>1. Init => Done
  <2>1. Init => Leads
    BY DEF Init, Leads, RoutesLead, PlanLeads, Live, Visited
  <2> QED BY <2>1, InitBasic, InitSetup, InitOwned, InitFinished DEF Done
<1>2. Done /\ [Next]_vars => Done'
  <2> SUFFICES ASSUME Done, [Next]_vars PROVE Done'
    OBVIOUS
  <2>1. Basic /\ Setup /\ Owned /\ Used /\ Leads /\ Finished
    BY DEF Done
  <2>2. Basic' /\ Setup' /\ Owned' /\ Used'
    BY <2>1, StepKeepsBasic, StepKeepsSetup, StepKeepsOwned, StepKeepsUsed
  <2>3. Leads'
    BY <2>1, StepKeepsRoutesLead, StepKeepsPlanLeads DEF Leads
  <2>4. Finished'
    BY <2>1, StepKeepsFinished
  <2> QED BY <2>2, <2>3, <2>4 DEF Done
<1>3. Done => DoneMeansRouted
  BY DoneIsRouted DEF DoneMeansRouted, checkRoutedDesign
<1> QED BY <1>1, <1>2, <1>3, PTL DEF Spec
=============================================================================

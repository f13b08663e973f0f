--------------------------- MODULE Router2_proofs ---------------------------
(***************************************************************************)
(* Router2 for any device, netlist and initial routing: the architecture's *)
(* tables stay consistent, what is bound strongly stays, the router's      *)
(* counts of the nets on a wire and of the uses of a resource are right,   *)
(* its books are the routes it has found, its state is what the types say, *)
(* a wire reserved for a net is one the net cannot do without, when the    *)
(* router returns, what is bound is a routed design, and nothing throws    *)
(* but over a wire the router could not release.                           *)
(*                                                                         *)
(* The walks of the router over sets of wires are least closed sets        *)
(* (Closure); that the recursive definitions compute them is shown with a  *)
(* least counterexample, the wires being finite (WalkIsClosure).           *)
(***************************************************************************)
EXTENDS Router2, Ice40Routing_proofs

\* What is to be unbound is the net's and bound weakly enough, it is unbound
\* before anything is bound, and the arcs left are the net's.
BindPlan ==
    /\ net \in Nets \cup {NoNet}
    /\ net = NoNet => to_unbind = {} /\ arcs_left = {} /\ to_bind = NothingToBind
    /\ to_bind # NothingToBind => to_unbind = {}
    /\ \A w \in to_unbind : /\ w \in Wires
                            /\ wires[net][w] # Unbound
                            /\ wires[net][w].strength <= STRENGTH_STRONG
    /\ arcs \subseteq Arcs
    /\ \A a \in arcs_left : a \in Arcs /\ ArcNet[a] = net
    /\ to_bind.root \in Wires \cup {NoWire}
    /\ to_bind = [root |-> to_bind.root, pips |-> to_bind.pips]

\* The strengthening that is inductive.
Binding == ArchTypeOK /\ Consistent /\ BindPlan

-----------------------------------------------------------------------------
(* Binding the routes. *)

LEMMA InitBinding == Init => Binding
<1> SUFFICES ASSUME Init PROVE Binding
  OBVIOUS
<1> USE Router2Assumption
<1>1. PICK d \in Designs : arcs = d.arcs /\ wires = d.routing
  BY DEF Init
<1>2. /\ wires \in [Nets -> [Wires -> PipMap \cup {Unbound}]]
      /\ InitialRouting(wires)
      /\ arcs \subseteq Arcs
  BY <1>1, Router2InitialRouting
<1>3. ArchTypeOK /\ Consistent
  BY <1>2, InitTablesConsistent DEF Init
<1>4. BindPlan
  BY <1>2 DEF Init, BindPlan, NothingToBind
<1> QED BY <1>3, <1>4 DEF Binding

\* All but five of the router's actions leave the tables and the plan alone.
LEMMA OtherSteps ==
    ASSUME [Next]_vars
    PROVE  \/ \E n \in Nets : BindNet(n)
           \/ \E w \in Wires : UnbindOld(w)
           \/ \E a \in Arcs : CheckArc(a)
           \/ BindRoot
           \/ \E p \in Pips : BindPip(p)
           \/ NetBound
           \/ UNCHANGED <<archVars, arcs, net, to_unbind, arcs_left, to_bind>>
<1> DEFINE Same == UNCHANGED <<archVars, arcs, net, to_unbind, arcs_left, to_bind>>
<1>1. CASE UNCHANGED vars
  BY <1>1 DEF vars, bindVars
<1>2. CASE SetupWires \/ ReserveDone \/ DoRoute \/ UpdateCongestion \/ Returned
  BY <1>2 DEF SetupWires, ReserveDone, DoRoute, UpdateCongestion, Returned, vars,
              bindVars
<1>3. CASE \E n \in Nets : ReserveWires(n)
  BY <1>3 DEF ReserveWires, bindVars
<1>4. CASE RouteStep
  <2>1. CASE NextStage
    BY <2>1 DEF NextStage, bindVars
  <2>2. CASE \E t \in Workers, n \in Nets : TakeNet(t, n)
    BY <2>2 DEF TakeNet, bindVars
  <2>3. CASE \E t \in Workers, a \in Arcs : KeepArc(t, a)
    BY <2>3 DEF KeepArc, bindVars
  <2>4. CASE \E t \in Workers, a \in Arcs : RipupArc(t, a)
    BY <2>4 DEF RipupArc, bindVars
  <2>5. CASE \E t \in Workers, a \in Arcs : RouteArc(t, a)
    BY <2>5 DEF RouteArc, bindVars
  <2>6. CASE \E t \in Workers, a \in Arcs : SinkDone(t, a)
    BY <2>6 DEF SinkDone, bindVars
  <2>7. CASE \E t \in Workers, a \in Arcs : RouteFails(t, a)
    BY <2>7 DEF RouteFails, bindVars
  <2>8. CASE \E t \in Workers : NetDone(t)
    BY <2>8 DEF NetDone, bindVars
  <2> QED BY <1>4, <2>1, <2>2, <2>3, <2>4, <2>5, <2>6, <2>7, <2>8 DEF RouteStep
<1>5. CASE AllBound
  BY <1>5 DEF AllBound, bindVars
<1> QED BY <1>1, <1>2, <1>3, <1>4, <1>5 DEF Next, BindStep

\* Every step makes at most one call into the architecture.
LEMMA StepCallsArch ==
    ASSUME BindPlan, [Next]_vars PROVE ArchNext \/ UNCHANGED archVars
<1> USE Router2Assumption, RoutingAssumption
<1>1. CASE \E w \in Wires : UnbindOld(w)
  BY <1>1 DEF UnbindOld, ArchNext
<1>2. CASE BindRoot
  <2>1. to_bind.root \in Wires /\ net \in Nets
    BY <1>2 DEF BindRoot, BindPlan, NothingToBind
  <2>2. bindWire(to_bind.root, net, STRENGTH_WEAK) \/ UNCHANGED archVars
    BY <1>2 DEF BindRoot
  <2> QED BY <2>1, <2>2 DEF ArchNext
<1>3. CASE \E p \in Pips : BindPip(p)
  <2>1. PICK p \in Pips : BindPip(p)
    BY <1>3
  <2>2. net \in Nets
    BY <2>1 DEF BindPip, BindPlan, NothingToBind
  <2>3. bindPip(p, net, STRENGTH_WEAK) \/ UNCHANGED archVars
    BY <2>1 DEF BindPip
  <2> QED BY <2>2, <2>3 DEF ArchNext
<1>4. CASE (\E n \in Nets : BindNet(n)) \/ (\E a \in Arcs : CheckArc(a)) \/ NetBound
  BY <1>4 DEF BindNet, CheckArc, NetBound
<1> QED BY <1>1, <1>2, <1>3, <1>4, OtherSteps

LEMMA StepTables ==
    ASSUME Binding, [Next]_vars PROVE ArchTypeOK' /\ Consistent'
<1>1. CASE ArchNext
  BY <1>1, ArchStepTypes, ArchStepConsistent DEF Binding
<1>2. CASE UNCHANGED archVars
  BY <1>2 DEF Binding, archVars, ArchTypeOK, Consistent, RecordedIsBound,
              BoundIsRecorded, PipDrivesItsWire, LockedSwitchIsUsed, OnePipPerSwitch
<1> QED BY <1>1, <1>2, StepCallsArch DEF Binding

LEMMA StepPlan ==
    ASSUME Binding, [Next]_vars PROVE BindPlan'
<1> USE Router2Assumption, RoutingAssumption
<1>1. CASE \E n \in Nets : BindNet(n)
  <2>1. PICK n \in Nets : BindNet(n)
    BY <1>1
  <2>2. \A w \in to_unbind' : /\ w \in Wires /\ wires'[n][w] # Unbound
                              /\ wires'[n][w].strength <= STRENGTH_STRONG
    BY <2>1 DEF BindNet, HeldBy, archVars
  <2>3. \A a \in arcs_left' : a \in Arcs /\ ArcNet[a] = n
    BY <2>1 DEF BindNet, ArcsOf, Binding, BindPlan
  <2>4. to_bind' = to_bind /\ to_bind = NothingToBind /\ net' = n /\ arcs' = arcs
    BY <2>1 DEF BindNet, Binding, BindPlan
  <2> QED BY <2>2, <2>3, <2>4 DEF Binding, BindPlan
<1>2. CASE \E w \in Wires : UnbindOld(w)
  <2>1. PICK w \in Wires : UnbindOld(w)
    BY <1>2
  <2>2. /\ w \in to_unbind /\ net \in Nets
        /\ to_unbind' = to_unbind \ {w}
        /\ UNCHANGED <<arcs, net, arcs_left, to_bind>>
    BY <2>1 DEF UnbindOld, Binding, BindPlan
  <2>3. \A v \in Wires : v # w => wires'[net][v] = wires[net][v]
    BY <2>1, <2>2 DEF UnbindOld, unbindWire, Binding, ArchTypeOK
  <2> QED BY <2>2, <2>3 DEF Binding, BindPlan
<1>3. CASE \E a \in Arcs : CheckArc(a)
  <2>1. PICK a \in Arcs : CheckArc(a)
    BY <1>3
  <2>2. /\ a \in arcs_left /\ net \in Nets /\ net' = net
        /\ arcs_left' = arcs_left \ {a}
        /\ to_unbind = {} /\ to_unbind' = {}
        /\ arcs' = arcs
    BY <2>1 DEF CheckArc, Binding, BindPlan
  <2>3. ArcSink[a] \in Wires
    OBVIOUS
  <2>4. /\ to_bind'.root \in Wires \cup {NoWire}
        /\ to_bind' = [root |-> to_bind'.root, pips |-> to_bind'.pips]
    <3>1. CASE \E root \in Wires : \E ps :
                  to_bind' = [root |-> root, pips |-> ps]
      BY <3>1
    <3> QED BY <2>1, <2>3 DEF CheckArc, NothingToBind
  <2> QED BY <2>2, <2>4 DEF Binding, BindPlan
<1>4. CASE BindRoot
  <2>1. /\ to_bind # NothingToBind
        /\ to_bind' = [to_bind EXCEPT !.root = NoWire]
        /\ UNCHANGED <<arcs, net, to_unbind, arcs_left>>
    BY <1>4 DEF BindRoot, NothingToBind
  <2>2. to_unbind' = {} /\ net' # NoNet
    BY <2>1 DEF Binding, BindPlan
  <2>3. /\ to_bind'.root \in Wires \cup {NoWire}
        /\ to_bind' = [root |-> to_bind'.root, pips |-> to_bind'.pips]
    BY <2>1 DEF Binding, BindPlan
  <2> QED BY <2>1, <2>2, <2>3 DEF Binding, BindPlan
<1>5. CASE \E p \in Pips : BindPip(p)
  <2>1. PICK p \in Pips : BindPip(p)
    BY <1>5
  <2>2. /\ to_bind # NothingToBind
        /\ to_bind' = [to_bind EXCEPT !.pips = @ \ {p}]
        /\ UNCHANGED <<arcs, net, to_unbind, arcs_left>>
    BY <2>1 DEF BindPip, NothingToBind
  <2>3. to_unbind' = {} /\ net' # NoNet
    BY <2>2 DEF Binding, BindPlan
  <2>4. /\ to_bind'.root \in Wires \cup {NoWire}
        /\ to_bind' = [root |-> to_bind'.root, pips |-> to_bind'.pips]
    BY <2>2 DEF Binding, BindPlan
  <2> QED BY <2>2, <2>3, <2>4 DEF Binding, BindPlan
<1>6. CASE NetBound
  BY <1>6 DEF NetBound, Binding, BindPlan
<1>7. CASE UNCHANGED <<archVars, arcs, net, to_unbind, arcs_left, to_bind>>
  BY <1>7 DEF Binding, BindPlan, archVars
<1> QED BY <1>1, <1>2, <1>3, <1>4, <1>5, <1>6, <1>7, OtherSteps

\* Binding and unbinding by router2 keeps the tables of the architecture
\* consistent, also when one of its assertions stops it.
THEOREM BindingKeepsTablesConsistent == Spec => []Consistent
<1>1. Binding /\ [Next]_vars => Binding'
  BY StepTables, StepPlan DEF Binding
<1>2. Binding => Consistent
  BY DEF Binding
<1> QED BY InitBinding, <1>1, <1>2, PTL DEF Spec

\* The one step that takes a binding away takes what BindPlan says of it.
LEMMA StepKeepsStrong ==
    ASSUME Binding, [Next]_vars
    PROVE  \A n \in Nets, w \in Wires :
              (wires[n][w] # Unbound /\ wires[n][w].strength > STRENGTH_STRONG)
                 => wires'[n][w] = wires[n][w]
<1> USE Router2Assumption, RoutingAssumption
<1> SUFFICES ASSUME NEW n \in Nets, NEW w \in Wires, wires[n][w] # Unbound,
                    wires[n][w].strength > STRENGTH_STRONG
             PROVE  wires'[n][w] = wires[n][w]
  OBVIOUS
<1>1. wire_to_net[w] = n
  BY DEF Binding, Consistent, RecordedIsBound
<1>2. wires[n][w].strength \in Nat
  <2>1. wires[n][w] \in PipMap
    BY DEF Binding, ArchTypeOK
  <2>2. wires[n][w].strength \in Strengths
    BY <2>1 DEF PipMap
  <2> QED BY <2>2
<1>3. CASE \E v \in Wires : UnbindOld(v)
  <2>1. PICK v \in Wires : UnbindOld(v)
    BY <1>3
  <2>2. /\ net \in Nets /\ wires[net][v] # Unbound
        /\ wires[net][v].strength <= STRENGTH_STRONG
    BY <2>1 DEF UnbindOld, Binding, BindPlan
  <2>3. <<net, v>> # <<n, w>>
    BY <1>2, <2>2 DEF STRENGTH_STRONG
  <2>4. wire_to_net[v] = net
    BY <2>2 DEF Binding, Consistent, RecordedIsBound
  <2>5. wires' = [wires EXCEPT ![net][v] = Unbound]
    BY <2>1, <2>4 DEF UnbindOld, unbindWire
  <2> QED BY <2>2, <2>3, <2>5 DEF Binding, ArchTypeOK
<1>4. CASE BindRoot
  <2>1. net \in Nets
    BY <1>4 DEF BindRoot, Binding, BindPlan, NothingToBind
  <2>2. \/ bindWire(to_bind.root, net, STRENGTH_WEAK)
        \/ UNCHANGED archVars
    BY <1>4 DEF BindRoot
  <2>3. CASE bindWire(to_bind.root, net, STRENGTH_WEAK)
    <3>1. to_bind.root # w
      BY <1>1, <2>3 DEF bindWire, checkWireAvail
    <3> QED BY <2>1, <2>3, <3>1 DEF bindWire, Binding, ArchTypeOK
  <2> QED BY <2>2, <2>3 DEF archVars
<1>5. CASE \E p \in Pips : BindPip(p)
  <2>1. PICK p \in Pips : BindPip(p)
    BY <1>5
  <2>2. net \in Nets
    BY <2>1 DEF BindPip, Binding, BindPlan, NothingToBind
  <2>3. CASE bindPip(p, net, STRENGTH_WEAK)
    <3>1. PipDst[p] # w
      BY <1>1, <2>3 DEF bindPip, checkWireAvail
    <3> QED BY <2>2, <2>3, <3>1 DEF bindPip, Binding, ArchTypeOK
  <2> QED BY <2>1, <2>3 DEF BindPip, archVars
<1>6. CASE (\E m \in Nets : BindNet(m)) \/ (\E a \in Arcs : CheckArc(a)) \/ NetBound
  BY <1>6 DEF BindNet, CheckArc, NetBound, archVars
<1>7. CASE UNCHANGED archVars
  BY <1>7 DEF archVars
<1> QED BY <1>3, <1>4, <1>5, <1>6, <1>7, OtherSteps

\* What is bound more strongly than STRENGTH_STRONG keeps its net and its pip
\* whatever the router does, for every design it can be given.
THEOREM StronglyBoundIsKept == Spec => StronglyBoundStay
<1>1. Binding /\ [Next]_vars => Binding'
  BY StepTables, StepPlan DEF Binding
<1>2. Binding /\ [Next]_vars =>
         [\A n \in Nets, w \in Wires :
            (wires[n][w] # Unbound /\ wires[n][w].strength > STRENGTH_STRONG)
               => wires'[n][w] = wires[n][w]]_vars
  BY StepKeepsStrong
<1> QED BY InitBinding, <1>1, <1>2, PTL DEF Spec, StronglyBoundStay

-----------------------------------------------------------------------------
(* The counts of the nets on a wire.  For the counts of nets to be right    *)
(* the counts of arcs need not be: integers will do.                        *)

IntEntry == [pip : Pips \cup {NoPip}, count : Int]

Books ==
    /\ nd_wires \in [Nets -> [Wires -> IntEntry \cup {Unbound}]]
    /\ curr_cong \in [Wires -> Int]
    /\ CongestionCounts

LEMMA EntryIsBound == ASSUME NEW e \in IntEntry PROVE e # Unbound
BY Router2Assumption DEF IntEntry

\* One net takes a wire, leaves it, or does neither.
LEMMA OneNetChanges ==
    ASSUME NEW f, NEW g, NEW n \in Nets, NEW w \in Wires,
           \A m \in Nets : m # n => g[m][w] = f[m][w]
    PROVE  LET Users(h) == {m \in Nets : h[m][w] # Unbound} IN
           /\ Cardinality(Users(f)) \in Int
           /\ Cardinality(Users(g)) =
                 Cardinality(Users(f)) +
                    (IF f[n][w] = Unbound /\ g[n][w] # Unbound THEN 1
                     ELSE IF f[n][w] # Unbound /\ g[n][w] = Unbound THEN -1 ELSE 0)
<1> DEFINE F == {m \in Nets : f[m][w] # Unbound}
           G == {m \in Nets : g[m][w] # Unbound}
<1>1. IsFiniteSet(F) /\ IsFiniteSet(G)
  BY FS_Subset, Router2Assumption
<1>2. Cardinality(F) \in Nat /\ Cardinality(G) \in Nat
  BY <1>1, FS_CardinalityType
<1>3. CASE f[n][w] = Unbound /\ g[n][w] # Unbound
  <2>1. G = F \cup {n} /\ n \notin F
    BY <1>3
  <2>2. Cardinality(G) = Cardinality(F) + 1
    BY <1>1, <2>1, FS_AddElement
  <2> QED BY <1>2, <1>3, <2>2
<1>4. CASE f[n][w] # Unbound /\ g[n][w] = Unbound
  <2>1. F = G \cup {n} /\ n \notin G
    BY <1>4
  <2>2. Cardinality(F) = Cardinality(G) + 1
    BY <1>1, <2>1, FS_AddElement
  <2>3. Cardinality(G) = Cardinality(F) + -1
    BY <1>2, <2>2
  <2> QED BY <1>2, <1>4, <2>3
<1>5. CASE f[n][w] = Unbound /\ g[n][w] = Unbound
  <2>1. G = F
    BY <1>5
  <2>2. Cardinality(G) = Cardinality(F)
    BY <2>1
  <2> QED BY <1>2, <1>5, <2>2
<1>6. CASE f[n][w] # Unbound /\ g[n][w] # Unbound
  <2>1. G = F
    BY <1>6
  <2>2. Cardinality(G) = Cardinality(F)
    BY <2>1
  <2> QED BY <1>2, <1>6, <2>2
<1> QED BY <1>3, <1>4, <1>5, <1>6

LEMMA BindRouteCounts ==
    ASSUME Books, NEW n \in Nets, NEW root \in Wires, NEW hops,
           \A w \in DOMAIN hops : hops[w] \in Pips,
           BindRoute(n, root, hops)
    PROVE  Books'
<1> DEFINE old == nd_wires[n]
           entry(w) == IF w \in DOMAIN hops
                       THEN [pip |-> hops[w],
                             count |-> IF old[w] = Unbound THEN 1 ELSE old[w].count + 1]
                       ELSE IF w = root /\ old[w] = Unbound
                            THEN [pip |-> NoPip, count |-> 0]
                            ELSE old[w]
<1>1. \A w \in Wires : old[w] \in IntEntry \cup {Unbound}
  BY DEF Books
<1>2. ASSUME NEW w \in Wires
      PROVE  /\ entry(w) \in IntEntry \cup {Unbound}
             /\ entry(w) # Unbound <=> old[w] # Unbound \/ w \in DOMAIN hops \cup {root}
  <2>1. CASE w \in DOMAIN hops
    <3>1. (IF old[w] = Unbound THEN 1 ELSE old[w].count + 1) \in Int
      BY <1>1 DEF IntEntry
    <3>2. entry(w) \in IntEntry
      BY <2>1, <3>1 DEF IntEntry
    <3> QED BY <2>1, <3>2, EntryIsBound
  <2>2. CASE w \notin DOMAIN hops /\ w = root /\ old[w] = Unbound
    <3>1. [pip |-> NoPip, count |-> 0] \in IntEntry
      BY DEF IntEntry
    <3> QED BY <2>2, <3>1, EntryIsBound
  <2>3. CASE w \notin DOMAIN hops /\ ~(w = root /\ old[w] = Unbound)
    BY <1>1, <2>3
  <2> QED BY <2>1, <2>2, <2>3
<1>3. nd_wires' = [nd_wires EXCEPT ![n] = [w \in Wires |-> entry(w)]]
  BY DEF BindRoute
<1>4. \A w \in Wires : nd_wires'[n][w] = entry(w)
  BY <1>3 DEF Books
<1>5. \A m \in Nets : m # n => nd_wires'[m] = nd_wires[m]
  BY <1>3 DEF Books
<1>6. curr_cong' = [w \in Wires |->
          curr_cong[w] + IF w \in NewlyUsed(n, DOMAIN hops \cup {root}) THEN 1 ELSE 0]
  BY DEF BindRoute
<1> HIDE DEF entry, old
<1>7. nd_wires' \in [Nets -> [Wires -> IntEntry \cup {Unbound}]]
  BY <1>2, <1>3 DEF Books
<1>8. curr_cong' \in [Wires -> Int]
  BY <1>6 DEF Books
<1>9. ASSUME NEW w \in Wires
      PROVE  curr_cong'[w] = Cardinality({m \in Nets : nd_wires'[m][w] # Unbound})
  <2>1. curr_cong[w] = Cardinality({m \in Nets : nd_wires[m][w] # Unbound})
    BY DEF Books, CongestionCounts
  <2>2. w \in NewlyUsed(n, DOMAIN hops \cup {root}) <=>
           nd_wires[n][w] = Unbound /\ nd_wires'[n][w] # Unbound
    BY <1>2, <1>4 DEF NewlyUsed, old
  <2>3. ~(nd_wires[n][w] # Unbound /\ nd_wires'[n][w] = Unbound)
    BY <1>2, <1>4 DEF old
  <2>4. \A m \in Nets : m # n => nd_wires'[m][w] = nd_wires[m][w]
    BY <1>5
  <2>5. Cardinality({m \in Nets : nd_wires'[m][w] # Unbound}) =
           Cardinality({m \in Nets : nd_wires[m][w] # Unbound}) +
             (IF nd_wires[n][w] = Unbound /\ nd_wires'[n][w] # Unbound THEN 1
              ELSE IF nd_wires[n][w] # Unbound /\ nd_wires'[n][w] = Unbound THEN -1 ELSE 0)
    BY <2>4, OneNetChanges
  <2> QED BY <1>6, <2>1, <2>2, <2>3, <2>5
<1> QED BY <1>7, <1>8, <1>9 DEF Books, CongestionCounts

LEMMA UnbindRouteCounts ==
    ASSUME Books, NEW n \in Nets, NEW W,
           \A w \in W : w \in Wires => nd_wires[n][w] # Unbound,
           UnbindRoute(n, W)
    PROVE  Books'
<1> DEFINE old == nd_wires[n]
           gone == {w \in W : old[w].count = 1}
           entry(w) == IF w \in gone THEN Unbound
                       ELSE IF w \in W THEN [old[w] EXCEPT !.count = @ - 1]
                       ELSE old[w]
<1>1. \A w \in Wires : old[w] \in IntEntry \cup {Unbound}
  BY DEF Books
<1>2. ASSUME NEW w \in Wires
      PROVE  /\ entry(w) \in IntEntry \cup {Unbound}
             /\ entry(w) # Unbound <=> old[w] # Unbound /\ w \notin gone
             /\ w \in gone => old[w] # Unbound
  <2>1. CASE w \in W
    <3>1. old[w] \in IntEntry
      BY <1>1, <2>1
    <3>2. [old[w] EXCEPT !.count = @ - 1] \in IntEntry
      BY <3>1 DEF IntEntry
    <3> QED BY <2>1, <3>1, <3>2, EntryIsBound
  <2>2. CASE w \notin W
    BY <1>1, <2>2
  <2> QED BY <2>1, <2>2
<1>3. nd_wires' = [nd_wires EXCEPT ![n] = [w \in Wires |-> entry(w)]]
  BY DEF UnbindRoute
<1>4. \A w \in Wires : nd_wires'[n][w] = entry(w)
  BY <1>3 DEF Books
<1>5. \A m \in Nets : m # n => nd_wires'[m] = nd_wires[m]
  BY <1>3 DEF Books
<1>6. curr_cong' = [w \in Wires |-> curr_cong[w] - IF w \in gone THEN 1 ELSE 0]
  BY DEF UnbindRoute
<1> HIDE DEF entry, old, gone
<1>7. nd_wires' \in [Nets -> [Wires -> IntEntry \cup {Unbound}]]
  BY <1>2, <1>3 DEF Books
<1>8. curr_cong' \in [Wires -> Int]
  BY <1>6 DEF Books
<1>9. ASSUME NEW w \in Wires
      PROVE  curr_cong'[w] = Cardinality({m \in Nets : nd_wires'[m][w] # Unbound})
  <2>1. curr_cong[w] = Cardinality({m \in Nets : nd_wires[m][w] # Unbound})
    BY DEF Books, CongestionCounts
  <2>2. w \in gone <=> nd_wires[n][w] # Unbound /\ nd_wires'[n][w] = Unbound
    BY <1>2, <1>4 DEF old
  <2>3. ~(nd_wires[n][w] = Unbound /\ nd_wires'[n][w] # Unbound)
    BY <1>2, <1>4 DEF old
  <2>4. \A m \in Nets : m # n => nd_wires'[m][w] = nd_wires[m][w]
    BY <1>5
  <2>5. Cardinality({m \in Nets : nd_wires'[m][w] # Unbound}) =
           Cardinality({m \in Nets : nd_wires[m][w] # Unbound}) +
             (IF nd_wires[n][w] = Unbound /\ nd_wires'[n][w] # Unbound THEN 1
              ELSE IF nd_wires[n][w] # Unbound /\ nd_wires'[n][w] = Unbound THEN -1 ELSE 0)
    BY <2>4, OneNetChanges
  <2>6. curr_cong[w] \in Int
    BY DEF Books
  <2> QED BY <1>6, <2>1, <2>2, <2>3, <2>5, <2>6
<1> QED BY <1>7, <1>8, <1>9 DEF Books, CongestionCounts

LEMMA InitBooks == Init => Books
<1> SUFFICES ASSUME Init PROVE Books
  OBVIOUS
<1> USE Router2Assumption
<1>1. ArchTypeOK /\ Consistent
  BY InitBinding DEF Binding
<1>2. ASSUME NEW n \in Nets, NEW w \in Wires
      PROVE  /\ nd_wires[n][w] \in IntEntry \cup {Unbound}
             /\ nd_wires[n][w] # Unbound <=> wires[n][w] # Unbound
  <2>1. nd_wires[n][w] = IF wires[n][w] = Unbound THEN Unbound
                         ELSE [pip |-> wires[n][w].pip, count |-> 0]
    BY DEF Init
  <2>2. CASE wires[n][w] # Unbound
    <3>1. [pip |-> wires[n][w].pip, count |-> 0] \in IntEntry
      BY <1>1, <2>2 DEF ArchTypeOK, PipMap, IntEntry
    <3> QED BY <2>1, <2>2, <3>1, EntryIsBound
  <2> QED BY <2>1, <2>2
<1>3. nd_wires \in [Nets -> [Wires -> IntEntry \cup {Unbound}]]
  BY <1>2 DEF Init
<1>4. curr_cong \in [Wires -> Int]
  BY DEF Init
<1>5. ASSUME NEW w \in Wires
      PROVE  curr_cong[w] = Cardinality({n \in Nets : nd_wires[n][w] # Unbound})
  <2> DEFINE Users == {n \in Nets : nd_wires[n][w] # Unbound}
  <2>1. \A n \in Nets : nd_wires[n][w] # Unbound <=> wire_to_net[w] = n
    <3> SUFFICES ASSUME NEW n \in Nets
                 PROVE  nd_wires[n][w] # Unbound <=> wire_to_net[w] = n
      OBVIOUS
    <3>1. n # NoNet
      BY RoutingAssumption
    <3>2. wires[n][w] # Unbound => wire_to_net[w] = n
      BY <1>1 DEF Consistent, RecordedIsBound
    <3>3. wire_to_net[w] = n => wires[n][w] # Unbound
      BY <1>1, <3>1 DEF Consistent, BoundIsRecorded
    <3> QED BY <1>2, <3>2, <3>3
  <2>2. CASE wire_to_net[w] = NoNet
    <3>1. Users = {}
      BY <2>1, <2>2, RoutingAssumption
    <3>2. Cardinality(Users) = 0
      BY <3>1, FS_EmptySet
    <3> QED BY <2>2, <3>2 DEF Init
  <2>3. CASE wire_to_net[w] # NoNet
    <3>1. wire_to_net[w] \in Nets
      BY <1>1, <2>3 DEF ArchTypeOK
    <3>2. Users = {wire_to_net[w]}
      BY <2>1, <3>1
    <3>3. Cardinality(Users) = 1
      BY <3>2, FS_Singleton
    <3> QED BY <2>3, <3>3 DEF Init
  <2> QED BY <2>2, <2>3
<1> QED BY <1>3, <1>4, <1>5 DEF Books, CongestionCounts

\* Ripping up an arc whose route is complete takes every count it gave.
LEMMA RipupCounts ==
    ASSUME Books, NEW a \in Arcs,
           a \in routed => Complete(ArcNet[a], ArcSink[a]),
           ripup_arc(a)
    PROVE  Books'
<1>1. CASE a \in routed
  <2>1. ArcNet[a] \in Nets
    BY Router2Assumption
  <2>2. \A w \in Body(ArcNet[a], ArcSink[a]) : nd_wires[ArcNet[a]][w] # Unbound
    BY <1>1 DEF Complete, Ends
  <2>3. UnbindRoute(ArcNet[a], Body(ArcNet[a], ArcSink[a]))
    BY <1>1 DEF ripup_arc
  <2> HIDE DEF Body
  <2> QED BY <2>1, <2>2, <2>3, UnbindRouteCounts
<1>2. CASE a \notin routed
  BY <1>2 DEF ripup_arc, bookVars, Books, CongestionCounts
<1> QED BY <1>1, <1>2

LEMMA SetupCounts ==
    ASSUME Books, arcs \subseteq Arcs, SetupWires PROVE Books'
<1> DEFINE legal == {a \in arcs : check_arc_routing(a)}
           body == [a \in legal |-> Body(ArcNet[a], ArcSink[a])]
           uses == {u \in legal \X Wires : u[2] \in body[u[1]]}
           entry(n, w) == IF nd_wires[n][w] = Unbound THEN Unbound
                          ELSE [nd_wires[n][w] EXCEPT
                                  !.count = Cardinality({u \in uses : u[2] = w /\ ArcNet[u[1]] = n})]
<1>1. nd_wires' = [n \in Nets |-> [w \in Wires |-> entry(n, w)]]
  BY DEF SetupWires
<1>2. curr_cong' = curr_cong
  BY DEF SetupWires
<1>3. IsFiniteSet(uses)
  <2>1. IsFiniteSet(legal)
    BY FS_Subset, Router2Assumption
  <2>2. IsFiniteSet(legal \X Wires)
    BY <2>1, FS_Product, Router2Assumption
  <2> QED BY <2>2, FS_Subset
<1> HIDE DEF uses
<1>4. ASSUME NEW n \in Nets, NEW w \in Wires
      PROVE  /\ entry(n, w) \in IntEntry \cup {Unbound}
             /\ entry(n, w) # Unbound <=> nd_wires[n][w] # Unbound
  <2> DEFINE these == {u \in uses : u[2] = w /\ ArcNet[u[1]] = n}
  <2>1. IsFiniteSet(these)
    BY <1>3, FS_Subset
  <2>2. Cardinality(these) \in Int
    BY <2>1, FS_CardinalityType
  <2> HIDE DEF these
  <2>3. CASE nd_wires[n][w] # Unbound
    <3>1. nd_wires[n][w] \in IntEntry
      BY <2>3 DEF Books
    <3>2. [nd_wires[n][w] EXCEPT !.count = Cardinality(these)] \in IntEntry
      BY <2>2, <3>1 DEF IntEntry
    <3>3. entry(n, w) = [nd_wires[n][w] EXCEPT !.count = Cardinality(these)]
      BY <2>3 DEF these
    <3> QED BY <2>3, <3>2, <3>3, EntryIsBound
  <2> QED BY <2>3
<1> HIDE DEF entry
<1>5. nd_wires' \in [Nets -> [Wires -> IntEntry \cup {Unbound}]]
  BY <1>1, <1>4
<1>6. ASSUME NEW w \in Wires
      PROVE  curr_cong'[w] = Cardinality({n \in Nets : nd_wires'[n][w] # Unbound})
  <2>1. {n \in Nets : nd_wires'[n][w] # Unbound} = {n \in Nets : nd_wires[n][w] # Unbound}
    BY <1>1, <1>4
  <2>2. curr_cong[w] = Cardinality({n \in Nets : nd_wires[n][w] # Unbound})
    BY DEF Books, CongestionCounts
  <2> QED BY <1>2, <2>1, <2>2
<1> QED BY <1>2, <1>5, <1>6 DEF Books, CongestionCounts

\* What the search returns is a path, and it ends where the net starts.
LEMMA PathFound ==
    ASSUME NEW t, NEW a \in Arcs, NEW tree, NEW path \in PathsFor(t, a, tree)
    PROVE  /\ LeadsTo(path, ArcSink[a])
           /\ RouteRoot(ArcNet[a], PipSrc[path[Len(path)]])
           /\ \A i \in 1..(Len(path) - 1) : ~RouteRoot(ArcNet[a], PipSrc[path[i]])
<1>1. path \in AllPathsBack[ArcSink[a]]
  BY DEF PathsFor
<1>2. path \in {q \in PathsBack(ArcSink[a]) : LeadsTo(q, ArcSink[a])}
  BY <1>1 DEF AllPathsBack
<1> QED BY <1>2 DEF PathsFor

LEMMA RouteArcCounts ==
    ASSUME Books, NEW t \in Workers, NEW a \in Arcs, RouteArc(t, a) PROVE Books'
<1> DEFINE n == ArcNet[a]
           root(path) == PipSrc[path[Len(path)]]
           hops(path) == [w \in {PipDst[path[i]] : i \in 1..Len(path)} |->
                            CHOOSE p \in {path[i] : i \in 1..Len(path)} : PipDst[p] = w]
<1>1. PICK path \in PathsFor(t, a, Tree(n)) :
         \/ BindRoute(n, root(path), hops(path))
         \/ UNCHANGED bookVars
  BY DEF RouteArc
<1>2. path \in Seq(Pips) /\ path # <<>>
  BY PathFound DEF LeadsTo
<1>3. n \in Nets /\ root(path) \in Wires
  <2>1. Len(path) \in 1..Len(path)
    BY <1>2
  <2>2. path[Len(path)] \in Pips
    BY <1>2, <2>1
  <2> QED BY <2>2, Router2Assumption
<1>4. \A w \in DOMAIN hops(path) : hops(path)[w] \in Pips
  <2>1. {path[i] : i \in 1..Len(path)} \subseteq Pips
    BY <1>2
  <2>2. \A w \in DOMAIN hops(path) : hops(path)[w] \in {path[i] : i \in 1..Len(path)}
    OBVIOUS
  <2> QED BY <2>1, <2>2
<1>5. CASE UNCHANGED bookVars
  BY <1>5 DEF bookVars, Books, CongestionCounts
<1> HIDE DEF root, hops, n
<1> QED BY <1>1, <1>3, <1>4, <1>5, BindRouteCounts

\* Four actions change the books.
LEMMA BookSteps ==
    ASSUME [Next]_vars
    PROVE  \/ SetupWires
           \/ \E t \in Workers, a \in Arcs : RouteArc(t, a)
           \/ \E t \in Workers, a \in Arcs : RipupArc(t, a)
           \/ \E a \in Arcs : CheckArc(a)
           \/ UNCHANGED bookVars
<1>1. CASE UNCHANGED vars
  BY <1>1 DEF vars
<1>2. CASE ReserveDone \/ DoRoute \/ UpdateCongestion \/ Returned
  BY <1>2 DEF ReserveDone, DoRoute, UpdateCongestion, Returned, vars
<1>3. CASE \E n \in Nets : ReserveWires(n)
  BY <1>3 DEF ReserveWires
<1>4. CASE RouteStep
  <2>1. CASE NextStage
    BY <2>1 DEF NextStage
  <2>2. CASE \E t \in Workers, n \in Nets : TakeNet(t, n)
    BY <2>2 DEF TakeNet
  <2>3. CASE \E t \in Workers, a \in Arcs : KeepArc(t, a)
    BY <2>3 DEF KeepArc
  <2>4. CASE \E t \in Workers, a \in Arcs : SinkDone(t, a)
    BY <2>4 DEF SinkDone
  <2>5. CASE \E t \in Workers, a \in Arcs : RouteFails(t, a)
    BY <2>5 DEF RouteFails
  <2>6. CASE \E t \in Workers : NetDone(t)
    BY <2>6 DEF NetDone
  <2> QED BY <1>4, <2>1, <2>2, <2>3, <2>4, <2>5, <2>6 DEF RouteStep
<1>5. CASE BindStep
  <2>1. CASE \E n \in Nets : BindNet(n)
    BY <2>1 DEF BindNet
  <2>2. CASE \E w \in Wires : UnbindOld(w)
    BY <2>2 DEF UnbindOld
  <2>3. CASE BindRoot
    BY <2>3 DEF BindRoot
  <2>4. CASE \E p \in Pips : BindPip(p)
    BY <2>4 DEF BindPip
  <2>5. CASE NetBound \/ AllBound
    BY <2>5 DEF NetBound, AllBound
  <2> QED BY <1>5, <2>1, <2>2, <2>3, <2>4, <2>5 DEF BindStep
<1> QED BY <1>1, <1>2, <1>3, <1>4, <1>5 DEF Next

LEMMA StepCounts ==
    ASSUME Binding, Books, [Next]_vars PROVE Books'
<1>1. CASE SetupWires
  BY <1>1, SetupCounts DEF Binding, BindPlan
<1>2. CASE \E t \in Workers, a \in Arcs : RouteArc(t, a)
  BY <1>2, RouteArcCounts
<1>3. CASE \E t \in Workers, a \in Arcs : RipupArc(t, a)
  <2>1. PICK t \in Workers, a \in Arcs : RipupArc(t, a)
    BY <1>3
  <2>2. CASE RipupThrows(a)
    BY <2>1, <2>2 DEF RipupArc, bookVars, Books, CongestionCounts
  <2>3. CASE ~RipupThrows(a)
    BY <2>1, <2>3, RipupCounts DEF RipupArc, RipupThrows
  <2> QED BY <2>2, <2>3
<1>4. CASE \E a \in Arcs : CheckArc(a)
  <2>1. PICK a \in Arcs : CheckArc(a)
    BY <1>4
  <2>2. ArcNet[a] = net
    BY <2>1 DEF CheckArc, Binding, BindPlan
  <2>3. \/ UNCHANGED bookVars
        \/ Complete(net, ArcSink[a]) /\ ripup_arc(a)
    BY <2>1 DEF CheckArc
  <2>4. CASE UNCHANGED bookVars
    BY <2>4 DEF bookVars, Books, CongestionCounts
  <2> QED BY <2>2, <2>3, <2>4, RipupCounts
<1>5. CASE UNCHANGED bookVars
  BY <1>5 DEF bookVars, Books, CongestionCounts
<1> QED BY <1>1, <1>2, <1>3, <1>4, <1>5, BookSteps

\* curr_cong is the number of nets on each wire, whatever the device, the
\* netlist and the initial routing, and however threads and rip-ups interleave.
THEOREM CountsAreRight == Spec => []CongestionCounts
<1>1. Binding /\ Books /\ [Next]_vars => Binding' /\ Books'
  BY StepTables, StepPlan, StepCounts DEF Binding
<1>2. Books => CongestionCounts
  BY DEF Books
<1> QED BY InitBinding, InitBooks, <1>1, <1>2, PTL DEF Spec

-----------------------------------------------------------------------------
(* A walk that collects wires until it finds no more.  The recursive function *)
(* that describes it yields the least set that is closed under its step.      *)

Grows(g) ==
    /\ g \in [SUBSET Wires -> SUBSET Wires]
    /\ \A S \in SUBSET Wires : S \subseteq g[S]
    /\ \A S, T \in SUBSET Wires : S \subseteq T => g[S] \subseteq g[T]

Closure(g, S) ==
    {w \in Wires : \A C \in SUBSET Wires : (S \subseteq C /\ g[C] \subseteq C) => w \in C}

LEMMA ClosureUnfolds ==
    ASSUME NEW g, Grows(g), NEW S \in SUBSET Wires
    PROVE  Closure(g, S) = IF g[S] = S THEN S ELSE Closure(g, g[S])
<1>1. CASE g[S] = S
  BY <1>1 DEF Closure
<1>2. CASE g[S] # S
  <2>1. \A C \in SUBSET Wires : (S \subseteq C /\ g[C] \subseteq C)
                                   <=> (g[S] \subseteq C /\ g[C] \subseteq C)
    BY DEF Grows
  <2> QED BY <1>2, <2>1 DEF Closure
<1> QED BY <1>1, <1>2

\* f walks from a set of wires by g until nothing is added.
Walks(f, g) == f = [S \in SUBSET Wires |-> IF g[S] = S THEN S ELSE f[g[S]]]

LEMMA WalkIsClosure ==
    ASSUME NEW g, Grows(g),
           NEW f, Walks(f, g),
           NEW S \in SUBSET Wires
    PROVE  f[S] = Closure(g, S)
<1> DEFINE Bad == {T \in SUBSET Wires : f[T] # Closure(g, T)}
           Rest(T) == Wires \ T
           Rests == {Rest(T) : T \in Bad}
<1> SUFFICES ASSUME Bad # {} PROVE FALSE
  OBVIOUS
<1>1. IsWellFoundedOn(StrictSubsetOrdering(Wires), SUBSET Wires)
  <2>1. IsFiniteSet(Wires)
    BY Router2Assumption
  <2>2. FiniteSubsetsOf(Wires) = SUBSET Wires
    BY <2>1, FS_FiniteSubsetsOfFinite
  <2> QED BY <2>1, <2>2, FS_StrictSubsetOrderingWellFounded
<1>2. Rests \subseteq SUBSET Wires /\ Rests # {}
  <2>1. PICK T \in Bad : TRUE
    OBVIOUS
  <2>2. Rest(T) \in Rests
    OBVIOUS
  <2>3. \A V \in Rests : V \in SUBSET Wires
    <3> HIDE DEF Bad
    <3> QED OBVIOUS
  <2> HIDE DEF Rests
  <2> QED BY <2>2, <2>3
<1>3. PICK U \in Rests : \A V \in Rests : ~(<<V, U>> \in StrictSubsetOrdering(Wires))
  <2> HIDE DEF Rests
  <2> QED BY <1>1, <1>2, WFMin
<1>4. PICK T \in Bad : U = Rest(T)
  OBVIOUS
<1>5. T \in SUBSET Wires /\ f[T] # Closure(g, T) /\ g[T] \in SUBSET Wires /\ T \subseteq g[T]
  BY DEF Grows
<1>6. g[T] # T
  <2>1. g[T] = T => f[T] = T
    BY <1>5 DEF Walks
  <2> QED BY <1>5, <2>1, ClosureUnfolds
<1>7. g[T] \in Bad
  <2>1. f[T] = f[g[T]]
    BY <1>5, <1>6 DEF Walks
  <2>2. Closure(g, T) = Closure(g, g[T])
    BY <1>5, <1>6, ClosureUnfolds
  <2> QED BY <1>5, <2>1, <2>2
<1>8. <<Rest(g[T]), U>> \in StrictSubsetOrdering(Wires)
  <2>1. Rest(g[T]) \subseteq Rest(T) /\ Rest(g[T]) # Rest(T)
    BY <1>5, <1>6
  <2> HIDE DEF Bad
  <2> QED BY <1>4, <2>1 DEF StrictSubsetOrdering
<1>9. Rest(g[T]) \in Rests
  <2> HIDE DEF Bad, Rest
  <2> QED BY <1>7
<1> QED BY <1>3, <1>8, <1>9

\* A recursive walk of wires is there, and what it yields is least.
LEMMA WalkIsThere ==
    ASSUME NEW g, Grows(g)
    PROVE  Walks([S \in SUBSET Wires |-> Closure(g, S)], g)
<1> DEFINE c == [S \in SUBSET Wires |-> Closure(g, S)]
<1>1. \A S \in SUBSET Wires : g[S] \in SUBSET Wires
  BY DEF Grows
<1>2. \A S \in SUBSET Wires : Closure(g, S) = IF g[S] = S THEN S ELSE Closure(g, g[S])
  BY ClosureUnfolds
<1> QED BY <1>1, <1>2 DEF Walks

LEMMA WalkIsLeast ==
    ASSUME NEW g, Grows(g),
           NEW f, Walks(f, g),
           NEW S \in SUBSET Wires
    PROVE  /\ S \subseteq f[S]
           /\ \A C \in SUBSET Wires : (S \subseteq C /\ g[C] \subseteq C) => f[S] \subseteq C
<1>1. f[S] = Closure(g, S)
  BY WalkIsClosure
<1> QED BY <1>1 DEF Closure

LEMMA WalkFrom ==
    ASSUME NEW g, Grows(g), NEW f, Walks(f, g), NEW w \in Wires
    PROVE  /\ w \in f[{w}]
           /\ \A C \in SUBSET Wires : (w \in C /\ g[C] \subseteq C) => f[{w}] \subseteq C
<1> DEFINE T == {w}
<1>1. T \in SUBSET Wires
  OBVIOUS
<1> HIDE DEF T
<1>2. /\ T \subseteq f[T]
      /\ \A C \in SUBSET Wires : (T \subseteq C /\ g[C] \subseteq C) => f[T] \subseteq C
  BY <1>1, WalkIsLeast
<1> QED BY <1>2 DEF T

\* The walk back from d over the books b of net n.  Trail(n, d) is this walk over
\* the books of the moment.
EndsIn(b, n, w) == AtSource(n, w) \/ b[w] = Unbound \/ b[w].pip = NoPip

Uphill(b, n, S) == S \cup {PipSrc[b[u].pip] : u \in {v \in S : ~EndsIn(b, n, v)}}

TrailIn(b, n, d) ==
    LET back[seen \in SUBSET Wires] ==
          IF Uphill(b, n, seen) = seen THEN seen ELSE back[Uphill(b, n, seen)]
    IN back[{d}]

NetBooks == [Wires -> IntEntry \cup {Unbound}]

LEMMA UphillGrows ==
    ASSUME NEW b \in NetBooks, NEW n
    PROVE  Grows([S \in SUBSET Wires |-> Uphill(b, n, S)])
<1> DEFINE g == [S \in SUBSET Wires |-> Uphill(b, n, S)]
<1>1. \A u \in Wires : ~EndsIn(b, n, u) => PipSrc[b[u].pip] \in Wires
  BY Router2Assumption DEF EndsIn, NetBooks, IntEntry
<1>2. \A S \in SUBSET Wires : Uphill(b, n, S) \in SUBSET Wires /\ S \subseteq Uphill(b, n, S)
  BY <1>1 DEF Uphill
<1>3. \A S, T \in SUBSET Wires : S \subseteq T => Uphill(b, n, S) \subseteq Uphill(b, n, T)
  BY DEF Uphill
<1>4. \A S \in SUBSET Wires : g[S] = Uphill(b, n, S)
  OBVIOUS
<1>5. g \in [SUBSET Wires -> SUBSET Wires]
  BY <1>2
<1> HIDE DEF g
<1> QED BY <1>2, <1>3, <1>4, <1>5 DEF Grows, g

\* A trail is the least set with d in it and with what drives any of its wires.
LEMMA TrailIsClosed ==
    ASSUME NEW b \in NetBooks, NEW n, NEW d \in Wires
    PROVE  /\ TrailIn(b, n, d) \subseteq Wires /\ d \in TrailIn(b, n, d)
           /\ \A w \in TrailIn(b, n, d) :
                 ~EndsIn(b, n, w) => PipSrc[b[w].pip] \in TrailIn(b, n, d)
           /\ \A S \in SUBSET Wires :
                 (/\ d \in S
                  /\ \A w \in S : ~EndsIn(b, n, w) => PipSrc[b[w].pip] \in S)
                    => TrailIn(b, n, d) \subseteq S
<1> DEFINE g == [S \in SUBSET Wires |-> Uphill(b, n, S)]
           Fits(f) == f = [seen \in SUBSET Wires |->
                              IF Uphill(b, n, seen) = seen THEN seen ELSE f[Uphill(b, n, seen)]]
           c == [S \in SUBSET Wires |-> Closure(g, S)]
           back == CHOOSE f : Fits(f)
<1>1. Grows(g) /\ \A S \in SUBSET Wires : g[S] = Uphill(b, n, S) /\ Uphill(b, n, S) \in SUBSET Wires
  <2>1. Grows(g)
    BY UphillGrows
  <2> QED BY <2>1 DEF Grows
<1>2. Fits(c)
  <2> HIDE DEF g
  <2>1. \A S \in SUBSET Wires :
           Closure(g, S) = IF Uphill(b, n, S) = S THEN S ELSE Closure(g, Uphill(b, n, S))
    BY <1>1, ClosureUnfolds
  <2> QED BY <1>1, <2>1
<1>3. Fits(back)
  <2> HIDE DEF Fits, c
  <2> QED BY <1>2
<1>4. TrailIn(b, n, d) = back[{d}]
  BY DEF TrailIn
<1>5. TrailIn(b, n, d) = Closure(g, {d})
  <2>1. Walks(back, g)
    <3> HIDE DEF back, g
    <3> QED BY <1>1, <1>3 DEF Walks
  <2>2. {d} \in SUBSET Wires
    OBVIOUS
  <2> HIDE DEF back, g
  <2>3. back[{d}] = Closure(g, {d})
    BY <1>1, <2>1, <2>2, WalkIsClosure
  <2> QED BY <1>4, <2>3
<1> HIDE DEF g, back, Fits, c
<1> DEFINE K == Closure(g, {d})
<1>6. \A S \in SUBSET Wires :
         g[S] \subseteq S <=> \A w \in S : ~EndsIn(b, n, w) => PipSrc[b[w].pip] \in S
  BY <1>1 DEF Uphill
<1>7. \A S \in SUBSET Wires : (d \in S /\ g[S] \subseteq S) => K \subseteq S
  BY DEF Closure
<1>8. K \in SUBSET Wires /\ d \in K
  BY DEF Closure
<1>9. g[K] \subseteq K
  <2>1. \A C \in SUBSET Wires : ({d} \subseteq C /\ g[C] \subseteq C) => g[K] \subseteq C
    <3> SUFFICES ASSUME NEW C \in SUBSET Wires, {d} \subseteq C, g[C] \subseteq C
                 PROVE  g[K] \subseteq C
      OBVIOUS
    <3>1. K \subseteq C
      BY <1>7
    <3> HIDE DEF K
    <3>2. g[K] \subseteq g[C]
      BY <1>1, <1>8, <3>1 DEF Grows
    <3> QED BY <3>2
  <2>2. g[K] \in SUBSET Wires
    <3> HIDE DEF K
    <3> QED BY <1>1, <1>8
  <2>3. \A w \in g[K] : w \in Closure(g, {d})
    <3> HIDE DEF K
    <3> QED BY <2>1, <2>2 DEF Closure
  <2> QED BY <2>3
<1> HIDE DEF K
<1>10. \A w \in K : ~EndsIn(b, n, w) => PipSrc[b[w].pip] \in K
  BY <1>6, <1>8, <1>9
<1>11. TrailIn(b, n, d) = K
  BY <1>5 DEF K
<1> QED BY <1>6, <1>7, <1>8, <1>10, <1>11

LEMMA TrailOfBooks ==
    ASSUME NEW n, NEW d
    PROVE  /\ Trail(n, d) = TrailIn(nd_wires[n], n, d)
           /\ Trail(n, d)' = TrailIn(nd_wires'[n], n, d)
           /\ \A w : Ends(n, w) <=> EndsIn(nd_wires[n], n, w)
           /\ \A w : Ends(n, w)' <=> EndsIn(nd_wires'[n], n, w)
BY DEF Trail, TrailIn, Uphill, Ends, EndsIn, AtSource, IsConst

BodyIn(b, n, d) == {w \in TrailIn(b, n, d) : ~AtSource(n, w)}
CompleteIn(b, n, d) == \A w \in BodyIn(b, n, d) : ~EndsIn(b, n, w)

LEMMA BodyOfBooks ==
    ASSUME NEW n, NEW d
    PROVE  /\ Body(n, d) = BodyIn(nd_wires[n], n, d)
           /\ Body(n, d)' = BodyIn(nd_wires'[n], n, d)
           /\ Complete(n, d) <=> CompleteIn(nd_wires[n], n, d)
           /\ Complete(n, d)' <=> CompleteIn(nd_wires'[n], n, d)
<1>1. Body(n, d) = BodyIn(nd_wires[n], n, d) /\ Body(n, d)' = BodyIn(nd_wires'[n], n, d)
  BY TrailOfBooks DEF Body, BodyIn, AtSource, IsConst
<1> QED BY <1>1, TrailOfBooks DEF Complete, CompleteIn

\* A route that is complete stays what it is when its pips stay.
LEMMA CompleteStays ==
    ASSUME NEW b \in NetBooks, NEW c \in NetBooks, NEW n, NEW d \in Wires,
           CompleteIn(b, n, d),
           \A w \in BodyIn(b, n, d) : c[w] # Unbound /\ c[w].pip = b[w].pip
    PROVE  CompleteIn(c, n, d) /\ BodyIn(c, n, d) = BodyIn(b, n, d)
<1> DEFINE T == TrailIn(b, n, d)
           U == TrailIn(c, n, d)
<1>1. /\ T \subseteq Wires /\ d \in T
      /\ \A w \in T : ~EndsIn(b, n, w) => PipSrc[b[w].pip] \in T
      /\ \A S \in SUBSET Wires :
            (d \in S /\ \A w \in S : ~EndsIn(b, n, w) => PipSrc[b[w].pip] \in S) => T \subseteq S
  BY TrailIsClosed
<1>2. /\ U \subseteq Wires /\ d \in U
      /\ \A w \in U : ~EndsIn(c, n, w) => PipSrc[c[w].pip] \in U
      /\ \A S \in SUBSET Wires :
            (d \in S /\ \A w \in S : ~EndsIn(c, n, w) => PipSrc[c[w].pip] \in S) => U \subseteq S
  BY TrailIsClosed
<1>3. \A w \in T : /\ EndsIn(b, n, w) <=> AtSource(n, w)
                   /\ EndsIn(c, n, w) <=> AtSource(n, w)
                   /\ ~AtSource(n, w) => c[w].pip = b[w].pip
  BY DEF CompleteIn, BodyIn, EndsIn
<1> HIDE DEF T, U
<1>4. U \subseteq T
  BY <1>1, <1>2, <1>3
<1>5. T \subseteq U
  BY <1>1, <1>2, <1>3, <1>4
<1>6. T = U
  BY <1>4, <1>5
<1> QED BY <1>3, <1>6 DEF T, U, CompleteIn, BodyIn

\* The route that a path describes.
LEMMA TrailOfPath ==
    ASSUME NEW b \in NetBooks, NEW n, NEW d \in Wires, NEW path, LeadsTo(path, d),
           \A i \in 1..Len(path) : /\ b[PipDst[path[i]]] # Unbound
                                   /\ b[PipDst[path[i]]].pip = path[i]
                                   /\ ~AtSource(n, PipDst[path[i]]),
           AtSource(n, PipSrc[path[Len(path)]])
    PROVE  /\ CompleteIn(b, n, d)
           /\ BodyIn(b, n, d) = {PipDst[path[i]] : i \in 1..Len(path)}
<1> USE Router2Assumption, RoutingAssumption
<1> DEFINE k == Len(path)
           D == {PipDst[path[i]] : i \in 1..k}
           root == PipSrc[path[k]]
           T == TrailIn(b, n, d)
<1>1. k \in Nat /\ k >= 1 /\ \A i \in 1..k : path[i] \in Pips
  BY DEF LeadsTo
<1>2. \A i \in 1..k : PipDst[path[i]] \in Wires /\ PipSrc[path[i]] \in Wires
  BY <1>1
<1>3. d = PipDst[path[1]] /\ \A i \in 1..(k - 1) : PipDst[path[i + 1]] = PipSrc[path[i]]
  BY DEF LeadsTo
<1>4. /\ T \subseteq Wires /\ d \in T
      /\ \A w \in T : ~EndsIn(b, n, w) => PipSrc[b[w].pip] \in T
      /\ \A S \in SUBSET Wires :
            (d \in S /\ \A w \in S : ~EndsIn(b, n, w) => PipSrc[b[w].pip] \in S) => T \subseteq S
  BY TrailIsClosed
<1>5. \A i \in 1..k : ~EndsIn(b, n, PipDst[path[i]]) /\ b[PipDst[path[i]]].pip = path[i]
  BY <1>1 DEF EndsIn
<1> HIDE DEF T
<1>6. T \subseteq D \cup {root}
  <2>1. D \cup {root} \in SUBSET Wires /\ d \in D \cup {root}
    BY <1>1, <1>2, <1>3
  <2>2. ASSUME NEW i \in 1..k PROVE PipSrc[path[i]] \in D \cup {root}
    <3>1. CASE i = k
      BY <3>1
    <3>2. CASE i # k
      <4>1. i \in 1..(k - 1) /\ i + 1 \in 1..k
        BY <1>1, <3>2
      <4> QED BY <1>3, <4>1
    <3> QED BY <3>1, <3>2
  <2>3. \A w \in D : PipSrc[b[w].pip] \in D \cup {root}
    BY <1>5, <2>2
  <2>4. EndsIn(b, n, root)
    BY DEF EndsIn
  <2> HIDE DEF D, root
  <2>5. \A w \in D \cup {root} : ~EndsIn(b, n, w) => PipSrc[b[w].pip] \in D \cup {root}
    BY <2>3, <2>4
  <2> QED BY <1>4, <2>1, <2>5
<1>7. D \subseteq T
  <2> DEFINE I == {i \in 1..k : \A j \in 1..i : PipDst[path[j]] \in T}
  <2>1. 1 \in I
    BY <1>1, <1>3, <1>4
  <2>2. PICK i \in I : \A j \in I : j <= i
    <3>1. I \in SUBSET (1..k) /\ I # {}
      BY <2>1
    <3> HIDE DEF I
    <3> QED BY <1>1, <3>1, LastIndex
  <2>3. i = k
    <3> SUFFICES ASSUME i # k PROVE FALSE
      OBVIOUS
    <3>1. i \in 1..(k - 1) /\ i + 1 \in 1..k /\ i \in 1..i
      BY <1>1
    <3>2. PipDst[path[i]] \in T
      BY <3>1
    <3>3. PipDst[path[i + 1]] \in T
      BY <1>3, <1>4, <1>5, <3>1, <3>2
    <3>4. \A j \in 1..(i + 1) : j \in 1..i \/ j = i + 1
      BY <3>1
    <3>5. i + 1 \in I
      BY <3>1, <3>3, <3>4
    <3> QED BY <2>2, <3>1, <3>5
  <2> QED BY <2>3
<1>8. BodyIn(b, n, d) = D
  BY <1>6, <1>7 DEF BodyIn, T
<1> QED BY <1>5, <1>8 DEF CompleteIn

-----------------------------------------------------------------------------
(* The nets in the hands of the workers. *)

Queues == route_queue \subseteq Nets /\ failed_nets \subseteq Nets /\ late \subseteq Nets

Claims(t) == job[t].todo \cup ({job[t].net} \ {NoNet})

JobTypes ==
    /\ job \in [Workers -> Job]
    /\ retry \subseteq Nets
    /\ stage \in 0..3

\* No net is in two hands, and the workers of earlier stages are done.
JobsApart ==
    /\ \A t, u \in Workers : t # u => Claims(t) \cap Claims(u) = {}
    /\ \A t \in Workers : StageOf(t) < stage => Claims(t) = {}

\* The arcs a worker has in hand are those of its net, and what it is to route is
\* not routed.
ArcsInHand ==
    /\ \A t \in Workers : \A a \in job[t].exam \cup job[t].route :
          a \in arcs /\ ArcNet[a] = job[t].net
    /\ \A t \in Workers : \A a \in job[t].route : a \notin routed
    /\ pc = "setup" => \A t \in Workers : job[t].route = {}

Jobs == JobTypes /\ JobsApart /\ ArcsInHand

\* A worker goes on with its own net.
OwnJob(t) ==
    /\ \A u \in Workers : u # t => job'[u] = job[u]
    /\ job' \in [Workers -> Job]
    /\ Claims(t)' \subseteq Claims(t)
    /\ \A a \in job'[t].exam \cup job'[t].route : a \in arcs /\ ArcNet[a] = job'[t].net
    /\ \A a \in job'[t].route : a \notin routed'
    /\ \A a \in routed' \ routed : a \in job[t].route
    /\ UNCHANGED <<stage, arcs>>
    /\ retry' \subseteq Nets
    /\ pc' # "setup"

LEMMA StepQueues ==
    ASSUME Binding, Queues, [Next]_vars PROVE Queues'
<1>1. CASE UNCHANGED queueVars
  BY <1>1 DEF queueVars, Queues
<1>2. CASE UpdateCongestion
  <2>1. {n \in Nets : Overused(n)} \subseteq Nets
    OBVIOUS
  <2> QED BY <1>2, <2>1, Router2Assumption DEF UpdateCongestion, Queues
<1>3. CASE \E a \in Arcs : CheckArc(a)
  <2>1. PICK a \in Arcs : CheckArc(a)
    BY <1>3
  <2>2. net \in Nets
    BY <2>1, Router2Assumption DEF CheckArc, Binding, BindPlan
  <2>3. failed_nets' \subseteq failed_nets \cup {net} /\ UNCHANGED <<route_queue, late>>
    BY <2>1 DEF CheckArc, queueVars
  <2> QED BY <2>2, <2>3 DEF Queues
<1>4. CASE AllBound
  BY <1>4 DEF AllBound, Queues
<1>5. UNCHANGED queueVars \/ UpdateCongestion \/ (\E a \in Arcs : CheckArc(a)) \/ AllBound
  <2>1. CASE UNCHANGED vars
    BY <2>1 DEF vars
  <2>2. CASE SetupWires \/ ReserveDone \/ DoRoute \/ Returned
    BY <2>2 DEF SetupWires, ReserveDone, DoRoute, Returned, vars
  <2>3. CASE \E n \in Nets : ReserveWires(n)
    BY <2>3 DEF ReserveWires
  <2>4. CASE RouteStep
    <3>1. CASE NextStage \/ \E t \in Workers : NetDone(t)
      BY <3>1 DEF NextStage, NetDone
    <3>2. CASE \E t \in Workers, n \in Nets : TakeNet(t, n)
      BY <3>2 DEF TakeNet
    <3>3. CASE \E t \in Workers, a \in Arcs : KeepArc(t, a) \/ SinkDone(t, a) \/ RouteFails(t, a)
      BY <3>3 DEF KeepArc, SinkDone, RouteFails
    <3>4. CASE \E t \in Workers, a \in Arcs : RipupArc(t, a)
      BY <3>4 DEF RipupArc
    <3>5. CASE \E t \in Workers, a \in Arcs : RouteArc(t, a)
      BY <3>5 DEF RouteArc
    <3> QED BY <2>4, <3>1, <3>2, <3>3, <3>4, <3>5 DEF RouteStep
  <2>5. CASE (\E n \in Nets : BindNet(n)) \/ (\E w \in Wires : UnbindOld(w))
    BY <2>5 DEF BindNet, UnbindOld
  <2>6. CASE BindRoot \/ (\E p \in Pips : BindPip(p)) \/ NetBound
    BY <2>6 DEF BindRoot, BindPip, NetBound
  <2> QED BY <2>1, <2>2, <2>3, <2>4, <2>5, <2>6 DEF Next, BindStep
<1> QED BY <1>1, <1>2, <1>3, <1>4, <1>5

\* The steps that leave the workers alone.
LEMMA JobSteps ==
    ASSUME [Next]_vars
    PROVE  \/ SetupWires
           \/ DoRoute
           \/ RouteStep
           \/ \E a \in Arcs : CheckArc(a)
           \/ UNCHANGED <<jobVars, arcs, routed>> /\ (pc' = "setup" => pc = "setup")
<1>1. CASE UNCHANGED vars
  BY <1>1 DEF vars, bookVars
<1>2. CASE ReserveDone \/ UpdateCongestion \/ Returned
  BY <1>2 DEF ReserveDone, UpdateCongestion, Returned, vars, bookVars
<1>3. CASE \E n \in Nets : ReserveWires(n)
  BY <1>3 DEF ReserveWires, bookVars
<1>4. CASE (\E n \in Nets : BindNet(n)) \/ (\E w \in Wires : UnbindOld(w))
  BY <1>4 DEF BindNet, UnbindOld, bookVars
<1>5. CASE BindRoot \/ (\E p \in Pips : BindPip(p))
  BY <1>5 DEF BindRoot, BindPip, bookVars
<1>6. CASE NetBound \/ AllBound
  BY <1>6 DEF NetBound, AllBound, bookVars
<1> QED BY <1>1, <1>2, <1>3, <1>4, <1>5, <1>6 DEF Next, BindStep

LEMMA OwnJobKeeps ==
    ASSUME Jobs, NEW t \in Workers, OwnJob(t) PROVE Jobs'
<1>1. JobTypes'
  BY DEF Jobs, JobTypes, OwnJob
<1>2. \A u \in Workers : u # t => Claims(u)' = Claims(u)
  BY DEF OwnJob, Claims
<1>3. \A u \in Workers : Claims(u)' \subseteq Claims(u)
  BY <1>2 DEF OwnJob
<1>4. JobsApart'
  <2>1. \A u, v \in Workers : u # v => Claims(u)' \cap Claims(v)' = {}
    BY <1>3 DEF Jobs, JobsApart
  <2>2. \A u \in Workers : StageOf(u) < stage' => Claims(u)' = {}
    BY <1>3 DEF Jobs, JobsApart, OwnJob
  <2> QED BY <2>1, <2>2 DEF JobsApart
<1>5. ArcsInHand'
  <2>1. \A u \in Workers : \A a \in job'[u].exam \cup job'[u].route :
           a \in arcs' /\ ArcNet[a] = job'[u].net
    BY DEF Jobs, ArcsInHand, OwnJob
  <2>2. ASSUME NEW u \in Workers, NEW a \in job'[u].route, a \in routed' PROVE FALSE
    <3>1. u # t /\ a \in job[u].route /\ a \notin routed
      BY <2>2 DEF OwnJob, Jobs, ArcsInHand
    <3>2. a \in job[t].route
      BY <2>2, <3>1 DEF OwnJob
    <3>3. a \in arcs /\ ArcNet[a] = job[t].net /\ ArcNet[a] = job[u].net
      BY <3>1, <3>2 DEF Jobs, ArcsInHand
    <3>4. a \in Arcs => ArcNet[a] \in Nets
      BY Router2Assumption
    <3>5. a \in Arcs
      BY <3>2 DEF Jobs, JobTypes, Job
    <3>6. job[t].net \in Claims(t) /\ job[u].net \in Claims(u)
      BY <3>3, <3>4, <3>5, RoutingAssumption DEF Claims
    <3> QED BY <3>1, <3>3, <3>6 DEF Jobs, JobsApart
  <2> QED BY <2>1, <2>2 DEF ArcsInHand, OwnJob
<1> QED BY <1>1, <1>4, <1>5 DEF Jobs

LEMMA IdleIsJob ==
    ASSUME NEW T \in SUBSET Nets PROVE [Idle EXCEPT !.todo = T] \in Job
BY DEF Idle, Job

RoutesComplete == \A a \in routed : Complete(ArcNet[a], ArcSink[a])

LEMMA RouteStepJobs ==
    ASSUME Binding, Jobs, RoutesComplete, RouteStep, ~NextStage
    PROVE  \E t \in Workers : OwnJob(t)
<1> USE Router2Assumption
<1>0. \A t \in Workers : job[t] \in Job
  BY DEF Jobs, JobTypes
<1>1. ASSUME NEW t \in Workers, NEW n \in Nets, TakeNet(t, n) PROVE OwnJob(t)
  <2> DEFINE new == [Idle EXCEPT !.todo = job[t].todo \ {n}, !.net = n,
                              !.exam = IF Driven(n) THEN ArcsOf(n) ELSE {}]
  <2>0. /\ n \in job[t].todo /\ pc = "route"
        /\ job' = [job EXCEPT ![t] = new]
        /\ UNCHANGED <<pc, arcs, routed, stage, retry>>
    BY <1>1 DEF TakeNet, bookVars, Active
  <2>1. /\ new.todo = job[t].todo \ {n} /\ new.net = n /\ new.route = {}
        /\ new.exam \subseteq ArcsOf(n)
    BY DEF Idle
  <2>2. new \in Job
    <3>1. ArcsOf(n) \subseteq Arcs
      BY DEF ArcsOf, Binding, BindPlan
    <3>2. job[t].todo \subseteq Nets
      BY <1>0 DEF Job
    <3> QED BY <3>1, <3>2 DEF Idle, Job
  <2> HIDE DEF new
  <2>3. job' \in [Workers -> Job] /\ job'[t] = new /\ \A u \in Workers : u # t => job'[u] = job[u]
    BY <2>0, <2>2 DEF Jobs, JobTypes
  <2>4. Claims(t)' \subseteq Claims(t)
    BY <2>0, <2>1, <2>3 DEF Claims
  <2> QED BY <2>0, <2>1, <2>3, <2>4 DEF OwnJob, ArcsOf, Jobs, JobTypes
<1>2. ASSUME NEW t \in Workers, NEW a \in Arcs, KeepArc(t, a) PROVE OwnJob(t)
  <2>0. /\ pc = "route" /\ job' = [job EXCEPT ![t].exam = @ \ {a}]
        /\ UNCHANGED <<pc, arcs, routed, stage, retry>>
    BY <1>2 DEF KeepArc, bookVars, Active
  <2>1. job' = [job EXCEPT ![t] = [job[t] EXCEPT !.exam = job[t].exam \ {a}]]
    BY <2>0, <1>0 DEF Jobs, JobTypes
  <2>2. [job[t] EXCEPT !.exam = job[t].exam \ {a}] \in Job
    BY <1>0 DEF Job
  <2>3. job' \in [Workers -> Job] /\ \A u \in Workers : u # t => job'[u] = job[u]
    BY <2>1, <2>2 DEF Jobs, JobTypes
  <2>4. /\ job'[t].todo = job[t].todo /\ job'[t].net = job[t].net
        /\ job'[t].route = job[t].route /\ job'[t].exam = job[t].exam \ {a}
    BY <1>0, <2>1, <2>2 DEF Jobs, JobTypes, Job
  <2>5. Claims(t)' = Claims(t)
    BY <2>4 DEF Claims
  <2> QED BY <2>0, <2>3, <2>4, <2>5 DEF OwnJob, Jobs, JobTypes, ArcsInHand
<1>3. ASSUME NEW t \in Workers, NEW a \in Arcs, RipupArc(t, a) PROVE OwnJob(t)
  <2>0. /\ pc = "route" /\ a \in job[t].exam
        /\ job' = [job EXCEPT ![t].exam = @ \ {a}, ![t].route = @ \cup {a}]
        /\ UNCHANGED <<pc, arcs, stage, retry>> /\ ripup_arc(a)
    BY <1>3 DEF RipupArc, Active, RoutesComplete, RipupThrows
  <2>1. job' = [job EXCEPT ![t] = [job[t] EXCEPT !.exam = job[t].exam \ {a},
                                                 !.route = job[t].route \cup {a}]]
    BY <2>0, <1>0 DEF Jobs, JobTypes, Job
  <2>2. [job[t] EXCEPT !.exam = job[t].exam \ {a}, !.route = job[t].route \cup {a}] \in Job
    BY <1>0 DEF Job
  <2>3. job' \in [Workers -> Job] /\ \A u \in Workers : u # t => job'[u] = job[u]
    BY <2>1, <2>2 DEF Jobs, JobTypes
  <2>4. /\ job'[t].todo = job[t].todo /\ job'[t].net = job[t].net
        /\ job'[t].route = job[t].route \cup {a} /\ job'[t].exam = job[t].exam \ {a}
    BY <1>0, <2>1, <2>2 DEF Jobs, JobTypes, Job
  <2>5. Claims(t)' = Claims(t)
    BY <2>4 DEF Claims
  <2>6. routed' = routed \ {a}
    BY <2>0 DEF ripup_arc, bookVars
  <2> QED BY <2>0, <2>3, <2>4, <2>5, <2>6 DEF OwnJob, Jobs, JobTypes, ArcsInHand
<1>4. ASSUME NEW t \in Workers, NEW a \in Arcs, RouteArc(t, a) PROVE OwnJob(t)
  <2>0. /\ pc = "route" /\ a \in job[t].route
        /\ job' = [job EXCEPT ![t].route = @ \ {a}, ![t].sinks = @ \cup {ArcSink[a]}]
        /\ UNCHANGED <<arcs, stage, retry>>
        /\ routed' = routed \cup {a} \/ routed' = routed
        /\ pc' \in {"route", "crashed"}
    BY <1>4 DEF RouteArc, Active, bookVars
  <2> DEFINE R == job[t].route \ {a}
             S == job[t].sinks \cup {ArcSink[a]}
             new == [job[t] EXCEPT !.route = R, !.sinks = S]
  <2>1. job' = [job EXCEPT ![t] = new]
    <3>1. job' = [job EXCEPT ![t].route = R, ![t].sinks = S]
      BY <2>0, <1>0 DEF Jobs, JobTypes, Job
    <3> HIDE DEF R, S
    <3> QED BY <3>1, <1>0 DEF Jobs, JobTypes, Job
  <2>2. new \in Job
    <3>1. R \subseteq Arcs /\ S \subseteq Wires
      BY <1>0 DEF Job
    <3> HIDE DEF R, S
    <3> QED BY <1>0, <3>1 DEF Job
  <2>3. job' \in [Workers -> Job] /\ \A u \in Workers : u # t => job'[u] = job[u]
    BY <2>1, <2>2 DEF Jobs, JobTypes
  <2>4. /\ job'[t].todo = job[t].todo /\ job'[t].net = job[t].net
        /\ job'[t].route = job[t].route \ {a} /\ job'[t].exam = job[t].exam
    BY <1>0, <2>1, <2>2 DEF Jobs, JobTypes, Job
  <2> HIDE DEF new
  <2>5. Claims(t)' = Claims(t)
    BY <2>4 DEF Claims
  <2> QED BY <2>0, <2>3, <2>4, <2>5 DEF OwnJob, Jobs, JobTypes, ArcsInHand
<1>5. ASSUME NEW t \in Workers, NEW a \in Arcs, SinkDone(t, a) \/ RouteFails(t, a)
      PROVE  OwnJob(t)
  <2>0. /\ pc = "route"
        /\ \/ job' = [job EXCEPT ![t].route = @ \ {a}]
           \/ job' = [job EXCEPT ![t].route = @ \ {a}, ![t].failures = TRUE]
           \/ job' = job
        /\ UNCHANGED <<arcs, stage, retry, routed>>
        /\ pc' \in {"route", "failed"}
    BY <1>5 DEF SinkDone, RouteFails, Active, bookVars
  <2>1. PICK R \in {job[t].route, job[t].route \ {a}}, f \in BOOLEAN :
           job' = [job EXCEPT ![t] = [job[t] EXCEPT !.route = R, !.failures = f]]
    <3>1. job[t].failures \in BOOLEAN
      BY <1>0 DEF Job
    <3>2. CASE job' = [job EXCEPT ![t].route = @ \ {a}]
      <4>1. job' = [job EXCEPT ![t] = [job[t] EXCEPT !.route = job[t].route \ {a},
                                                    !.failures = job[t].failures]]
        BY <1>0, <3>2 DEF Jobs, JobTypes, Job
      <4> QED BY <3>1, <4>1
    <3>3. CASE job' = [job EXCEPT ![t].route = @ \ {a}, ![t].failures = TRUE]
      <4>1. job' = [job EXCEPT ![t] = [job[t] EXCEPT !.route = job[t].route \ {a},
                                                    !.failures = TRUE]]
        BY <1>0, <3>3 DEF Jobs, JobTypes, Job
      <4> QED BY <4>1
    <3>4. CASE job' = job
      <4>1. job' = [job EXCEPT ![t] = [job[t] EXCEPT !.route = job[t].route,
                                                    !.failures = job[t].failures]]
        BY <1>0, <3>4 DEF Jobs, JobTypes, Job
      <4> QED BY <3>1, <4>1
    <3> QED BY <2>0, <3>2, <3>3, <3>4
  <2> DEFINE new == [job[t] EXCEPT !.route = R, !.failures = f]
  <2>2. new \in Job
    BY <1>0 DEF Job
  <2>3. job' \in [Workers -> Job] /\ \A u \in Workers : u # t => job'[u] = job[u]
    BY <2>1, <2>2 DEF Jobs, JobTypes
  <2>4. /\ job'[t].todo = job[t].todo /\ job'[t].net = job[t].net
        /\ job'[t].route \subseteq job[t].route /\ job'[t].exam = job[t].exam
    BY <1>0, <2>1, <2>2 DEF Jobs, JobTypes, Job
  <2> HIDE DEF new
  <2>5. Claims(t)' = Claims(t)
    BY <2>4 DEF Claims
  <2> QED BY <2>0, <2>3, <2>4, <2>5 DEF OwnJob, Jobs, JobTypes, ArcsInHand
<1>6. ASSUME NEW t \in Workers, NetDone(t) PROVE OwnJob(t)
  <2>0. /\ pc = "route"
        /\ job' = [job EXCEPT ![t] = [Idle EXCEPT !.todo = job[t].todo]]
        /\ UNCHANGED <<arcs, stage, routed, pc>>
        /\ retry' \subseteq retry \cup {job[t].net} /\ job[t].net # NoNet
    BY <1>6 DEF NetDone, Active, bookVars
  <2>1. job[t].todo \subseteq Nets /\ job[t].net \in Nets
    BY <1>0, <2>0 DEF Job
  <2>2. [Idle EXCEPT !.todo = job[t].todo] \in Job
    BY <2>1, IdleIsJob
  <2>3. job' \in [Workers -> Job] /\ \A u \in Workers : u # t => job'[u] = job[u]
    BY <2>0, <2>2 DEF Jobs, JobTypes
  <2>4. /\ job'[t].todo = job[t].todo /\ job'[t].net = NoNet
        /\ job'[t].route = {} /\ job'[t].exam = {}
    BY <2>0 DEF Jobs, JobTypes, Idle
  <2>5. Claims(t)' \subseteq Claims(t)
    BY <2>4 DEF Claims
  <2> QED BY <2>0, <2>1, <2>3, <2>4, <2>5 DEF OwnJob, Jobs, JobTypes, ArcsInHand
<1> QED BY <1>1, <1>2, <1>3, <1>4, <1>5, <1>6 DEF RouteStep

LEMMA StepJobs ==
    ASSUME Jobs, Queues, RoutesComplete, Binding, [Next]_vars PROVE Jobs'
<1>1. CASE SetupWires
  <2>1. pc = "setup" /\ pc' = "reserve" /\ UNCHANGED <<jobVars, arcs>>
    BY <1>1 DEF SetupWires
  <2> QED BY <2>1 DEF Jobs, JobTypes, JobsApart, ArcsInHand, Claims, jobVars
<1>2. CASE DoRoute
  <2> DEFINE share(t) == IF Threaded THEN {n \in route_queue : Bin(n) = t}
                         ELSE IF t = Alone THEN route_queue ELSE {}
  <2>0. /\ job' = [t \in Workers |-> [Idle EXCEPT !.todo = share(t)]]
        /\ stage' = IF Threaded THEN 0 ELSE 3
        /\ pc' = "route" /\ UNCHANGED <<retry, arcs, routed>>
    BY <1>2 DEF DoRoute, bookVars
  <2>1. \A t \in Workers : share(t) \in SUBSET Nets
    BY DEF Queues
  <2>2. \A t, u \in Workers : t # u => share(t) \cap share(u) = {}
    OBVIOUS
  <2>3. ~Threaded => \A t \in Workers : t # Alone => share(t) = {}
    OBVIOUS
  <2> HIDE DEF share
  <2>4. \A t \in Workers : /\ job'[t] = [Idle EXCEPT !.todo = share(t)]
                           /\ job'[t] \in Job
                           /\ job'[t].net = NoNet /\ job'[t].todo = share(t)
                           /\ job'[t].exam = {} /\ job'[t].route = {}
    BY <2>0, <2>1, IdleIsJob DEF Idle
  <2>5. \A t \in Workers : Claims(t)' = share(t)
    BY <2>4 DEF Claims
  <2>6. JobsApart'
    <3>1. \A t \in Workers : StageOf(t) < stage' => Claims(t)' = {}
      BY <2>0, <2>3, <2>5 DEF StageOf, Workers, Alone
    <3> QED BY <2>2, <2>5, <3>1 DEF JobsApart
  <2>7. JobTypes'
    BY <2>0, <2>4 DEF JobTypes, Jobs
  <2> QED BY <2>0, <2>4, <2>6, <2>7 DEF Jobs, ArcsInHand
<1>3. CASE NextStage
  <2>0. /\ pc = "route" /\ Finished(stage) /\ UNCHANGED <<arcs, routed>> /\ pc' # "setup"
        /\ \/ stage < 3 /\ stage' = stage + 1 /\ UNCHANGED <<job, retry>>
           \/ /\ ~(stage < 3) /\ stage' = stage /\ retry' = {}
              /\ job' = [job EXCEPT ![Alone].todo = retry]
    BY <1>3 DEF NextStage, bookVars
  <2>1. \A t \in Workers : StageOf(t) <= stage => Claims(t) = {}
    BY <2>0 DEF Jobs, JobsApart, JobTypes, Finished, Claims, StageOf, Workers, Alone
  <2>2. CASE stage < 3
    <3>1. stage' \in 0..3
      BY <2>0, <2>2 DEF Jobs, JobTypes
    <3>2. \A t \in Workers : StageOf(t) < stage' => Claims(t)' = {}
      BY <2>0, <2>1, <2>2 DEF Jobs, JobTypes, Claims, StageOf, Workers, Alone
    <3> QED BY <2>0, <2>2, <3>1, <3>2 DEF Jobs, JobTypes, JobsApart, ArcsInHand, Claims
  <2>3. CASE ~(stage < 3)
    <3>1. stage = 3 /\ Alone \in Workers
      BY <2>3 DEF Jobs, JobTypes, Workers, Alone
    <3>2. job' = [job EXCEPT ![Alone] = [job[Alone] EXCEPT !.todo = retry]]
      BY <2>0, <2>3, <3>1 DEF Jobs, JobTypes
    <3>3. [job[Alone] EXCEPT !.todo = retry] \in Job
      BY <3>1 DEF Jobs, JobTypes, Job
    <3>4. job' \in [Workers -> Job] /\ \A u \in Workers : u # Alone => job'[u] = job[u]
      BY <3>1, <3>2, <3>3 DEF Jobs, JobTypes
    <3>5. \A u \in Workers : /\ job'[u].net = job[u].net /\ job'[u].exam = job[u].exam
                             /\ job'[u].route = job[u].route
      BY <3>1, <3>2 DEF Jobs, JobTypes, Job
    <3>6. \A u \in Workers : u # Alone => Claims(u)' = {}
      BY <2>1, <3>1, <3>4 DEF Claims, StageOf, Workers, Alone
    <3>7. JobTypes' /\ ArcsInHand'
      BY <2>0, <2>3, <3>4, <3>5 DEF Jobs, JobTypes, ArcsInHand
    <3>8. JobsApart'
      BY <2>0, <2>3, <3>1, <3>6 DEF JobsApart, StageOf, Alone
    <3> QED BY <3>7, <3>8 DEF Jobs
  <2> QED BY <2>2, <2>3
<1>4. CASE RouteStep /\ ~NextStage
  BY <1>4, RouteStepJobs, OwnJobKeeps
<1>5. CASE \E a \in Arcs : CheckArc(a)
  <2>1. PICK a \in Arcs : CheckArc(a)
    BY <1>5
  <2>2. routed' \subseteq routed /\ UNCHANGED <<jobVars, arcs>> /\ pc' # "setup"
    BY <2>1 DEF CheckArc, ripup_arc, bookVars
  <2> QED BY <2>2 DEF Jobs, JobTypes, JobsApart, ArcsInHand, Claims, jobVars
<1>6. CASE UNCHANGED <<jobVars, arcs, routed>> /\ (pc' = "setup" => pc = "setup")
  BY <1>6 DEF Jobs, JobTypes, JobsApart, ArcsInHand, Claims, jobVars
<1> QED BY <1>1, <1>2, <1>3, <1>4, <1>5, <1>6, JobSteps

LEMMA InitJobs == Init => Jobs /\ Queues
<1> SUFFICES ASSUME Init PROVE Jobs /\ Queues
  OBVIOUS
<1>1. job = [t \in Workers |-> Idle] /\ retry = {} /\ stage = 3 /\ routed = {}
  BY DEF Init
<1>2. Idle \in Job
  BY DEF Idle, Job
<1>3. \A t \in Workers : /\ job[t].todo = {} /\ job[t].net = NoNet /\ job[t].exam = {}
                         /\ job[t].route = {}
  BY <1>1 DEF Idle
<1>4. \A t \in Workers : Claims(t) = {}
  BY <1>3 DEF Claims
<1>5. Queues
  BY DEF Init, Queues
<1> QED BY <1>1, <1>2, <1>3, <1>4, <1>5 DEF Jobs, JobTypes, JobsApart, ArcsInHand

-----------------------------------------------------------------------------
(* The books are the routes of the routed arcs. *)

\* The arcs of net n whose route passes w.
Served(n, w) == {a \in routed : ArcNet[a] = n /\ w \in Body(n, ArcSink[a])}

RoutesCounted ==
    \A n \in Nets, w \in Wires :
        (nd_wires[n][w] # Unbound /\ ~AtSource(n, w)) =>
            nd_wires[n][w].count = Cardinality(Served(n, w))

Routes == routed \subseteq arcs /\ RoutesComplete /\ RoutesCounted

LEMMA BooksMeaning == RoutesComplete /\ RoutesCounted => BooksAreTheRoutes
<1> SUFFICES ASSUME RoutesComplete, RoutesCounted PROVE BooksAreTheRoutes
  OBVIOUS
<1> DEFINE body == [a \in routed |-> Body(ArcNet[a], ArcSink[a])]
<1>1. \A a \in routed : \A w \in body[a] : ~Ends(ArcNet[a], w)
  BY DEF RoutesComplete, Complete
<1>2. ASSUME NEW n \in Nets, NEW w \in Wires, nd_wires[n][w] # Unbound /\ ~AtSource(n, w)
      PROVE  nd_wires[n][w].count = Cardinality({a \in routed : ArcNet[a] = n /\ w \in body[a]})
  <2>1. {a \in routed : ArcNet[a] = n /\ w \in body[a]} = Served(n, w)
    BY DEF Served
  <2> QED BY <1>2, <2>1 DEF RoutesCounted
<1> QED BY <1>1, <1>2 DEF BooksAreTheRoutes

LEMMA RoutedFinite ==
    ASSUME routed \subseteq Arcs, NEW n, NEW w
    PROVE  IsFiniteSet(Served(n, w)) /\ Cardinality(Served(n, w)) \in Nat
<1>1. IsFiniteSet(routed)
  BY FS_Subset, Router2Assumption
<1>2. IsFiniteSet(Served(n, w))
  BY <1>1, FS_Subset DEF Served
<1> QED BY <1>2, FS_CardinalityType

\* Sets whose members correspond one to one are equally large.
LEMMA Paired ==
    ASSUME NEW A, NEW P, IsFiniteSet(A), NEW f, f \in [A -> P],
           \A x, y \in A : f[x] = f[y] => x = y,
           \A u \in P : \E x \in A : f[x] = u
    PROVE  IsFiniteSet(P) /\ Cardinality(P) = Cardinality(A)
<1>1. f \in Bijection(A, P)
  BY DEF Bijection, Injection, Surjection, IsInjective
<1> QED BY <1>1, FS_Bijection DEF ExistsBijection

LEMMA NetBooksOf ==
    ASSUME Books PROVE \A n \in Nets : nd_wires[n] \in NetBooks
BY DEF Books, NetBooks

\* What a step that routes an arc does.
ArcRouted(a, path, hops) ==
    /\ LeadsTo(path, ArcSink[a])
    /\ RouteRoot(ArcNet[a], PipSrc[path[Len(path)]])
    /\ \A i \in 1..(Len(path) - 1) : ~RouteRoot(ArcNet[a], PipSrc[path[i]])
    /\ hops = [w \in {PipDst[path[i]] : i \in 1..Len(path)} |->
                  CHOOSE p \in {path[i] : i \in 1..Len(path)} : PipDst[p] = w]
    /\ RouteFits(ArcNet[a], hops)
    /\ BindRoute(ArcNet[a], PipSrc[path[Len(path)]], hops)
    /\ routed' = routed \cup {a} /\ arcs' = arcs

\* One arc more.
LEMMA BindKeepsRoutes ==
    ASSUME ConstantsStart, Books, Books', Routes, arcs \subseteq Arcs, NEW a \in arcs, a \notin routed,
           NEW path, NEW hops, ArcRouted(a, path, hops)
    PROVE  /\ Routes'
           /\ Body(ArcNet[a], ArcSink[a])' = DOMAIN hops
           /\ \A b \in routed : Body(ArcNet[b], ArcSink[b])' = Body(ArcNet[b], ArcSink[b])
           /\ \A b \in routed : \A w \in Body(ArcNet[b], ArcSink[b]) :
                 nd_wires'[ArcNet[b]][w].pip = nd_wires[ArcNet[b]][w].pip
           /\ \A w \in DOMAIN hops : /\ w \in Wires /\ hops[w] \in Pips /\ PipDst[hops[w]] = w
                                     /\ nd_wires'[ArcNet[a]][w].pip = hops[w]
<1> DEFINE n == ArcNet[a]
           d == ArcSink[a]
           k == Len(path)
           D == {PipDst[path[i]] : i \in 1..k}
           root == PipSrc[path[k]]
           old == nd_wires[n]
           new == nd_wires'[n]
<1>0. /\ LeadsTo(path, ArcSink[a])
      /\ RouteRoot(ArcNet[a], PipSrc[path[Len(path)]])
      /\ \A i \in 1..(Len(path) - 1) : ~RouteRoot(ArcNet[a], PipSrc[path[i]])
      /\ hops = [w \in {PipDst[path[i]] : i \in 1..Len(path)} |->
                    CHOOSE p \in {path[i] : i \in 1..Len(path)} : PipDst[p] = w]
      /\ RouteFits(ArcNet[a], hops)
      /\ BindRoute(ArcNet[a], PipSrc[path[Len(path)]], hops)
      /\ routed' = routed \cup {a} /\ arcs' = arcs
  BY DEF ArcRouted
<1> USE <1>0
<1>1. n \in Nets /\ d \in Wires /\ a \in Arcs
  BY Router2Assumption
<1>2. k \in Nat /\ k >= 1 /\ \A i \in 1..k : path[i] \in Pips
  BY DEF LeadsTo
<1>3. \A i \in 1..k : PipDst[path[i]] \in Wires /\ PipSrc[path[i]] \in Wires
  BY <1>2, Router2Assumption, RoutingAssumption
<1>4. root \in Wires /\ k \in 1..k
  BY <1>2, <1>3
<1>5. \A i \in 1..k : hops[PipDst[path[i]]] = path[i]
  <2>1. \A i, j \in 1..k : PipDst[path[i]] = PipDst[path[j]] => i = j
    BY DEF LeadsTo
  <2>2. ASSUME NEW i \in 1..k PROVE hops[PipDst[path[i]]] = path[i]
    <3>1. hops[PipDst[path[i]]] = CHOOSE p \in {path[j] : j \in 1..k} : PipDst[p] = PipDst[path[i]]
      OBVIOUS
    <3>2. \A p \in {path[j] : j \in 1..k} : PipDst[p] = PipDst[path[i]] <=> p = path[i]
      BY <2>1
    <3> QED BY <3>1, <3>2
  <2> QED BY <2>2
<1>6. DOMAIN hops = D
  OBVIOUS
<1>7. old \in NetBooks /\ new \in NetBooks
  BY <1>1 DEF Books, NetBooks
<1>8. /\ \A m \in Nets : m # n => nd_wires'[m] = nd_wires[m]
      /\ \A w \in Wires : new[w] =
            IF w \in D THEN [pip |-> hops[w],
                             count |-> IF old[w] = Unbound THEN 1 ELSE old[w].count + 1]
            ELSE IF w = root /\ old[w] = Unbound THEN [pip |-> NoPip, count |-> 0]
            ELSE old[w]
  <2> HIDE DEF D, root
  <2> QED BY <1>1, <1>6 DEF BindRoute, Books, root
<1>9. \A w \in Wires : (w \in D /\ old[w] # Unbound) => old[w].pip = hops[w]
  BY <1>6 DEF RouteFits
<1>10. AtSource(n, root)
  BY DEF RouteRoot, AtSource, IsConst
<1>11. \A w \in D : ~AtSource(n, w)
  <2> SUFFICES ASSUME NEW i \in 1..k, AtSource(n, PipDst[path[i]]) PROVE FALSE
    OBVIOUS
  <2>1. RouteRoot(n, PipDst[path[i]])
    <3>1. CASE IsConst(n)
      <4>1. SourceWire[n] = NoWire \/ RouteRoot(n, SourceWire[n])
        BY <1>1, <3>1 DEF ConstantsStart
      <4>2. PipDst[path[i]] # NoWire
        BY <1>3, RoutingAssumption
      <4> QED BY <3>1, <4>1, <4>2 DEF AtSource, RouteRoot
    <3>2. CASE ~IsConst(n)
      BY <3>2 DEF AtSource, RouteRoot
    <3> QED BY <3>1, <3>2
  <2>2. CASE i = 1
    <3>1. PipDst[path[1]] = d /\ root # d
      BY <1>2, <2>2 DEF LeadsTo
    <3>2. CASE IsConst(n)
      BY <1>1, <2>1, <2>2, <3>1, <3>2 DEF ConstantsStart
    <3>3. CASE ~IsConst(n)
      BY <2>1, <2>2, <3>1, <3>3 DEF RouteRoot
    <3> QED BY <3>2, <3>3
  <2>3. CASE i # 1
    <3>1. i - 1 \in 1..(k - 1) /\ (i - 1) + 1 = i
      BY <1>2, <2>3
    <3>2. PipDst[path[(i - 1) + 1]] = PipSrc[path[i - 1]]
      BY <3>1 DEF LeadsTo
    <3> QED BY <2>1, <3>1, <3>2
  <2> QED BY <2>2, <2>3
<1> HIDE DEF n, d, root, old, new
<1>8a. \A w \in Wires : w \in D => /\ new[w] \in IntEntry /\ new[w].pip = hops[w]
                                   /\ old[w] = Unbound => new[w].count = 1
                                   /\ old[w] # Unbound => new[w].count = old[w].count + 1
  <2> SUFFICES ASSUME NEW w \in Wires, w \in D
               PROVE  /\ new[w] \in IntEntry /\ new[w].pip = hops[w]
                      /\ old[w] = Unbound => new[w].count = 1
                      /\ old[w] # Unbound => new[w].count = old[w].count + 1
    OBVIOUS
  <2> DEFINE c == IF old[w] = Unbound THEN 1 ELSE old[w].count + 1
  <2>1. c \in Int
    BY <1>7 DEF NetBooks, IntEntry
  <2>2. hops[w] \in Pips
    BY <1>2, <1>5
  <2>3. new[w] = [pip |-> hops[w], count |-> c]
    BY <1>8
  <2>4. (old[w] = Unbound => c = 1) /\ (old[w] # Unbound => c = old[w].count + 1)
    OBVIOUS
  <2> HIDE DEF c
  <2> QED BY <2>1, <2>2, <2>3, <2>4 DEF IntEntry
<1>8b. \A w \in Wires : (w \notin D /\ (w # root \/ old[w] # Unbound)) => new[w] = old[w]
  BY <1>8
<1>12. \A i \in 1..k : /\ new[PipDst[path[i]]] # Unbound
                       /\ new[PipDst[path[i]]].pip = path[i]
                       /\ ~AtSource(n, PipDst[path[i]])
  <2> SUFFICES ASSUME NEW i \in 1..k
               PROVE  /\ new[PipDst[path[i]]] # Unbound
                      /\ new[PipDst[path[i]]].pip = path[i]
                      /\ ~AtSource(n, PipDst[path[i]])
    OBVIOUS
  <2>1. PipDst[path[i]] \in D
    OBVIOUS
  <2>2. /\ new[PipDst[path[i]]] \in IntEntry
        /\ new[PipDst[path[i]]].pip = hops[PipDst[path[i]]]
    BY <1>3, <1>8a, <2>1
  <2>3. new[PipDst[path[i]]] # Unbound
    BY <2>2, EntryIsBound
  <2> QED BY <1>5, <1>11, <2>1, <2>2, <2>3
<1>13. CompleteIn(new, n, d) /\ BodyIn(new, n, d) = D
  <2>1. LeadsTo(path, d) /\ AtSource(n, PipSrc[path[k]])
    BY <1>10 DEF d, root
  <2> HIDE DEF D
  <2>2. CompleteIn(new, n, d) /\ BodyIn(new, n, d) = {PipDst[path[i]] : i \in 1..Len(path)}
    BY <1>1, <1>7, <1>12, <2>1, TrailOfPath
  <2> QED BY <2>2 DEF D
<1> HIDE DEF D, k
<1>14. ASSUME NEW b \in routed
       PROVE  /\ CompleteIn(nd_wires'[ArcNet[b]], ArcNet[b], ArcSink[b])
              /\ BodyIn(nd_wires'[ArcNet[b]], ArcNet[b], ArcSink[b]) =
                    BodyIn(nd_wires[ArcNet[b]], ArcNet[b], ArcSink[b])
              /\ \A w \in Body(ArcNet[b], ArcSink[b]) :
                    nd_wires'[ArcNet[b]][w].pip = nd_wires[ArcNet[b]][w].pip
  <2>1. b \in Arcs /\ ArcNet[b] \in Nets /\ ArcSink[b] \in Wires
    BY Router2Assumption DEF Routes
  <2>2. CompleteIn(nd_wires[ArcNet[b]], ArcNet[b], ArcSink[b])
    BY BodyOfBooks DEF Routes, RoutesComplete
  <2>3. CASE ArcNet[b] # n
    BY <1>8, <2>1, <2>2, <2>3
  <2>4. CASE ArcNet[b] = n
    <3>1. CompleteIn(old, n, ArcSink[b])
      BY <2>2, <2>4 DEF old
    <3>2. \A w \in BodyIn(old, n, ArcSink[b]) : w \in Wires
      BY <1>7, <2>1, TrailIsClosed DEF BodyIn
    <3>3. ASSUME NEW w \in BodyIn(old, n, ArcSink[b]) PROVE new[w] # Unbound /\ new[w].pip = old[w].pip
      <4>1. w \in Wires /\ old[w] # Unbound
        BY <3>1, <3>2 DEF CompleteIn, EndsIn
      <4>2. CASE w \in D
        <5>1. new[w].pip = hops[w] /\ new[w] \in IntEntry
          BY <1>8a, <4>1, <4>2
        <5>2. new[w] # Unbound
          BY <5>1, EntryIsBound
        <5> QED BY <1>9, <4>1, <4>2, <5>1, <5>2
      <4>3. CASE w \notin D
        BY <1>8b, <4>1, <4>3
      <4> QED BY <4>2, <4>3
    <3>4. CompleteIn(new, n, ArcSink[b]) /\ BodyIn(new, n, ArcSink[b]) = BodyIn(old, n, ArcSink[b])
      BY <1>7, <2>1, <3>1, <3>3, CompleteStays
    <3>5. Body(n, ArcSink[b]) = BodyIn(old, n, ArcSink[b])
      BY BodyOfBooks DEF old
    <3> QED BY <2>4, <3>3, <3>4, <3>5 DEF old, new
  <2> QED BY <2>3, <2>4
<1>15. RoutesComplete'
  <2>1. \A b \in routed' : CompleteIn(nd_wires'[ArcNet[b]], ArcNet[b], ArcSink[b])
    BY <1>13, <1>14 DEF n, d, new
  <2> QED BY <2>1, BodyOfBooks DEF RoutesComplete
<1>16. \A b \in routed : Body(ArcNet[b], ArcSink[b])' = Body(ArcNet[b], ArcSink[b])
  BY <1>14, BodyOfBooks
<1>17. Body(n, d)' = D
  BY <1>13, BodyOfBooks DEF new
<1>18. \A m \in Nets, w \in Wires :
          Served(m, w)' = Served(m, w) \cup (IF m = n /\ w \in D THEN {a} ELSE {})
  <2> SUFFICES ASSUME NEW m \in Nets, NEW w \in Wires
               PROVE  Served(m, w)' = Served(m, w) \cup (IF m = n /\ w \in D THEN {a} ELSE {})
    OBVIOUS
  <2>1. Served(m, w)' = {b \in routed \cup {a} : ArcNet[b] = m /\ w \in Body(ArcNet[b], ArcSink[b])'}
    BY DEF Served
  <2>2. Served(m, w) = {b \in routed : ArcNet[b] = m /\ w \in Body(ArcNet[b], ArcSink[b])}
    BY DEF Served
  <2>3. w \in Body(ArcNet[a], ArcSink[a])' <=> w \in D
    BY <1>17 DEF n, d
  <2> QED BY <1>16, <2>1, <2>2, <2>3 DEF n
<1>19. RoutesCounted'
  <2> SUFFICES ASSUME NEW m \in Nets, NEW w \in Wires,
                      nd_wires'[m][w] # Unbound, ~AtSource(m, w)
               PROVE  nd_wires'[m][w].count = Cardinality(Served(m, w)')
    BY DEF RoutesCounted, AtSource, IsConst
  <2>1. routed \subseteq Arcs
    BY DEF Routes
  <2>2. IsFiniteSet(Served(m, w)) /\ Cardinality(Served(m, w)) \in Nat
    BY <2>1, RoutedFinite
  <2>3. CASE m = n /\ w \in D
    <3>1. Served(m, w)' = Served(m, w) \cup {a} /\ a \notin Served(m, w)
      BY <1>18, <2>3 DEF Served
    <3>2. Cardinality(Served(m, w)') = Cardinality(Served(m, w)) + 1
      BY <2>2, <3>1, FS_AddElement
    <3>3. CASE old[w] = Unbound
      <4>1. ASSUME NEW b \in Served(m, w) PROVE FALSE
        <5>1. b \in routed /\ ArcNet[b] = n /\ w \in Body(ArcNet[b], ArcSink[b])
          BY <2>3, <4>1 DEF Served
        <5>2. ~Ends(n, w)
          BY <5>1 DEF Routes, RoutesComplete, Complete
        <5> QED BY <3>3, <5>2 DEF Ends, old
      <4>2. Served(m, w) = {}
        BY <4>1
      <4>3. Cardinality(Served(m, w)) = 0
        BY <4>2, FS_EmptySet
      <4>4. new[w].count = 1
        BY <1>8a, <2>3, <3>3
      <4> QED BY <2>3, <3>2, <4>3, <4>4 DEF new
    <3>4. CASE old[w] # Unbound
      <4>1. old[w].count = Cardinality(Served(m, w))
        BY <2>3, <3>4 DEF Routes, RoutesCounted, old
      <4>2. new[w].count = old[w].count + 1
        BY <1>8a, <2>3, <3>4
      <4> QED BY <2>3, <3>2, <4>1, <4>2 DEF new
    <3> QED BY <3>3, <3>4
  <2>4. CASE ~(m = n /\ w \in D)
    <3>1. Served(m, w)' = Served(m, w)
      <4>1. Served(m, w)' = Served(m, w) \cup (IF m = n /\ w \in D THEN {a} ELSE {})
        BY <1>18
      <4> QED BY <2>4, <4>1
    <3>2. nd_wires'[m][w] = nd_wires[m][w]
      <4>1. CASE m # n
        BY <1>8, <4>1
      <4>2. CASE m = n
        <5>1. w # root
          BY <1>10, <4>2
        <5>2. new[w] = old[w]
          BY <1>8b, <2>4, <4>2, <5>1
        <5> QED BY <4>2, <5>2 DEF old, new
      <4> QED BY <4>1, <4>2
    <3> QED BY <3>1, <3>2 DEF Routes, RoutesCounted
  <2> QED BY <2>3, <2>4
<1>20. Routes'
  BY <1>15, <1>19 DEF Routes
<1>21. \A w \in DOMAIN hops : /\ w \in Wires /\ hops[w] \in Pips /\ PipDst[hops[w]] = w
                              /\ new[w].pip = hops[w]
  <2>1. \A i \in 1..k : /\ PipDst[path[i]] \in Wires /\ hops[PipDst[path[i]]] \in Pips
                        /\ PipDst[hops[PipDst[path[i]]]] = PipDst[path[i]]
    BY <1>2, <1>3, <1>5
  <2>2. ASSUME NEW w \in D PROVE w \in Wires /\ hops[w] \in Pips /\ PipDst[hops[w]] = w
    <3>1. PICK i \in 1..k : w = PipDst[path[i]]
      BY DEF D
    <3> QED BY <2>1, <3>1
  <2> QED BY <1>6, <1>8a, <2>2
<1> QED BY <1>6, <1>14, <1>16, <1>17, <1>20, <1>21 DEF n, d, new

\* One arc less: what it alone counts goes, and no other route passes there.
UnbindsRoute(a) ==
    /\ UnbindRoute(ArcNet[a], Body(ArcNet[a], ArcSink[a]))
    /\ routed' = routed \ {a}
    /\ arcs' = arcs

LEMMA UnbindKeepsRoutes ==
    ASSUME Books, Books', Routes, arcs \subseteq Arcs, NEW a \in routed, UnbindsRoute(a)
    PROVE  /\ Routes'
           /\ \A b \in routed \ {a} : Body(ArcNet[b], ArcSink[b])' = Body(ArcNet[b], ArcSink[b])
           /\ \A b \in routed \ {a} : \A w \in Body(ArcNet[b], ArcSink[b]) :
                 nd_wires'[ArcNet[b]][w].pip = nd_wires[ArcNet[b]][w].pip
<1> DEFINE n == ArcNet[a]
           W == Body(n, ArcSink[a])
           old == nd_wires[n]
           new == nd_wires'[n]
           gone == {w \in W : old[w].count = 1}
<1>1. /\ n \in Nets /\ a \in Arcs /\ routed \subseteq Arcs
      /\ \A b \in routed : ArcNet[b] \in Nets /\ ArcSink[b] \in Wires
  BY Router2Assumption DEF Routes
<1>2. old \in NetBooks /\ new \in NetBooks
  BY <1>1 DEF Books, NetBooks
<1>3. \A b \in routed : /\ Body(ArcNet[b], ArcSink[b]) \subseteq Wires
                        /\ CompleteIn(nd_wires[ArcNet[b]], ArcNet[b], ArcSink[b])
                        /\ Body(ArcNet[b], ArcSink[b]) = BodyIn(nd_wires[ArcNet[b]], ArcNet[b], ArcSink[b])
  BY <1>1, NetBooksOf, TrailIsClosed, BodyOfBooks DEF Routes, RoutesComplete, BodyIn
<1>4. W \subseteq Wires /\ \A w \in W : old[w] # Unbound /\ ~AtSource(n, w)
  BY <1>3 DEF Routes, RoutesComplete, Complete, Ends, Body
<1>5. /\ \A m \in Nets : m # n => nd_wires'[m] = nd_wires[m]
      /\ \A w \in Wires : new[w] = IF w \in gone THEN Unbound
                                   ELSE IF w \in W THEN [old[w] EXCEPT !.count = @ - 1]
                                   ELSE old[w]
  <2>1. nd_wires' = [nd_wires EXCEPT ![n] = [w \in Wires |->
                       IF w \in gone THEN Unbound
                       ELSE IF w \in W THEN [nd_wires[n][w] EXCEPT !.count = @ - 1]
                       ELSE nd_wires[n][w]]]
    BY DEF UnbindRoute, UnbindsRoute
  <2> HIDE DEF gone, W
  <2> QED BY <1>1, <2>1 DEF Books
<1> HIDE DEF W, old, new, gone
<1>6. \A w \in Wires : (w \in W /\ w \notin gone) =>
         new[w] \in IntEntry /\ new[w].pip = old[w].pip /\ new[w].count = old[w].count - 1
  <2> SUFFICES ASSUME NEW w \in Wires, w \in W, w \notin gone
               PROVE  new[w] \in IntEntry /\ new[w].pip = old[w].pip /\ new[w].count = old[w].count - 1
    OBVIOUS
  <2>1. old[w] \in IntEntry
    BY <1>2, <1>4 DEF NetBooks
  <2>2. new[w] = [old[w] EXCEPT !.count = @ - 1]
    BY <1>5
  <2> QED BY <2>1, <2>2 DEF IntEntry
<1>7. \A w \in Wires : w \notin W => new[w] = old[w]
  BY <1>5 DEF gone
<1>8. \A w \in gone : w \in W /\ new[w] = Unbound /\ old[w].count = 1
  BY <1>4, <1>5 DEF gone
<1>9. \A w \in W : a \in Served(n, w) /\ old[w].count = Cardinality(Served(n, w))
  BY <1>1, <1>4 DEF Served, W, n, old, Routes, RoutesCounted
<1>10. \A w \in gone : Served(n, w) = {a}
  <2> SUFFICES ASSUME NEW w \in gone, NEW b \in Served(n, w), b # a PROVE FALSE
    BY <1>8, <1>9
  <2>1. w \in W /\ Cardinality(Served(n, w)) = 1
    BY <1>8, <1>9
  <2>2. IsFiniteSet(Served(n, w))
    BY <1>1, RoutedFinite
  <2>3. PICK x : Served(n, w) = {x}
    BY <2>1, <2>2, FS_Singleton
  <2>4. a \in Served(n, w)
    BY <1>9, <2>1
  <2> QED BY <2>3, <2>4
<1>11. ASSUME NEW b \in routed \ {a}
       PROVE  /\ CompleteIn(nd_wires'[ArcNet[b]], ArcNet[b], ArcSink[b])
              /\ BodyIn(nd_wires'[ArcNet[b]], ArcNet[b], ArcSink[b]) =
                    BodyIn(nd_wires[ArcNet[b]], ArcNet[b], ArcSink[b])
              /\ \A w \in Body(ArcNet[b], ArcSink[b]) :
                    nd_wires'[ArcNet[b]][w].pip = nd_wires[ArcNet[b]][w].pip
  <2>1. CASE ArcNet[b] # n
    BY <1>1, <1>3, <1>5, <2>1
  <2>2. CASE ArcNet[b] = n
    <3>1. ASSUME NEW w \in BodyIn(old, n, ArcSink[b]) PROVE new[w] # Unbound /\ new[w].pip = old[w].pip
      <4>1. w \in Wires /\ old[w] # Unbound
        BY <1>3, <2>2, <3>1 DEF CompleteIn, EndsIn, old
      <4>2. w \notin gone
        <5>1. w \in Body(n, ArcSink[b])
          BY <1>3, <2>2, <3>1 DEF old
        <5>2. b \in Served(n, w)
          BY <2>2, <5>1 DEF Served
        <5> QED BY <1>10, <5>2
      <4>3. CASE w \in W
        BY <1>6, <4>1, <4>2, <4>3, EntryIsBound
      <4>4. CASE w \notin W
        BY <1>7, <4>1, <4>4
      <4> QED BY <4>3, <4>4
    <3>2. CompleteIn(old, n, ArcSink[b])
      BY <1>3, <2>2 DEF old
    <3>3. CompleteIn(new, n, ArcSink[b]) /\ BodyIn(new, n, ArcSink[b]) = BodyIn(old, n, ArcSink[b])
      BY <1>1, <1>2, <3>1, <3>2, CompleteStays
    <3>4. Body(n, ArcSink[b]) = BodyIn(old, n, ArcSink[b])
      BY <1>3, <2>2 DEF old
    <3> QED BY <2>2, <3>1, <3>3, <3>4 DEF old, new
  <2> QED BY <2>1, <2>2
<1>12. RoutesComplete'
  BY <1>11, BodyOfBooks DEF RoutesComplete, UnbindsRoute
<1>13. \A b \in routed \ {a} : Body(ArcNet[b], ArcSink[b])' = Body(ArcNet[b], ArcSink[b])
  BY <1>11, BodyOfBooks
<1>14. \A m \in Nets, w \in Wires : Served(m, w)' = Served(m, w) \ {a}
  <2> SUFFICES ASSUME NEW m \in Nets, NEW w \in Wires
               PROVE  Served(m, w)' = Served(m, w) \ {a}
    OBVIOUS
  <2>1. Served(m, w)' = {b \in routed \ {a} : ArcNet[b] = m /\ w \in Body(ArcNet[b], ArcSink[b])'}
    BY DEF Served, UnbindsRoute
  <2>2. Served(m, w) = {b \in routed : ArcNet[b] = m /\ w \in Body(ArcNet[b], ArcSink[b])}
    BY DEF Served
  <2> QED BY <1>13, <2>1, <2>2
<1>15. RoutesCounted'
  <2> SUFFICES ASSUME NEW m \in Nets, NEW w \in Wires,
                      nd_wires'[m][w] # Unbound, ~AtSource(m, w)
               PROVE  nd_wires'[m][w].count = Cardinality(Served(m, w)')
    BY DEF RoutesCounted, AtSource, IsConst
  <2>1. Served(m, w)' = Served(m, w) \ {a}
    BY <1>14
  <2>2. CASE m = n /\ w \in W
    <3>1. w \notin gone /\ new[w].count = old[w].count - 1
      BY <1>6, <1>8, <2>2 DEF new
    <3>2. a \in Served(m, w) /\ old[w].count = Cardinality(Served(m, w))
      BY <1>9, <2>2
    <3>3. IsFiniteSet(Served(m, w))
      BY <1>1, RoutedFinite
    <3>4. Cardinality(Served(m, w) \ {a}) = Cardinality(Served(m, w)) - 1
      BY <3>2, <3>3, FS_RemoveElement
    <3> QED BY <2>1, <2>2, <3>1, <3>2, <3>4 DEF new
  <2>3. CASE ~(m = n /\ w \in W)
    <3>1. a \notin Served(m, w)
      BY <2>3 DEF Served, n, W
    <3>2. Served(m, w)' = Served(m, w)
      BY <2>1, <3>1
    <3>3. nd_wires'[m][w] = nd_wires[m][w]
      BY <1>5, <1>7, <2>3 DEF old, new
    <3> QED BY <3>2, <3>3 DEF Routes, RoutesCounted
  <2> QED BY <2>2, <2>3
<1>16. Routes'
  BY <1>12, <1>15 DEF Routes, UnbindsRoute
<1> QED BY <1>11, <1>13, <1>16

\* Before routing starts: an arc found to be routed is counted on each wire.
LEMMA SetupKeepsRoutes ==
    ASSUME Books, Books', arcs \subseteq Arcs, SetupWires
    PROVE  /\ Routes'
           /\ \A n \in Nets, d \in Wires : Body(n, d)' = Body(n, d)
           /\ \A n \in Nets, w \in Wires : nd_wires[n][w] # Unbound =>
                 nd_wires'[n][w].pip = nd_wires[n][w].pip
<1> DEFINE legal == {a \in arcs : check_arc_routing(a)}
           body == [a \in legal |-> Body(ArcNet[a], ArcSink[a])]
           uses == {u \in legal \X Wires : u[2] \in body[u[1]]}
           count(n, w) == Cardinality({u \in uses : u[2] = w /\ ArcNet[u[1]] = n})
<1>1. \A a \in legal : a \in Arcs /\ ArcNet[a] \in Nets /\ ArcSink[a] \in Wires
  BY Router2Assumption
<1>2. /\ nd_wires' = [n \in Nets |-> [w \in Wires |->
             IF nd_wires[n][w] = Unbound THEN Unbound
             ELSE [nd_wires[n][w] EXCEPT !.count = count(n, w)]]]
      /\ routed' = legal /\ arcs' = arcs
  BY DEF SetupWires
<1>3. \A a \in legal : Complete(ArcNet[a], ArcSink[a])
  BY DEF check_arc_routing
<1> HIDE DEF uses
<1>4. ASSUME NEW n \in Nets, NEW w \in Wires
      PROVE  /\ nd_wires'[n][w] = Unbound <=> nd_wires[n][w] = Unbound
             /\ nd_wires[n][w] # Unbound =>
                  /\ nd_wires'[n][w].pip = nd_wires[n][w].pip
                  /\ nd_wires'[n][w].count = count(n, w)
  <2> HIDE DEF legal
  <2>1. CASE nd_wires[n][w] = Unbound
    BY <1>2, <2>1
  <2>2. CASE nd_wires[n][w] # Unbound
    <3>1. nd_wires[n][w] \in IntEntry
      BY <2>2 DEF Books
    <3>2. nd_wires'[n][w] = [nd_wires[n][w] EXCEPT !.count = count(n, w)]
      BY <1>2, <2>2
    <3>3. nd_wires'[n][w] \in IntEntry \cup {Unbound}
      BY DEF Books
    <3> HIDE DEF count
    <3>4. nd_wires'[n][w].pip = nd_wires[n][w].pip /\ nd_wires'[n][w].count = count(n, w)
      BY <3>1, <3>2 DEF IntEntry
    <3>5. nd_wires'[n][w] # Unbound
      <4>1. [nd_wires[n][w] EXCEPT !.count = 0] \in IntEntry
        BY <3>1 DEF IntEntry
      <4>2. nd_wires'[n][w] = Unbound => nd_wires'[n][w] = [pip |-> nd_wires[n][w].pip, count |-> count(n, w)]
        BY <3>1, <3>2 DEF IntEntry
      <4>3. count(n, w) \in Int
        <5>1. IsFiniteSet(legal \X Wires)
          BY FS_Subset, FS_Product, Router2Assumption DEF legal
        <5>2. IsFiniteSet({u \in uses : u[2] = w /\ ArcNet[u[1]] = n})
          BY <5>1, FS_Subset DEF uses
        <5> QED BY <5>2, FS_CardinalityType DEF count
      <4>4. [pip |-> nd_wires[n][w].pip, count |-> count(n, w)] \in IntEntry
        BY <3>1, <4>3 DEF IntEntry
      <4> QED BY <4>2, <4>4, EntryIsBound
    <3> QED BY <2>2, <3>4, <3>5
  <2> QED BY <2>1, <2>2
<1> HIDE DEF legal
<1>5. ASSUME NEW n \in Nets, NEW d \in Wires
      PROVE  TrailIn(nd_wires'[n], n, d) = TrailIn(nd_wires[n], n, d)
             /\ \A w \in Wires : EndsIn(nd_wires'[n], n, w) <=> EndsIn(nd_wires[n], n, w)
  <2> DEFINE b == nd_wires[n]
             c == nd_wires'[n]
             T == TrailIn(b, n, d)
             U == TrailIn(c, n, d)
  <2>1. b \in NetBooks /\ c \in NetBooks
    BY DEF Books, NetBooks
  <2>2. \A w \in Wires : /\ EndsIn(c, n, w) <=> EndsIn(b, n, w)
                         /\ ~EndsIn(b, n, w) => c[w].pip = b[w].pip
    BY <1>4 DEF EndsIn
  <2> HIDE DEF b, c
  <2>3. /\ T \subseteq Wires /\ d \in T
        /\ \A w \in T : ~EndsIn(b, n, w) => PipSrc[b[w].pip] \in T
        /\ \A S \in SUBSET Wires :
              (d \in S /\ \A w \in S : ~EndsIn(b, n, w) => PipSrc[b[w].pip] \in S) => T \subseteq S
    BY <2>1, TrailIsClosed
  <2>4. /\ U \subseteq Wires /\ d \in U
        /\ \A w \in U : ~EndsIn(c, n, w) => PipSrc[c[w].pip] \in U
        /\ \A S \in SUBSET Wires :
              (d \in S /\ \A w \in S : ~EndsIn(c, n, w) => PipSrc[c[w].pip] \in S) => U \subseteq S
    BY <2>1, TrailIsClosed
  <2> HIDE DEF T, U
  <2>5. T \subseteq U /\ U \subseteq T
    BY <2>2, <2>3, <2>4
  <2> QED BY <2>2, <2>5 DEF T, U, b, c
<1>6. \A n \in Nets, d \in Wires :
         /\ Body(n, d)' = Body(n, d)
         /\ Complete(n, d) => Complete(n, d)'
  <2> SUFFICES ASSUME NEW n \in Nets, NEW d \in Wires
               PROVE  Body(n, d)' = Body(n, d) /\ (Complete(n, d) => Complete(n, d)')
    OBVIOUS
  <2>1. BodyIn(nd_wires'[n], n, d) = BodyIn(nd_wires[n], n, d)
    BY <1>5 DEF BodyIn
  <2>2. nd_wires[n] \in NetBooks
    BY NetBooksOf
  <2>3. BodyIn(nd_wires[n], n, d) \subseteq Wires
    BY <2>2, TrailIsClosed DEF BodyIn
  <2>4. CompleteIn(nd_wires[n], n, d) => CompleteIn(nd_wires'[n], n, d)
    BY <1>5, <2>1, <2>3 DEF CompleteIn
  <2> QED BY <2>1, <2>4, BodyOfBooks
<1>7. RoutesComplete'
  BY <1>1, <1>2, <1>3, <1>6 DEF RoutesComplete
<1>8. ASSUME NEW n \in Nets, NEW w \in Wires
      PROVE  Cardinality(Served(n, w)') = count(n, w)
  <2> DEFINE A == Served(n, w)'
             P == {u \in uses : u[2] = w /\ ArcNet[u[1]] = n}
             f == [a \in A |-> <<a, w>>]
  <2>1. A = {a \in legal : ArcNet[a] = n /\ w \in Body(n, ArcSink[a])}
    <3>1. \A a \in legal : Body(ArcNet[a], ArcSink[a])' = Body(ArcNet[a], ArcSink[a])
      BY <1>1, <1>6
    <3>2. A = {a \in legal : ArcNet[a] = n /\ w \in Body(n, ArcSink[a])'}
      BY <1>2 DEF Served
    <3> QED BY <3>1, <3>2
  <2>2. \A a : a \in A <=> <<a, w>> \in P
    BY <2>1 DEF uses
  <2>3. \A u \in P : u = <<u[1], w>>
    BY DEF uses
  <2> HIDE DEF A, P
  <2>4. IsFiniteSet(A)
    <3>1. IsFiniteSet(legal)
      BY FS_Subset, Router2Assumption DEF legal
    <3> QED BY <2>1, <3>1, FS_Subset
  <2>5. \A a \in A : f[a] = <<a, w>> /\ f[a] \in P
    BY <2>2
  <2>6. Cardinality(A) = Cardinality(P)
    <3>1. \A u \in P : u[1] \in A /\ f[u[1]] = u
      BY <2>2, <2>3
    <3>2. f \in [A -> P] /\ \A x, y \in A : f[x] = f[y] => x = y
      BY <2>5
    <3> HIDE DEF f
    <3> QED BY <2>4, <3>1, <3>2, Paired
  <2> QED BY <2>6 DEF A, P
<1>9. RoutesCounted'
  <2> HIDE DEF count
  <2> SUFFICES ASSUME NEW m \in Nets, NEW w \in Wires,
                      nd_wires'[m][w] # Unbound, ~AtSource(m, w)
               PROVE  nd_wires'[m][w].count = Cardinality(Served(m, w)')
    BY DEF RoutesCounted, AtSource, IsConst
  <2> QED BY <1>4, <1>8
<1>10. Routes'
  BY <1>2, <1>7, <1>9 DEF Routes, legal
<1> QED BY <1>4, <1>6, <1>10

\* The three ways in which the books change.
LEMMA BookChanges ==
    ASSUME Binding, Books, Jobs, Routes, [Next]_vars
    PROVE  \/ SetupWires
           \/ \E t \in Workers, a \in arcs :
                 RouteArc(t, a) /\ a \notin routed /\ ~UNCHANGED bookVars
           \/ \E a \in routed :
                 /\ UnbindsRoute(a)
                 /\ UnbindResources(ArcNet[a],
                       {nd_wires[ArcNet[a]][w].pip : w \in Body(ArcNet[a], ArcSink[a])})
           \/ UNCHANGED bookVars /\ arcs' = arcs
<1>1. CASE \E t \in Workers, a \in Arcs : RouteArc(t, a)
  <2>1. PICK t \in Workers, a \in Arcs : RouteArc(t, a)
    BY <1>1
  <2>2. a \in job[t].route /\ arcs' = arcs
    BY <2>1 DEF RouteArc
  <2>3. a \in arcs /\ a \notin routed
    BY <2>2 DEF Jobs, ArcsInHand
  <2> QED BY <2>1, <2>2, <2>3
<1>2. ASSUME NEW a \in routed, ripup_arc(a), arcs' = arcs
      PROVE  UnbindsRoute(a) /\ UnbindResources(ArcNet[a],
                {nd_wires[ArcNet[a]][w].pip : w \in Body(ArcNet[a], ArcSink[a])})
  BY <1>2 DEF ripup_arc, UnbindsRoute, UnbindRoute
<1>3. CASE \E t \in Workers, a \in Arcs : RipupArc(t, a)
  <2>1. PICK t \in Workers, a \in Arcs : RipupArc(t, a)
    BY <1>3
  <2>2. ripup_arc(a) /\ arcs' = arcs
    BY <2>1 DEF RipupArc, RipupThrows, Routes, RoutesComplete
  <2>3. a \notin routed => UNCHANGED bookVars
    BY <2>2 DEF ripup_arc
  <2> QED BY <1>2, <2>2, <2>3
<1>4. CASE \E a \in Arcs : CheckArc(a)
  <2>1. PICK a \in Arcs : CheckArc(a)
    BY <1>4
  <2>2. arcs' = arcs /\ (UNCHANGED bookVars \/ (a \in routed /\ ripup_arc(a)))
    BY <2>1 DEF CheckArc
  <2> QED BY <1>2, <2>2
<1>5. CASE UNCHANGED bookVars
  <2>1. arcs' = arcs
    <3>1. CASE UNCHANGED <<archVars, arcs, net, to_unbind, arcs_left, to_bind>>
      BY <3>1
    <3>2. CASE (\E n \in Nets : BindNet(n)) \/ (\E w \in Wires : UnbindOld(w)) \/ BindRoot
      BY <3>2 DEF BindNet, UnbindOld, BindRoot
    <3>3. CASE (\E a \in Arcs : CheckArc(a)) \/ (\E p \in Pips : BindPip(p)) \/ NetBound
      BY <3>3 DEF CheckArc, BindPip, NetBound
    <3> QED BY <3>1, <3>2, <3>3, OtherSteps
  <2> QED BY <1>5, <2>1
<1> QED BY <1>1, <1>3, <1>4, <1>5, BookSteps

LEMMA RouteArcRoutes ==
    ASSUME NEW t \in Workers, NEW a \in Arcs, RouteArc(t, a), ~UNCHANGED bookVars
    PROVE  \E path, hops : ArcRouted(a, path, hops)
<1> DEFINE hopsOf(path) == [w \in {PipDst[path[i]] : i \in 1..Len(path)} |->
                              CHOOSE p \in {path[i] : i \in 1..Len(path)} : PipDst[p] = w]
<1>1. PICK path \in PathsFor(t, a, Tree(ArcNet[a])) :
         /\ RouteFits(ArcNet[a], hopsOf(path))
         /\ BindRoute(ArcNet[a], PipSrc[path[Len(path)]], hopsOf(path))
         /\ routed' = routed \cup {a}
  BY DEF RouteArc
<1>2. arcs' = arcs
  BY DEF RouteArc
<1>3. ArcRouted(a, path, hopsOf(path))
  BY <1>1, <1>2, PathFound DEF ArcRouted
<1> QED BY <1>3

LEMMA StepRoutes ==
    ASSUME ConstantsStart, Binding, Books, Books', Jobs, Routes, [Next]_vars PROVE Routes'
<1>0. arcs \subseteq Arcs
  BY DEF Binding, BindPlan
<1>1. CASE SetupWires
  BY <1>0, <1>1, SetupKeepsRoutes
<1>2. CASE \E t \in Workers, a \in arcs : RouteArc(t, a) /\ a \notin routed /\ ~UNCHANGED bookVars
  <2>1. PICK t \in Workers, a \in arcs : RouteArc(t, a) /\ a \notin routed /\ ~UNCHANGED bookVars
    BY <1>2
  <2>2. PICK path, hops : ArcRouted(a, path, hops)
    BY <1>0, <2>1, RouteArcRoutes
  <2> QED BY <1>0, <2>1, <2>2, BindKeepsRoutes
<1>3. CASE \E a \in routed : UnbindsRoute(a)
  BY <1>0, <1>3, UnbindKeepsRoutes
<1>4. CASE UNCHANGED bookVars /\ arcs' = arcs
  <2>1. nd_wires' = nd_wires /\ routed' = routed /\ arcs' = arcs
    BY <1>4 DEF bookVars
  <2>2. \A n, d : Body(n, d)' = Body(n, d) /\ (Complete(n, d)' <=> Complete(n, d))
    BY <2>1, BodyOfBooks
  <2>3. \A n, w : Served(n, w)' = Served(n, w)
    BY <2>1, <2>2 DEF Served
  <2>4. RoutesComplete' <=> RoutesComplete
    BY <2>1, <2>2 DEF RoutesComplete
  <2>5. RoutesCounted' <=> RoutesCounted
    BY <2>1, <2>3 DEF RoutesCounted, AtSource, IsConst
  <2> QED BY <2>1, <2>4, <2>5 DEF Routes
<1> QED BY <1>1, <1>2, <1>3, <1>4, BookChanges

LEMMA InitRoutes == Init => Routes
<1> SUFFICES ASSUME Init PROVE Routes
  OBVIOUS
<1>1. routed = {}
  BY DEF Init
<1>2. ASSUME NEW n \in Nets, NEW w \in Wires, nd_wires[n][w] # Unbound
      PROVE  nd_wires[n][w].count = Cardinality(Served(n, w))
  <2>1. Served(n, w) = {}
    BY <1>1 DEF Served
  <2>2. Cardinality(Served(n, w)) = 0
    BY <2>1, FS_EmptySet
  <2>3. nd_wires[n][w] = IF wires[n][w] = Unbound THEN Unbound
                         ELSE [pip |-> wires[n][w].pip, count |-> 0]
    BY DEF Init
  <2> QED BY <1>2, <2>2, <2>3
<1> QED BY <1>1, <1>2 DEF Routes, RoutesComplete, RoutesCounted

\* The state of the routing: what BooksAreTheRoutes needs to be inductive.
Routing == Binding /\ Books /\ Queues /\ Jobs /\ Routes

LEMMA InitRoutingState == Init => Routing
BY InitBinding, InitBooks, InitJobs, InitRoutes DEF Routing

LEMMA StepRoutingState == ConstantsStart /\ Routing /\ [Next]_vars => Routing'
<1> SUFFICES ASSUME ConstantsStart, Routing, [Next]_vars PROVE Routing'
  OBVIOUS
<1>1. Binding'
  BY StepTables, StepPlan DEF Binding, Routing
<1>2. Books'
  BY StepCounts DEF Routing
<1>3. Queues' /\ Jobs'
  BY StepQueues, StepJobs DEF Routing, Routes
<1>4. Routes'
  BY <1>2, StepRoutes DEF Routing
<1> QED BY <1>1, <1>2, <1>3, <1>4 DEF Routing

\* The router's books are the routes of its routed arcs, and their counts the
\* numbers of routes, for every device on which constants start as
\* ConstantsStart asks, and however rip-ups and threads interleave.
THEOREM BooksStayTheRoutes ==
    ASSUME ConstantsStart PROVE Spec => []BooksAreTheRoutes
<1>1. Routing /\ [Next]_vars => Routing'
  BY StepRoutingState
<1>2. Routing => BooksAreTheRoutes
  BY BooksMeaning DEF Routing, Routes
<1> QED BY InitRoutingState, <1>1, <1>2, PTL DEF Spec

-----------------------------------------------------------------------------
(* The resources.  A use is a routed arc and a wire of its route.           *)

Uses == {u \in routed \X Wires : u[2] \in Body(ArcNet[u[1]], ArcSink[u[1]])}
PipOf(u) == nd_wires[ArcNet[u[1]]][u[2]].pip
These(r, v) == {u \in Uses : Resource[PipOf(u)] = r /\ Value[PipOf(u)] = v}

\* A pip of the books drives the wire it is listed for.
DrivesItsWire ==
    \A n \in Nets, w \in Wires :
        (nd_wires[n][w] # Unbound /\ nd_wires[n][w].pip # NoPip) => PipDst[nd_wires[n][w].pip] = w

\* Before the routes are recorded, a net takes one value of each resource on its way
\* to the sinks.
SetupValues == pc = "setup" => OneValue(arcs, nd_wires)

ResourceTypes ==
    /\ nd_res \in [Nets -> [Resources -> [value : Values, count : {1, 2}] \cup {NoUse}]]
    /\ value_count \in [Resources -> [Values -> Nat]]

ValuesCounted == \A r \in Resources, v \in Values : value_count[r][v] = Cardinality(These(r, v))

\* A use is entered with its value.
UsesEntered ==
    \A u \in Uses : Resource[PipOf(u)] \in Resources =>
        LET entry == nd_res[ArcNet[u[1]]][Resource[PipOf(u)]] IN
        entry # NoUse /\ entry.value = Value[PipOf(u)]

\* An entry with a count of one stands for one use at most: with it the entry goes.
SingleUses ==
    \A n \in Nets, r \in Resources : nd_res[n][r].count = 1 =>
        \A u, v \in Uses : (/\ ArcNet[u[1]] = n /\ Resource[PipOf(u)] = r
                            /\ ArcNet[v[1]] = n /\ Resource[PipOf(v)] = r) => u = v

ResourceBooks ==
    /\ DrivesItsWire /\ SetupValues
    /\ ResourceTypes /\ ValuesCounted /\ UsesEntered /\ SingleUses

LEMMA UsesAre ==
    ASSUME Routing
    PROVE  /\ \A a, w : <<a, w>> \in Uses <=> a \in routed /\ w \in Body(ArcNet[a], ArcSink[a])
           /\ \A u \in Uses : /\ u = <<u[1], u[2]>> /\ u[1] \in routed /\ u[1] \in Arcs
                              /\ ArcNet[u[1]] \in Nets /\ u[2] \in Wires
                              /\ u[2] \in Body(ArcNet[u[1]], ArcSink[u[1]])
                              /\ nd_wires[ArcNet[u[1]]][u[2]] \in IntEntry
                              /\ PipOf(u) \in Pips
           /\ IsFiniteSet(Uses)
           /\ \A n \in Nets, d \in Wires : Body(n, d) \subseteq Wires
<1>1. \A n \in Nets, d \in Wires : Body(n, d) \subseteq Wires
  <2>1. \A n \in Nets, d \in Wires : TrailIn(nd_wires[n], n, d) \subseteq Wires
    BY NetBooksOf, TrailIsClosed DEF Routing
  <2> QED BY <2>1, BodyOfBooks DEF BodyIn
<1>2. routed \subseteq Arcs /\ \A a \in routed : ArcNet[a] \in Nets /\ ArcSink[a] \in Wires
  BY Router2Assumption DEF Routing, Routes, Binding, BindPlan
<1>3. IsFiniteSet(Uses)
  <2>1. IsFiniteSet(routed)
    BY <1>2, FS_Subset, Router2Assumption
  <2>2. IsFiniteSet(routed \X Wires)
    BY <2>1, FS_Product, Router2Assumption
  <2> QED BY <2>2, FS_Subset DEF Uses
<1>4. ASSUME NEW u \in Uses
      PROVE  /\ u = <<u[1], u[2]>> /\ u[1] \in routed /\ u[1] \in Arcs
             /\ ArcNet[u[1]] \in Nets /\ u[2] \in Wires
             /\ u[2] \in Body(ArcNet[u[1]], ArcSink[u[1]])
             /\ nd_wires[ArcNet[u[1]]][u[2]] \in IntEntry
             /\ PipOf(u) \in Pips
  <2>1. /\ u = <<u[1], u[2]>> /\ u[1] \in routed /\ u[2] \in Wires
        /\ u[2] \in Body(ArcNet[u[1]], ArcSink[u[1]])
    BY DEF Uses
  <2>2. ~Ends(ArcNet[u[1]], u[2])
    BY <2>1 DEF Routing, Routes, RoutesComplete, Complete
  <2>3. nd_wires[ArcNet[u[1]]][u[2]] \in IntEntry \cup {Unbound}
    BY <1>2, <2>1 DEF Routing, Books
  <2>4. nd_wires[ArcNet[u[1]]][u[2]] \in IntEntry /\ nd_wires[ArcNet[u[1]]][u[2]].pip # NoPip
    BY <2>2, <2>3 DEF Ends
  <2>5. PipOf(u) \in Pips
    BY <2>4 DEF PipOf, IntEntry
  <2> QED BY <1>2, <2>1, <2>4, <2>5
<1>5. \A a, w : <<a, w>> \in Uses <=> a \in routed /\ w \in Body(ArcNet[a], ArcSink[a])
  BY <1>1, <1>2 DEF Uses
<1> QED BY <1>1, <1>3, <1>4, <1>5

\* A route is on the way to the sinks.
LEMMA BodyIsUpstream ==
    ASSUME Books, NEW n \in Nets, NEW a \in arcs, ArcNet[a] = n, ArcSink[a] \in Wires
    PROVE  Body(n, ArcSink[a]) \subseteq
              Upstream(nd_wires[n], {ArcSink[b] : b \in {c \in arcs : ArcNet[c] = n}})
<1> DEFINE d == ArcSink[a]
           b == nd_wires[n]
           sinks == {ArcSink[c] : c \in {e \in arcs : ArcNet[e] = n}}
           T == TrailIn(b, n, d)
<1>1. b \in NetBooks /\ d \in sinks
  BY NetBooksOf
<1>2. /\ T \subseteq Wires
      /\ \A S \in SUBSET Wires :
            (d \in S /\ \A w \in S : ~EndsIn(b, n, w) => PipSrc[b[w].pip] \in S) => T \subseteq S
  BY <1>1, TrailIsClosed
<1>3. Body(n, d) \subseteq T
  BY BodyOfBooks DEF BodyIn
<1> HIDE DEF T, b, d, sinks
<1>4. ASSUME NEW S \in SUBSET Wires, sinks \subseteq S,
             \A w \in S : (b[w] # Unbound /\ b[w].pip # NoPip) => PipSrc[b[w].pip] \in S
      PROVE  T \subseteq S
  BY <1>1, <1>2, <1>4 DEF EndsIn
<1>5. T \subseteq Upstream(b, sinks)
  BY <1>2, <1>4 DEF Upstream
<1> QED BY <1>3, <1>5 DEF b, d, sinks

LEMMA ResourceMeaning == Routing /\ ResourceBooks => ResourcesAreCounted
<1> SUFFICES ASSUME Routing, ResourceBooks PROVE ResourcesAreCounted
  OBVIOUS
<1> DEFINE uses == UNION {{a} \X Body(ArcNet[a], ArcSink[a]) : a \in routed}
           pipOf == [u \in uses |-> nd_wires[ArcNet[u[1]]][u[2]].pip]
           these(r, v) == {u \in uses : Resource[pipOf[u]] = r /\ Value[pipOf[u]] = v}
<1>1. uses = Uses
  <2>1. \A u \in uses : \E a \in routed : u \in {a} \X Body(ArcNet[a], ArcSink[a])
    OBVIOUS
  <2>2. ASSUME NEW u \in uses PROVE u \in Uses
    <3>1. PICK a \in routed : u \in {a} \X Body(ArcNet[a], ArcSink[a])
      BY <2>1
    <3>2. PICK w \in Body(ArcNet[a], ArcSink[a]) : u = <<a, w>>
      BY <3>1
    <3> QED BY <3>2, UsesAre
  <2>3. ASSUME NEW u \in Uses PROVE u \in uses
    <3>1. u = <<u[1], u[2]>> /\ u[1] \in routed /\ u[2] \in Body(ArcNet[u[1]], ArcSink[u[1]])
      BY UsesAre
    <3>2. u \in {u[1]} \X Body(ArcNet[u[1]], ArcSink[u[1]])
      BY <3>1
    <3> QED BY <3>1, <3>2
  <2> QED BY <2>2, <2>3
<1>2. \A u \in Uses : pipOf[u] = PipOf(u)
  BY <1>1 DEF PipOf
<1> HIDE DEF uses, pipOf
<1>3. \A r, v : these(r, v) = These(r, v)
  BY <1>1, <1>2 DEF These
<1>4. ASSUME NEW r \in Resources, NEW v \in Values
      PROVE  /\ value_count[r][v] = Cardinality(these(r, v))
             /\ \A u \in these(r, v) : LET entry == nd_res[ArcNet[u[1]]][r]
                                       IN entry # NoUse /\ entry.value = v
  <2>1. value_count[r][v] = Cardinality(these(r, v))
    BY <1>3 DEF ResourceBooks, ValuesCounted
  <2>2. \A u \in These(r, v) : u \in Uses /\ Resource[PipOf(u)] = r /\ Value[PipOf(u)] = v
    BY DEF These
  <2>3. \A u \in These(r, v) : nd_res[ArcNet[u[1]]][r] # NoUse /\ nd_res[ArcNet[u[1]]][r].value = v
    BY <2>2 DEF ResourceBooks, UsesEntered
  <2> QED BY <1>3, <2>1, <2>3
<1> QED BY <1>4 DEF ResourcesAreCounted, uses, pipOf

\* An entry is a use or none.
LEMMA EntryKinds ==
    /\ NoUse.count = 0
    /\ \A e \in [value : Values, count : {1, 2}] : e # NoUse /\ e.count \in {1, 2}
BY Router2Assumption DEF NoUse

\* Recording the routes that are there.
LEMMA SetupKeepsResources ==
    ASSUME Routing, Routing', ResourceBooks, SetupWires PROVE ResourceBooks'
<1> DEFINE legal == {a \in arcs : check_arc_routing(a)}
           body == [a \in legal |-> Body(ArcNet[a], ArcSink[a])]
           uses == {u \in legal \X Wires : u[2] \in body[u[1]]}
           pipOf == [u \in uses |-> nd_wires[ArcNet[u[1]]][u[2]].pip]
           Drives(n, r, v) ==
             {u \in uses : ArcNet[u[1]] = n /\ Resource[pipOf[u]] = r /\ Value[pipOf[u]] = v}
<1>1. /\ pc = "setup" /\ pc' = "reserve" /\ routed' = legal /\ arcs' = arcs
      /\ nd_res' = [n \in Nets |-> [r \in Resources |->
             IF \A v \in Values : Drives(n, r, v) = {} THEN NoUse
             ELSE LET v == CHOOSE u \in Values : Drives(n, r, u) # {}
                  IN [value |-> v, count |-> IF Cardinality(Drives(n, r, v)) = 1 THEN 1 ELSE 2]]]
      /\ value_count' = [r \in Resources |-> [v \in Values |->
             Cardinality(UNION {Drives(n, r, v) : n \in Nets})]]
  BY DEF SetupWires
<1>2. /\ \A n \in Nets, d \in Wires : Body(n, d)' = Body(n, d)
      /\ \A n \in Nets, w \in Wires : nd_wires[n][w] # Unbound =>
                 nd_wires'[n][w].pip = nd_wires[n][w].pip
  BY SetupKeepsRoutes DEF Routing, Binding, BindPlan
<1>3. \A n \in Nets, w \in Wires : nd_wires'[n][w] # Unbound => nd_wires[n][w] # Unbound
  BY DEF SetupWires
<1>4. \A a \in legal : /\ a \in Arcs /\ ArcNet[a] \in Nets /\ ArcSink[a] \in Wires
                       /\ Complete(ArcNet[a], ArcSink[a])
  BY Router2Assumption DEF Routing, Binding, BindPlan, check_arc_routing
<1> HIDE DEF legal
<1>5. uses = Uses'
  <2>1. \A a \in legal : Body(ArcNet[a], ArcSink[a])' = Body(ArcNet[a], ArcSink[a])
    BY <1>2, <1>4
  <2>2. Uses' = {u \in legal \X Wires : u[2] \in Body(ArcNet[u[1]], ArcSink[u[1]])'}
    BY <1>1 DEF Uses
  <2>3. \A u \in legal \X Wires : u[1] \in legal /\ body[u[1]] = Body(ArcNet[u[1]], ArcSink[u[1]])'
    BY <2>1
  <2> HIDE DEF body
  <2> QED BY <2>2, <2>3
<1>6. \A u \in uses : /\ u[1] \in legal /\ u[2] \in Wires
                      /\ u[2] \in Body(ArcNet[u[1]], ArcSink[u[1]])
                      /\ pipOf[u] = nd_wires[ArcNet[u[1]]][u[2]].pip
  OBVIOUS
<1>7. \A u \in uses : /\ nd_wires[ArcNet[u[1]]][u[2]] # Unbound
                      /\ nd_wires[ArcNet[u[1]]][u[2]].pip # NoPip
  BY <1>4, <1>6 DEF Complete, Ends
<1>8. \A u \in uses : pipOf[u] = PipOf(u)'
  <2>1. \A u \in uses : nd_wires'[ArcNet[u[1]]][u[2]].pip = nd_wires[ArcNet[u[1]]][u[2]].pip
    BY <1>2, <1>4, <1>6, <1>7
  <2> QED BY <1>6, <2>1 DEF PipOf
<1>9. \A u \in uses : ArcNet[u[1]] \in Nets /\ pipOf[u] \in Pips
  <2>1. \A n \in Nets, w \in Wires : nd_wires[n][w] \in IntEntry \cup {Unbound}
    BY DEF Routing, Books
  <2> HIDE DEF uses, pipOf
  <2> SUFFICES ASSUME NEW u \in uses PROVE ArcNet[u[1]] \in Nets /\ pipOf[u] \in Pips
    OBVIOUS
  <2>2. ArcNet[u[1]] \in Nets /\ u[2] \in Wires
    BY <1>4, <1>6
  <2>3. nd_wires[ArcNet[u[1]]][u[2]] \in IntEntry
    BY <1>7, <2>1, <2>2
  <2> QED BY <1>6, <1>7, <2>2, <2>3 DEF IntEntry
<1>10. IsFiniteSet(uses)
  <2>1. IsFiniteSet(legal)
    BY <1>4, FS_Subset, Router2Assumption
  <2>2. IsFiniteSet(legal \X Wires)
    BY <2>1, FS_Product, Router2Assumption
  <2> QED BY <2>2, FS_Subset
<1>11. \A u, v \in uses : (/\ ArcNet[u[1]] = ArcNet[v[1]] /\ Resource[pipOf[u]] = Resource[pipOf[v]]
                           /\ Resource[pipOf[u]] \in Resources) => Value[pipOf[u]] = Value[pipOf[v]]
  <2>1. OneValue(arcs, nd_wires)
    BY <1>1 DEF ResourceBooks, SetupValues
  <2>2. NoResource \notin Resources
    BY Router2Assumption
  <2> DEFINE Way(n) == Upstream(nd_wires[n], {ArcSink[a] : a \in {b \in arcs : ArcNet[b] = n}})
             PipsOf(n) == {nd_wires[n][w].pip : w \in {v \in Way(n) : nd_wires[n][v] # Unbound}}
                            \ {NoPip}
  <2>3. \A n \in Nets : \A p, q \in PipsOf(n) :
           (Resource[p] = Resource[q] /\ Resource[p] # NoResource) => Value[p] = Value[q]
    BY <2>1 DEF OneValue
  <2>4. ASSUME NEW u \in uses PROVE pipOf[u] \in PipsOf(ArcNet[u[1]]) /\ ArcNet[u[1]] \in Nets
    <3> DEFINE a == u[1]
               n == ArcNet[a]
    <3>1. /\ a \in legal /\ a \in arcs /\ n \in Nets /\ ArcSink[a] \in Wires
          /\ u[2] \in Body(n, ArcSink[a]) /\ u[2] \in Wires
          /\ nd_wires[n][u[2]] # Unbound /\ nd_wires[n][u[2]].pip # NoPip
          /\ pipOf[u] = nd_wires[n][u[2]].pip
      <4> HIDE DEF uses, pipOf
      <4>1. /\ a \in legal /\ u[2] \in Wires /\ u[2] \in Body(n, ArcSink[a])
            /\ pipOf[u] = nd_wires[n][u[2]].pip
            /\ nd_wires[n][u[2]] # Unbound /\ nd_wires[n][u[2]].pip # NoPip
        BY <1>6, <1>7, <2>4
      <4>2. a \in arcs
        BY <4>1 DEF legal
      <4> QED BY <1>4, <4>1, <4>2
    <3> HIDE DEF uses, pipOf, a, n
    <3>2. Body(n, ArcSink[a]) \subseteq Way(n)
      BY <3>1, BodyIsUpstream DEF Routing, n
    <3> HIDE DEF Way
    <3>3. pipOf[u] \in PipsOf(n)
      BY <3>1, <3>2
    <3> QED BY <3>1, <3>3 DEF n, a
  <2> HIDE DEF uses, pipOf, PipsOf
  <2> QED BY <2>2, <2>3, <2>4
<1> HIDE DEF uses, pipOf
<1>12. \A n, r, v : IsFiniteSet(Drives(n, r, v)) /\ Cardinality(Drives(n, r, v)) \in Nat
  BY <1>10, FS_Subset, FS_CardinalityType
<1>13. \A r \in Resources, v \in Values : UNION {Drives(n, r, v) : n \in Nets} = These(r, v)'
  <2>1. \A r, v : These(r, v)' = {u \in uses : Resource[pipOf[u]] = r /\ Value[pipOf[u]] = v}
    BY <1>5, <1>8 DEF These
  <2>2. ASSUME NEW r, NEW v, NEW u
        PROVE  u \in UNION {Drives(n, r, v) : n \in Nets} <=>
                  u \in uses /\ Resource[pipOf[u]] = r /\ Value[pipOf[u]] = v
    <3>1. u \in UNION {Drives(n, r, v) : n \in Nets} <=> \E n \in Nets : u \in Drives(n, r, v)
      OBVIOUS
    <3> QED BY <1>9, <3>1
  <2> HIDE DEF Drives
  <2> QED BY <2>1, <2>2
<1>14. \A n \in Nets, r \in Resources, v, w \in Values :
          (Drives(n, r, v) # {} /\ Drives(n, r, w) # {}) => v = w
  BY <1>11
<1>15. ASSUME NEW n \in Nets, NEW r \in Resources, NEW v \in Values, Drives(n, r, v) # {}
       PROVE  nd_res'[n][r] = [value |-> v, count |-> IF Cardinality(Drives(n, r, v)) = 1 THEN 1 ELSE 2]
  <2>1. (CHOOSE u \in Values : Drives(n, r, u) # {}) = v
    <3> HIDE DEF Drives
    <3>1. \A u \in Values : Drives(n, r, u) # {} <=> u = v
      BY <1>14, <1>15
    <3> QED BY <3>1
  <2> HIDE DEF Drives
  <2> QED BY <1>1, <1>15, <2>1
<1>16. ASSUME NEW n \in Nets, NEW r \in Resources
       PROVE  nd_res'[n][r] \in [value : Values, count : {1, 2}] \cup {NoUse}
  <2> HIDE DEF Drives
  <2>1. CASE \A v \in Values : Drives(n, r, v) = {}
    BY <1>1, <2>1
  <2>2. CASE ~\A v \in Values : Drives(n, r, v) = {}
    <3>1. PICK v \in Values : Drives(n, r, v) # {}
      BY <2>2
    <3>2. nd_res'[n][r] = [value |-> v, count |-> IF Cardinality(Drives(n, r, v)) = 1 THEN 1 ELSE 2]
      BY <1>15, <3>1
    <3>3. (IF Cardinality(Drives(n, r, v)) = 1 THEN 1 ELSE 2) \in {1, 2}
      OBVIOUS
    <3> QED BY <3>2, <3>3
  <2> QED BY <2>1, <2>2
<1>17. ResourceTypes'
  <2> HIDE DEF Drives
  <2>1. nd_res' \in [Nets -> [Resources -> [value : Values, count : {1, 2}] \cup {NoUse}]]
    BY <1>1, <1>16
  <2>2. \A r \in Resources, v \in Values : Cardinality(UNION {Drives(n, r, v) : n \in Nets}) \in Nat
    <3>1. \A r, v : IsFiniteSet(These(r, v)')
      BY <1>5, <1>10, FS_Subset DEF These
    <3> QED BY <1>13, <3>1, FS_CardinalityType
  <2> QED BY <1>1, <2>1, <2>2 DEF ResourceTypes
<1>18. ValuesCounted'
  <2> HIDE DEF Drives
  <2> QED BY <1>1, <1>13 DEF ValuesCounted
<1>19. ASSUME NEW u \in uses, Resource[pipOf[u]] \in Resources
       PROVE  /\ u \in Drives(ArcNet[u[1]], Resource[pipOf[u]], Value[pipOf[u]])
              /\ Value[pipOf[u]] \in Values
  BY <1>9, Router2Assumption
<1>20. UsesEntered'
  <2> SUFFICES ASSUME NEW u \in uses, Resource[pipOf[u]] \in Resources
               PROVE  LET entry == nd_res'[ArcNet[u[1]]][Resource[pipOf[u]]] IN
                      entry # NoUse /\ entry.value = Value[pipOf[u]]
    BY <1>5, <1>8 DEF UsesEntered
  <2> HIDE DEF Drives
  <2>1. PICK c \in {1, 2} : nd_res'[ArcNet[u[1]]][Resource[pipOf[u]]] = [value |-> Value[pipOf[u]], count |-> c]
    BY <1>9, <1>15, <1>19
  <2>2. Value[pipOf[u]] \in Values
    BY <1>19
  <2> QED BY <2>1, <2>2, EntryKinds
<1>21. SingleUses'
  <2> SUFFICES ASSUME NEW n \in Nets, NEW r \in Resources, nd_res'[n][r].count = 1,
                      NEW u \in uses, NEW v \in uses,
                      ArcNet[u[1]] = n, Resource[pipOf[u]] = r,
                      ArcNet[v[1]] = n, Resource[pipOf[v]] = r
               PROVE  u = v
    BY <1>5, <1>8 DEF SingleUses
  <2>1. u \in Drives(n, r, Value[pipOf[u]]) /\ Value[pipOf[u]] \in Values
    BY <1>19
  <2>2. v \in Drives(n, r, Value[pipOf[u]])
    BY <1>11
  <2> HIDE DEF Drives
  <2>3. nd_res'[n][r] = [value |-> Value[pipOf[u]],
                         count |-> IF Cardinality(Drives(n, r, Value[pipOf[u]])) = 1 THEN 1 ELSE 2]
    BY <1>15, <2>1
  <2>4. Cardinality(Drives(n, r, Value[pipOf[u]])) = 1
    BY <2>3
  <2>5. PICK x : Drives(n, r, Value[pipOf[u]]) = {x}
    BY <1>12, <2>4, FS_Singleton
  <2> QED BY <2>1, <2>2, <2>5
<1>22. DrivesItsWire'
  BY <1>2, <1>3 DEF ResourceBooks, DrivesItsWire
<1>23. SetupValues'
  BY <1>1 DEF SetupValues
<1> QED BY <1>17, <1>18, <1>20, <1>21, <1>22, <1>23 DEF ResourceBooks

\* One route more: every hop is a use.
LEMMA BindKeepsResources ==
    ASSUME ConstantsStart, Routing, Books', ResourceBooks, pc' # "setup",
           NEW a \in arcs, a \notin routed, NEW path, NEW hops, ArcRouted(a, path, hops)
    PROVE  ResourceBooks'
<1> DEFINE n == ArcNet[a]
           root == PipSrc[path[Len(path)]]
           D == DOMAIN hops
           P == {hops[w] : w \in D}
           At(r, v) == {w \in D : Resource[hops[w]] = r /\ Value[hops[w]] = v}
           New(r, v) == {<<a, w>> : w \in At(r, v)}
           Pass(r, v) == {p \in UsesOf(r, P) : Value[p] = v}
<1>1. /\ a \in Arcs /\ n \in Nets
      /\ \A b \in routed : ArcNet[b] \in Nets /\ ArcSink[b] \in Wires
  BY Router2Assumption DEF Routing, Binding, BindPlan, Routes
<1>2. /\ Body(n, ArcSink[a])' = D
      /\ \A b \in routed : Body(ArcNet[b], ArcSink[b])' = Body(ArcNet[b], ArcSink[b])
      /\ \A b \in routed : \A w \in Body(ArcNet[b], ArcSink[b]) :
            nd_wires'[ArcNet[b]][w].pip = nd_wires[ArcNet[b]][w].pip
      /\ \A w \in D : /\ w \in Wires /\ hops[w] \in Pips /\ PipDst[hops[w]] = w
                      /\ nd_wires'[n][w].pip = hops[w]
  BY BindKeepsRoutes DEF Routing, Binding, BindPlan
<1>3. RouteFits(n, hops) /\ BindRoute(n, root, hops) /\ routed' = routed \cup {a}
  BY DEF ArcRouted
<1> HIDE DEF n, root, D, P
<1>4. \A u : u \in Uses' <=> u \in Uses \/ \E w \in D : u = <<a, w>>
  <2>1. \A u : u \in Uses' <=> /\ u \in (routed \cup {a}) \X Wires
                               /\ u[2] \in Body(ArcNet[u[1]], ArcSink[u[1]])'
    BY <1>3 DEF Uses
  <2>2. \A u \in Uses : u \in routed \X Wires /\ u[2] \in Body(ArcNet[u[1]], ArcSink[u[1]])
    BY DEF Uses
  <2>3. ASSUME NEW u \in Uses' PROVE u \in Uses \/ \E w \in D : u = <<a, w>>
    <3>1. u = <<u[1], u[2]>> /\ u[1] \in routed \cup {a} /\ u[2] \in Wires
      BY <2>1, <2>3
    <3>2. CASE u[1] = a
      BY <1>2, <2>1, <2>3, <3>1, <3>2 DEF n
    <3>3. CASE u[1] \in routed
      BY <1>2, <2>1, <2>3, <3>1, <3>3 DEF Uses
    <3> QED BY <3>1, <3>2, <3>3
  <2>4. ASSUME NEW u \in Uses PROVE u \in Uses'
    BY <1>2, <2>1, <2>2, <2>4
  <2>5. ASSUME NEW w \in D PROVE <<a, w>> \in Uses'
    BY <1>2, <2>1, <2>5 DEF n
  <2> QED BY <2>3, <2>4, <2>5
<1>5. /\ \A u \in Uses : /\ PipOf(u)' = PipOf(u) /\ u[1] \in routed /\ u[1] # a
                         /\ PipOf(u) \in Pips /\ ArcNet[u[1]] \in Nets
      /\ \A w \in D : PipOf(<<a, w>>)' = hops[w]
  <2>1. \A u \in Uses : /\ u[1] \in routed /\ u[2] \in Body(ArcNet[u[1]], ArcSink[u[1]])
                        /\ PipOf(u) \in Pips /\ ArcNet[u[1]] \in Nets
    BY UsesAre
  <2> QED BY <1>2, <2>1 DEF PipOf, n
<1>6. \A r, v : /\ These(r, v)' = These(r, v) \cup New(r, v)
                /\ These(r, v) \cap New(r, v) = {}
  <2> SUFFICES ASSUME NEW r, NEW v
               PROVE  /\ These(r, v)' = These(r, v) \cup New(r, v)
                      /\ These(r, v) \cap New(r, v) = {}
    OBVIOUS
  <2>1. \A u : u \in These(r, v)' <=> u \in Uses' /\ Resource[PipOf(u)'] = r /\ Value[PipOf(u)'] = v
    BY DEF These
  <2>2. \A u : u \in These(r, v) <=> u \in Uses /\ Resource[PipOf(u)] = r /\ Value[PipOf(u)] = v
    BY DEF These
  <2>3. \A u : u \in New(r, v) <=>
            \E w \in D : Resource[hops[w]] = r /\ Value[hops[w]] = v /\ u = <<a, w>>
    OBVIOUS
  <2>4. \A u \in New(r, v) : u[1] = a
    OBVIOUS
  <2> HIDE DEF New
  <2> QED BY <1>4, <1>5, <2>1, <2>2, <2>3, <2>4
<1>7. IsFiniteSet(P)
  <2>1. D \subseteq Wires
    BY <1>2
  <2>2. IsFiniteSet(D)
    BY <2>1, FS_Subset, Router2Assumption
  <2>3. hops \in [D -> P] /\ \A v, w \in D : hops[v] = hops[w] => v = w
    <3>1. hops = [w \in D |-> hops[w]]
      BY DEF ArcRouted, D
    <3> QED BY <1>2, <3>1 DEF P
  <2>4. \A p \in P : \E w \in D : hops[w] = p
    BY DEF P
  <2> QED BY <2>2, <2>3, <2>4, Paired
<1>8. \A r, v : /\ IsFiniteSet(New(r, v)) /\ IsFiniteSet(Pass(r, v))
                /\ Cardinality(New(r, v)) = Cardinality(Pass(r, v))
                /\ Cardinality(Pass(r, v)) \in Nat
  <2> SUFFICES ASSUME NEW r, NEW v
               PROVE  /\ IsFiniteSet(New(r, v)) /\ IsFiniteSet(Pass(r, v))
                      /\ Cardinality(New(r, v)) = Cardinality(Pass(r, v))
                      /\ Cardinality(Pass(r, v)) \in Nat
    OBVIOUS
  <2> DEFINE f == [p \in Pass(r, v) |-> <<a, PipDst[p]>>]
  <2>1. \A p : p \in Pass(r, v) <=> \E w \in D : p = hops[w] /\ Resource[p] = r /\ Value[p] = v
    BY DEF UsesOf, P
  <2>2. \A u : u \in New(r, v) <=>
            \E w \in D : Resource[hops[w]] = r /\ Value[hops[w]] = v /\ u = <<a, w>>
    OBVIOUS
  <2>3. IsFiniteSet(Pass(r, v))
    BY <1>7, FS_Subset DEF UsesOf
  <2> HIDE DEF New, Pass
  <2>4. \A p \in Pass(r, v) : f[p] = <<a, PipDst[p]>> /\ f[p] \in New(r, v)
    BY <1>2, <2>1, <2>2
  <2>5. \A p, q \in Pass(r, v) : f[p] = f[q] => p = q
    <3>1. \A p \in Pass(r, v) : hops[PipDst[p]] = p
      BY <1>2, <2>1
    <3> QED BY <2>4, <3>1
  <2>6. \A u \in New(r, v) : \E p \in Pass(r, v) : f[p] = u
    <3> SUFFICES ASSUME NEW u \in New(r, v) PROVE \E p \in Pass(r, v) : f[p] = u
      OBVIOUS
    <3>1. PICK w \in D : Resource[hops[w]] = r /\ Value[hops[w]] = v /\ u = <<a, w>>
      BY <2>2
    <3> QED BY <1>2, <2>1, <2>4, <3>1
  <2>7. f \in [Pass(r, v) -> New(r, v)]
    BY <2>4
  <2> HIDE DEF f
  <2> QED BY <2>3, <2>5, <2>6, <2>7, Paired, FS_CardinalityType
<1>9. ASSUME NEW r \in Resources, NEW v \in Values
      PROVE  /\ value_count'[r][v] \in Nat
             /\ value_count'[r][v] = Cardinality(These(r, v)')
  <2>1. value_count'[r][v] = value_count[r][v] + Cardinality(Pass(r, v))
    <3> HIDE DEF Pass
    <3>1. value_count' = [s \in Resources |-> [u \in Values |->
                            value_count[s][u] + Cardinality(Pass(s, u))]]
      BY <1>3 DEF BindRoute, P, D, Pass
    <3> QED BY <3>1
  <2>2. value_count[r][v] \in Nat /\ value_count[r][v] = Cardinality(These(r, v))
    BY DEF ResourceBooks, ResourceTypes, ValuesCounted
  <2>3. IsFiniteSet(These(r, v))
    BY UsesAre, FS_Subset DEF These
  <2> HIDE DEF New, Pass
  <2>4. Cardinality(These(r, v)') = Cardinality(These(r, v)) + Cardinality(New(r, v))
    <3>1. IsFiniteSet(New(r, v)) /\ These(r, v) \cap New(r, v) = {}
      BY <1>6, <1>8
    <3>2. Cardinality(These(r, v) \cup New(r, v)) =
            Cardinality(These(r, v)) + Cardinality(New(r, v)) - Cardinality(These(r, v) \cap New(r, v))
      BY <2>3, <3>1, FS_Union
    <3>3. Cardinality(These(r, v) \cap New(r, v)) = 0
      BY <3>1, FS_EmptySet
    <3>4. Cardinality(These(r, v)) \in Nat /\ Cardinality(New(r, v)) \in Nat
      BY <2>3, <3>1, FS_CardinalityType
    <3>5. These(r, v)' = These(r, v) \cup New(r, v)
      BY <1>6
    <3> HIDE DEF These
    <3> QED BY <3>2, <3>3, <3>4, <3>5
  <2> QED BY <1>8, <2>1, <2>2, <2>4
<1> HIDE DEF New, Pass
<1>10. ASSUME NEW m \in Nets, NEW r \in Resources, m # n \/ UsesOf(r, P) = {}
       PROVE  nd_res'[m][r] = nd_res[m][r]
  BY <1>1, <1>3, <1>10 DEF BindRoute, P, D, ResourceBooks, ResourceTypes
<1>11. ASSUME NEW r \in Resources, NEW p \in UsesOf(r, P)
       PROVE  /\ nd_res'[n][r] \in [value : Values, count : {1, 2}]
              /\ nd_res'[n][r].value = Value[p]
              /\ nd_res'[n][r].count = 1 => /\ nd_res[n][r] = NoUse
                                            /\ Cardinality(UsesOf(r, P)) = 1
  <2> DEFINE U == UsesOf(r, P)
             c == IF nd_res[n][r] = NoUse /\ Cardinality(U) = 1 THEN 1 ELSE 2
  <2>1. nd_res'[n][r] = [value |-> Value[CHOOSE q \in U : TRUE], count |-> c]
    <3>1. nd_res' = [nd_res EXCEPT ![n] = [s \in Resources |->
              LET uses == UsesOf(s, P) IN
              IF uses = {} THEN nd_res[n][s]
              ELSE [value |-> Value[CHOOSE q \in uses : TRUE],
                    count |-> IF nd_res[n][s] = NoUse /\ Cardinality(uses) = 1 THEN 1 ELSE 2]]]
      BY <1>3 DEF BindRoute, P, D
    <3>2. nd_res'[n] = [s \in Resources |->
              LET uses == UsesOf(s, P) IN
              IF uses = {} THEN nd_res[n][s]
              ELSE [value |-> Value[CHOOSE q \in uses : TRUE],
                    count |-> IF nd_res[n][s] = NoUse /\ Cardinality(uses) = 1 THEN 1 ELSE 2]]
      BY <1>1, <3>1 DEF ResourceBooks, ResourceTypes
    <3>3. U # {}
      BY <1>11
    <3> QED BY <3>2, <3>3
  <2>2. (CHOOSE q \in U : TRUE) \in U
    BY <1>11
  <2>3. \A q \in U : Value[q] = Value[p]
    BY <1>3, <1>11 DEF RouteFits, P, D
  <2>4. Value[p] \in Values
    BY <1>2, <1>11, Router2Assumption DEF UsesOf, P
  <2>5. c \in {1, 2} /\ (c = 1 => nd_res[n][r] = NoUse /\ Cardinality(U) = 1)
    OBVIOUS
  <2>6. Value[CHOOSE q \in U : TRUE] = Value[p]
    BY <2>2, <2>3
  <2> HIDE DEF U, c
  <2> QED BY <2>1, <2>4, <2>5, <2>6 DEF U
<1>12. ResourceTypes'
  <2>1. \A m \in Nets, r \in Resources :
           nd_res'[m][r] \in [value : Values, count : {1, 2}] \cup {NoUse}
    <3> SUFFICES ASSUME NEW m \in Nets, NEW r \in Resources
                 PROVE  nd_res'[m][r] \in [value : Values, count : {1, 2}] \cup {NoUse}
      OBVIOUS
    <3>1. CASE m # n \/ UsesOf(r, P) = {}
      BY <1>10, <3>1 DEF ResourceBooks, ResourceTypes
    <3>2. CASE m = n /\ UsesOf(r, P) # {}
      BY <1>11, <3>2
    <3> QED BY <3>1, <3>2
  <2>2. /\ nd_res' = [nd_res EXCEPT ![n] = nd_res'[n]]
        /\ DOMAIN nd_res'[n] = Resources
        /\ nd_res'[n] = [r \in Resources |-> nd_res'[n][r]]
    BY <1>1, <1>3 DEF BindRoute, ResourceBooks, ResourceTypes
  <2>3. \A m \in Nets : nd_res'[m] \in [Resources -> [value : Values, count : {1, 2}] \cup {NoUse}]
    <3> SUFFICES ASSUME NEW m \in Nets
                 PROVE  nd_res'[m] \in [Resources -> [value : Values, count : {1, 2}] \cup {NoUse}]
      OBVIOUS
    <3>1. CASE m = n
      BY <2>1, <2>2, <3>1
    <3>2. CASE m # n
      BY <2>2, <3>2 DEF ResourceBooks, ResourceTypes
    <3> QED BY <3>1, <3>2
  <2>4. nd_res' \in [Nets -> [Resources -> [value : Values, count : {1, 2}] \cup {NoUse}]]
    BY <2>2, <2>3 DEF ResourceBooks, ResourceTypes
  <2>5. value_count' \in [Resources -> [Values -> Nat]]
    <3>1. value_count' = [r \in Resources |-> [v \in Values |-> value_count'[r][v]]]
      BY <1>3 DEF BindRoute
    <3> QED BY <1>9, <3>1
  <2> QED BY <2>4, <2>5 DEF ResourceTypes
<1>13. ValuesCounted'
  BY <1>9 DEF ValuesCounted
<1>14. \A w \in D : Resource[hops[w]] \in Resources => hops[w] \in UsesOf(Resource[hops[w]], P)
  BY DEF UsesOf, P
<1>15. UsesEntered'
  <2> SUFFICES ASSUME NEW u \in Uses', Resource[PipOf(u)'] \in Resources
               PROVE  /\ nd_res'[ArcNet[u[1]]][Resource[PipOf(u)']] # NoUse
                      /\ nd_res'[ArcNet[u[1]]][Resource[PipOf(u)']].value = Value[PipOf(u)']
    BY DEF UsesEntered
  <2>1. CASE u \in Uses
    <3> DEFINE r == Resource[PipOf(u)]
               m == ArcNet[u[1]]
    <3>1. PipOf(u)' = PipOf(u) /\ m \in Nets /\ r \in Resources
      BY <1>5, <2>1
    <3>2. nd_res[m][r] # NoUse /\ nd_res[m][r].value = Value[PipOf(u)]
      BY <2>1, <3>1 DEF ResourceBooks, UsesEntered
    <3> HIDE DEF r, m
    <3>3. CASE m # n \/ UsesOf(r, P) = {}
      BY <1>10, <3>1, <3>2, <3>3 DEF r, m
    <3>4. CASE m = n /\ UsesOf(r, P) # {}
      <4>1. PICK p \in UsesOf(r, P) : TRUE
        BY <3>4
      <4>2. nd_res[n][r].value = Value[p]
        BY <1>3, <3>1, <3>2, <3>4, <4>1 DEF RouteFits, P, D
      <4>3. nd_res'[n][r].value = Value[p] /\ nd_res'[n][r] # NoUse
        BY <1>11, <3>1, <4>1, EntryKinds
      <4> QED BY <3>1, <3>2, <3>4, <4>2, <4>3 DEF r, m
    <3> QED BY <3>3, <3>4
  <2>2. ASSUME NEW w \in D, u = <<a, w>>
        PROVE  /\ nd_res'[ArcNet[u[1]]][Resource[PipOf(u)']] # NoUse
               /\ nd_res'[ArcNet[u[1]]][Resource[PipOf(u)']].value = Value[PipOf(u)']
    <3>1. PipOf(u)' = hops[w] /\ ArcNet[u[1]] = n
      BY <1>5, <2>2 DEF n
    <3>2. /\ nd_res'[n][Resource[hops[w]]] \in [value : Values, count : {1, 2}]
          /\ nd_res'[n][Resource[hops[w]]].value = Value[hops[w]]
      BY <1>11, <1>14, <3>1
    <3> QED BY <3>1, <3>2, EntryKinds
  <2> QED BY <1>4, <2>1, <2>2
<1>16. SingleUses'
  <2> SUFFICES ASSUME NEW m \in Nets, NEW r \in Resources, nd_res'[m][r].count = 1,
                      NEW u \in Uses', NEW v \in Uses',
                      ArcNet[u[1]] = m, Resource[PipOf(u)'] = r,
                      ArcNet[v[1]] = m, Resource[PipOf(v)'] = r
               PROVE  u = v
    BY DEF SingleUses
  <2>1. CASE m # n \/ UsesOf(r, P) = {}
    <3>1. \A x \in Uses' : (ArcNet[x[1]] = m /\ Resource[PipOf(x)'] = r) => x \in Uses
      <4> SUFFICES ASSUME NEW w \in D, ArcNet[a] = m, Resource[hops[w]] = r PROVE FALSE
        BY <1>4, <1>5
      <4>1. hops[w] \in UsesOf(r, P)
        BY <1>14
      <4> QED BY <2>1, <4>1 DEF n
    <3>2. nd_res[m][r].count = 1
      BY <1>10, <2>1
    <3> QED BY <1>5, <3>1, <3>2 DEF ResourceBooks, SingleUses
  <2>2. CASE m = n /\ UsesOf(r, P) # {}
    <3>1. nd_res[n][r] = NoUse /\ Cardinality(UsesOf(r, P)) = 1
      BY <1>11, <2>2
    <3>2. IsFiniteSet(UsesOf(r, P))
      BY <1>7, FS_Subset DEF UsesOf
    <3>3. PICK x : UsesOf(r, P) = {x}
      BY <3>1, <3>2, FS_Singleton
    <3>4. \A y \in Uses' : (ArcNet[y[1]] = n /\ Resource[PipOf(y)'] = r) => y = <<a, PipDst[x]>>
      <4> SUFFICES ASSUME NEW y \in Uses', ArcNet[y[1]] = n, Resource[PipOf(y)'] = r
                   PROVE  y = <<a, PipDst[x]>>
        OBVIOUS
      <4>1. y \notin Uses
        BY <1>5, <3>1 DEF ResourceBooks, UsesEntered
      <4>2. PICK w \in D : y = <<a, w>>
        BY <1>4, <4>1
      <4>3. hops[w] = x
        BY <1>5, <1>14, <3>3, <4>2
      <4> QED BY <1>2, <4>2, <4>3
    <3> QED BY <2>2, <3>4
  <2> QED BY <2>1, <2>2
<1>17. DrivesItsWire'
  <2> SUFFICES ASSUME NEW m \in Nets, NEW w \in Wires,
                      nd_wires'[m][w] # Unbound, nd_wires'[m][w].pip # NoPip
               PROVE  PipDst[nd_wires'[m][w].pip] = w
    BY DEF DrivesItsWire
  <2>1. CASE m = n /\ w \in D
    BY <1>2, <2>1
  <2>2. CASE m # n \/ w \notin D
    <3>1. nd_wires'[m][w] = nd_wires[m][w] \/ nd_wires'[m][w] = [pip |-> NoPip, count |-> 0]
      <4>1. nd_wires' = [nd_wires EXCEPT ![n] = [x \in Wires |->
                IF x \in D THEN [pip |-> hops[x],
                                 count |-> IF nd_wires[n][x] = Unbound THEN 1 ELSE nd_wires[n][x].count + 1]
                ELSE IF x = root /\ nd_wires[n][x] = Unbound THEN [pip |-> NoPip, count |-> 0]
                ELSE nd_wires[n][x]]]
        BY <1>3 DEF BindRoute, D
      <4> QED BY <1>1, <2>2, <4>1 DEF Routing, Books
    <3> QED BY <3>1 DEF ResourceBooks, DrivesItsWire
  <2> QED BY <2>1, <2>2
<1>18. SetupValues'
  BY DEF SetupValues
<1> QED BY <1>12, <1>13, <1>15, <1>16, <1>17, <1>18 DEF ResourceBooks

\* One route less.  An entry goes only when the route made the single use of it.
LEMMA UnbindKeepsResources ==
    ASSUME Routing, Books', ResourceBooks, pc' # "setup", NEW a \in routed, UnbindsRoute(a),
           UnbindResources(ArcNet[a],
               {nd_wires[ArcNet[a]][w].pip : w \in Body(ArcNet[a], ArcSink[a])})
    PROVE  ResourceBooks'
<1> DEFINE n == ArcNet[a]
           W == Body(n, ArcSink[a])
           old == nd_wires[n]
           P == {old[w].pip : w \in W}
           Gone(r, v) == {u \in These(r, v) : u[1] = a}
           Pass(r, v) == {p \in UsesOf(r, P) : Value[p] = v}
<1>1. /\ a \in Arcs /\ n \in Nets
      /\ \A b \in routed : ArcNet[b] \in Nets /\ ArcSink[b] \in Wires
  BY Router2Assumption DEF Routing, Binding, BindPlan, Routes
<1>2. /\ \A b \in routed \ {a} : Body(ArcNet[b], ArcSink[b])' = Body(ArcNet[b], ArcSink[b])
      /\ \A b \in routed \ {a} : \A w \in Body(ArcNet[b], ArcSink[b]) :
            nd_wires'[ArcNet[b]][w].pip = nd_wires[ArcNet[b]][w].pip
  BY UnbindKeepsRoutes DEF Routing, Binding, BindPlan
<1>3. /\ UnbindRoute(n, W) /\ UnbindResources(n, P) /\ routed' = routed \ {a}
  BY DEF UnbindsRoute
<1>4. \A w \in W : /\ <<a, w>> \in Uses /\ PipOf(<<a, w>>) = old[w].pip
                   /\ w \in Wires /\ old[w] # Unbound /\ old[w].pip \in Pips /\ PipDst[old[w].pip] = w
  <2>1. \A w \in W : <<a, w>> \in Uses
    BY UsesAre
  <2>2. \A w \in W : /\ PipOf(<<a, w>>) = old[w].pip /\ PipOf(<<a, w>>) \in Pips
                     /\ w \in Wires /\ old[w] \in IntEntry
    BY <2>1, UsesAre DEF PipOf
  <2>3. \A w \in W : old[w] # Unbound /\ old[w].pip # NoPip
    BY <2>2, EntryIsBound, RoutingAssumption
  <2> HIDE DEF W
  <2> QED BY <1>1, <2>1, <2>2, <2>3 DEF ResourceBooks, DrivesItsWire
<1> HIDE DEF n, W, old, P
<1>5. \A u : u \in Uses' <=> u \in Uses /\ u[1] # a
  <2>1. \A u : u \in Uses' <=> /\ u \in (routed \ {a}) \X Wires
                               /\ u[2] \in Body(ArcNet[u[1]], ArcSink[u[1]])'
    BY <1>3 DEF Uses
  <2>2. \A u : u \in Uses <=> u \in routed \X Wires /\ u[2] \in Body(ArcNet[u[1]], ArcSink[u[1]])
    BY DEF Uses
  <2>3. ASSUME NEW u \in routed \X Wires, u[1] # a
        PROVE  Body(ArcNet[u[1]], ArcSink[u[1]])' = Body(ArcNet[u[1]], ArcSink[u[1]])
    BY <1>2, <2>3
  <2> QED BY <2>1, <2>2, <2>3
<1>6. \A u \in Uses' : /\ u \in Uses /\ PipOf(u)' = PipOf(u) /\ PipOf(u) \in Pips
                       /\ ArcNet[u[1]] \in Nets /\ u[1] # a
  <2>1. \A u \in Uses : /\ u[1] \in routed /\ u[2] \in Body(ArcNet[u[1]], ArcSink[u[1]])
                        /\ PipOf(u) \in Pips /\ ArcNet[u[1]] \in Nets
    BY UsesAre
  <2> QED BY <1>2, <1>5, <2>1 DEF PipOf
<1>7. \A r, v : These(r, v)' = These(r, v) \ Gone(r, v)
  <2> SUFFICES ASSUME NEW r, NEW v PROVE These(r, v)' = These(r, v) \ Gone(r, v)
    OBVIOUS
  <2>1. \A u : u \in These(r, v)' <=> u \in Uses' /\ Resource[PipOf(u)'] = r /\ Value[PipOf(u)'] = v
    BY DEF These
  <2>2. \A u : u \in These(r, v) <=> u \in Uses /\ Resource[PipOf(u)] = r /\ Value[PipOf(u)] = v
    BY DEF These
  <2>3. \A u : u \in Gone(r, v) <=> u \in These(r, v) /\ u[1] = a
    OBVIOUS
  <2> HIDE DEF Gone
  <2> QED BY <1>5, <1>6, <2>1, <2>2, <2>3
<1>8. \A r, v : /\ IsFiniteSet(These(r, v)) /\ IsFiniteSet(Gone(r, v)) /\ IsFiniteSet(Pass(r, v))
                /\ Cardinality(Gone(r, v)) = Cardinality(Pass(r, v))
  <2> SUFFICES ASSUME NEW r, NEW v
               PROVE  /\ IsFiniteSet(These(r, v)) /\ IsFiniteSet(Gone(r, v)) /\ IsFiniteSet(Pass(r, v))
                      /\ Cardinality(Gone(r, v)) = Cardinality(Pass(r, v))
    OBVIOUS
  <2> DEFINE f == [u \in Gone(r, v) |-> PipOf(u)]
  <2>1. IsFiniteSet(These(r, v)) /\ IsFiniteSet(Gone(r, v))
    BY UsesAre, FS_Subset DEF These
  <2>2. \A p : p \in Pass(r, v) <=> \E w \in W : p = old[w].pip /\ Resource[p] = r /\ Value[p] = v
    BY DEF UsesOf, P
  <2>3. \A u : u \in Gone(r, v) <=>
            \E w \in W : Resource[old[w].pip] = r /\ Value[old[w].pip] = v /\ u = <<a, w>>
    <3>1. ASSUME NEW u \in Gone(r, v) PROVE \E w \in W : u = <<a, w>>
      <4>1. u \in Uses /\ u[1] = a
        BY DEF These
      <4>2. u = <<u[1], u[2]>> /\ u[2] \in Body(ArcNet[u[1]], ArcSink[u[1]])
        BY <4>1, UsesAre
      <4> QED BY <4>1, <4>2 DEF W, n
    <3>2. \A u : u \in Gone(r, v) <=> /\ u \in Uses /\ Resource[PipOf(u)] = r /\ Value[PipOf(u)] = v
                                      /\ u[1] = a
      BY DEF These
    <3> HIDE DEF Gone
    <3> QED BY <1>4, <3>1, <3>2
  <2> HIDE DEF Gone, Pass
  <2>4. \A w \in W : <<a, w>> \in Gone(r, v) => f[<<a, w>>] = old[w].pip
    BY <1>4
  <2>5. f \in [Gone(r, v) -> Pass(r, v)]
    <3>1. \A u \in Gone(r, v) : f[u] \in Pass(r, v)
      BY <2>2, <2>3, <2>4
    <3> QED BY <3>1
  <2>6. \A u, x \in Gone(r, v) : f[u] = f[x] => u = x
    BY <1>4, <2>3, <2>4
  <2>7. \A p \in Pass(r, v) : \E u \in Gone(r, v) : f[u] = p
    <3> SUFFICES ASSUME NEW p \in Pass(r, v) PROVE \E u \in Gone(r, v) : f[u] = p
      OBVIOUS
    <3>1. PICK w \in W : p = old[w].pip /\ Resource[p] = r /\ Value[p] = v
      BY <2>2
    <3>2. <<a, w>> \in Gone(r, v)
      BY <2>3, <3>1
    <3> QED BY <2>4, <3>1, <3>2
  <2> HIDE DEF f
  <2> QED BY <2>1, <2>5, <2>6, <2>7, Paired
<1>9. ASSUME NEW r \in Resources, NEW v \in Values
      PROVE  /\ value_count'[r][v] \in Nat
             /\ value_count'[r][v] = Cardinality(These(r, v)')
  <2>1. value_count'[r][v] = value_count[r][v] - Cardinality(Pass(r, v))
    <3> HIDE DEF Pass
    <3>1. value_count' = [s \in Resources |-> [u \in Values |->
                            value_count[s][u] - Cardinality(Pass(s, u))]]
      BY <1>3 DEF UnbindResources, Pass
    <3> QED BY <3>1
  <2>2. value_count[r][v] \in Nat /\ value_count[r][v] = Cardinality(These(r, v))
    BY DEF ResourceBooks, ResourceTypes, ValuesCounted
  <2>3. Gone(r, v) \subseteq These(r, v) /\ IsFiniteSet(These(r, v))
    BY <1>8
  <2> HIDE DEF Gone, Pass, These
  <2>4. /\ Cardinality(These(r, v) \ Gone(r, v)) \in Nat
        /\ Cardinality(These(r, v) \ Gone(r, v)) = Cardinality(These(r, v)) - Cardinality(Gone(r, v))
    <3> DEFINE T == These(r, v)
               G == Gone(r, v)
    <3>1. IsFiniteSet(G) /\ IsFiniteSet(T \ G) /\ IsFiniteSet(T)
      BY <1>8, FS_Difference
    <3>2. (T \ G) \cup G = T /\ (T \ G) \cap G = {}
      BY <2>3
    <3> HIDE DEF T, G
    <3>3. Cardinality((T \ G) \cup G) =
            Cardinality(T \ G) + Cardinality(G) - Cardinality((T \ G) \cap G)
      BY <3>1, FS_Union
    <3>4. Cardinality((T \ G) \cap G) = 0
      BY <3>2, FS_EmptySet
    <3>5. Cardinality(T \ G) \in Nat /\ Cardinality(G) \in Nat /\ Cardinality(T) \in Nat
      BY <3>1, FS_CardinalityType
    <3>6. Cardinality((T \ G) \cup G) = Cardinality(T)
      BY <3>2
    <3>7. Cardinality(T \ G) = Cardinality(T) - Cardinality(G)
      BY <3>3, <3>4, <3>5, <3>6
    <3> QED BY <3>5, <3>7 DEF T, G
  <2> QED BY <1>7, <1>8, <2>1, <2>2, <2>4
<1> HIDE DEF Gone, Pass
<1>10. \A m \in Nets, r \in Resources :
          nd_res'[m][r] = IF m = n /\ UsesOf(r, P) # {} /\ nd_res[n][r].count = 1
                          THEN NoUse ELSE nd_res[m][r]
  <2>1. nd_res' = [nd_res EXCEPT ![n] = [r \in Resources |->
              IF UsesOf(r, P) # {} /\ nd_res[n][r].count = 1 THEN NoUse ELSE nd_res[n][r]]]
    BY <1>3 DEF UnbindResources
  <2> QED BY <1>1, <2>1 DEF ResourceBooks, ResourceTypes
<1>11. \A m \in Nets, r \in Resources : nd_res'[m][r] \in {nd_res[m][r], NoUse}
  BY <1>10
<1>12. ResourceTypes'
  <2>1. nd_res' = [nd_res EXCEPT ![n] = [r \in Resources |-> nd_res'[n][r]]]
    <3>1. nd_res' = [nd_res EXCEPT ![n] = [r \in Resources |->
              IF UsesOf(r, P) # {} /\ nd_res[n][r].count = 1 THEN NoUse ELSE nd_res[n][r]]]
      BY <1>3 DEF UnbindResources
    <3> QED BY <1>1, <3>1 DEF ResourceBooks, ResourceTypes
  <2>2. [r \in Resources |-> nd_res'[n][r]]
            \in [Resources -> [value : Values, count : {1, 2}] \cup {NoUse}]
    BY <1>1, <1>11 DEF ResourceBooks, ResourceTypes
  <2>3. nd_res' \in [Nets -> [Resources -> [value : Values, count : {1, 2}] \cup {NoUse}]]
    BY <2>1, <2>2 DEF ResourceBooks, ResourceTypes
  <2>4. value_count' = [r \in Resources |-> [v \in Values |-> value_count'[r][v]]]
    BY <1>3 DEF UnbindResources
  <2> QED BY <1>9, <2>3, <2>4 DEF ResourceTypes
<1>13. ValuesCounted'
  BY <1>9 DEF ValuesCounted
\* The uses that stay: none is of an entry that goes.
<1>14. ASSUME NEW u \in Uses', Resource[PipOf(u)] \in Resources
       PROVE  nd_res'[ArcNet[u[1]]][Resource[PipOf(u)]] = nd_res[ArcNet[u[1]]][Resource[PipOf(u)]]
  <2> DEFINE r == Resource[PipOf(u)]
  <2> SUFFICES ASSUME ArcNet[u[1]] = n, UsesOf(r, P) # {}, nd_res[n][r].count = 1 PROVE FALSE
    BY <1>6, <1>10, <1>14
  <2>1. PICK w \in W : Resource[old[w].pip] = r
    BY DEF UsesOf, P
  <2>2. <<a, w>> \in Uses /\ Resource[PipOf(<<a, w>>)] = r
    BY <1>4, <2>1
  <2>3. u = <<a, w>>
    BY <1>1, <1>6, <1>14, <2>2 DEF ResourceBooks, SingleUses, n
  <2> QED BY <1>6, <2>3
<1>15. UsesEntered'
  <2> SUFFICES ASSUME NEW u \in Uses', Resource[PipOf(u)'] \in Resources
               PROVE  /\ nd_res'[ArcNet[u[1]]][Resource[PipOf(u)']] # NoUse
                      /\ nd_res'[ArcNet[u[1]]][Resource[PipOf(u)']].value = Value[PipOf(u)']
    BY DEF UsesEntered
  <2> QED BY <1>6, <1>14 DEF ResourceBooks, UsesEntered
<1>16. SingleUses'
  <2> SUFFICES ASSUME NEW m \in Nets, NEW r \in Resources, nd_res'[m][r].count = 1,
                      NEW u \in Uses', NEW v \in Uses',
                      ArcNet[u[1]] = m, Resource[PipOf(u)'] = r,
                      ArcNet[v[1]] = m, Resource[PipOf(v)'] = r
               PROVE  u = v
    BY DEF SingleUses
  <2>1. nd_res'[m][r] = nd_res[m][r]
    BY <1>11, EntryKinds
  <2> QED BY <1>6, <2>1 DEF ResourceBooks, SingleUses
<1>17. DrivesItsWire'
  <2> SUFFICES ASSUME NEW m \in Nets, NEW w \in Wires,
                      nd_wires'[m][w] # Unbound, nd_wires'[m][w].pip # NoPip
               PROVE  PipDst[nd_wires'[m][w].pip] = w
    BY DEF DrivesItsWire
  <2>1. nd_wires' = [nd_wires EXCEPT ![n] = [x \in Wires |->
            IF x \in {y \in W : nd_wires[n][y].count = 1} THEN Unbound
            ELSE IF x \in W THEN [nd_wires[n][x] EXCEPT !.count = @ - 1]
            ELSE nd_wires[n][x]]]
    BY <1>3 DEF UnbindRoute
  <2>2. CASE m = n /\ w \in W
    <3>1. nd_wires'[m][w] = [nd_wires[n][w] EXCEPT !.count = @ - 1]
      BY <1>1, <2>1, <2>2 DEF Routing, Books
    <3>2. nd_wires[n][w] \in IntEntry
      <4>1. nd_wires[n][w] # Unbound
        BY <1>4, <2>2 DEF old
      <4>2. nd_wires[n][w] \in IntEntry \cup {Unbound}
        BY <1>1 DEF Routing, Books
      <4> QED BY <4>1, <4>2
    <3>3. nd_wires'[m][w].pip = nd_wires[n][w].pip
      BY <3>1, <3>2 DEF IntEntry
    <3> QED BY <1>4, <2>2, <3>3 DEF old
  <2>3. CASE ~(m = n /\ w \in W)
    <3>1. nd_wires'[m][w] = nd_wires[m][w]
      BY <1>1, <2>1, <2>3 DEF Routing, Books
    <3> QED BY <3>1 DEF ResourceBooks, DrivesItsWire
  <2> QED BY <2>2, <2>3
<1>18. SetupValues'
  BY DEF SetupValues
<1> QED BY <1>12, <1>13, <1>15, <1>16, <1>17, <1>18 DEF ResourceBooks

LEMMA InitResources ==
    ASSUME \A d \in Designs : OneValue(d.arcs, d.routing), Init PROVE ResourceBooks
<1>1. PICK d \in Designs : arcs = d.arcs /\ wires = d.routing
  BY DEF Init
<1>2. \A n \in Nets, w \in Wires :
         /\ nd_wires[n][w] # Unbound <=> wires[n][w] # Unbound
         /\ nd_wires[n][w] # Unbound => nd_wires[n][w].pip = wires[n][w].pip
  <2> SUFFICES ASSUME NEW n \in Nets, NEW w \in Wires
               PROVE  /\ nd_wires[n][w] # Unbound <=> wires[n][w] # Unbound
                      /\ nd_wires[n][w] # Unbound => nd_wires[n][w].pip = wires[n][w].pip
    OBVIOUS
  <2>1. nd_wires[n][w] = IF wires[n][w] = Unbound THEN Unbound
                         ELSE [pip |-> wires[n][w].pip, count |-> 0]
    BY DEF Init
  <2>2. wires \in [Nets -> [Wires -> PipMap \cup {Unbound}]]
    BY InitBinding DEF Binding, ArchTypeOK
  <2>3. wires[n][w] # Unbound => [pip |-> wires[n][w].pip, count |-> 0] \in IntEntry
    BY <2>2 DEF PipMap, IntEntry
  <2> QED BY <2>1, <2>3, EntryIsBound
<1>3. InitialRouting(wires) /\ OneValue(arcs, wires)
  BY <1>1, Router2InitialRouting
<1>4. DrivesItsWire
  BY <1>2, <1>3 DEF InitialRouting, DrivesItsWire
<1>5. OneValue(arcs, nd_wires)
  <2> DEFINE sinks(n) == {ArcSink[a] : a \in {b \in arcs : ArcNet[b] = n}}
             PipsOf(r, n) == {r[n][w].pip : w \in {v \in Upstream(r[n], sinks(n)) : r[n][v] # Unbound}}
                              \ {NoPip}
  <2>1. \A n \in Nets : Upstream(nd_wires[n], sinks(n)) = Upstream(wires[n], sinks(n))
    BY <1>2 DEF Upstream
  <2>2. \A n \in Nets : Upstream(wires[n], sinks(n)) \subseteq Wires
    BY DEF Upstream
  <2> HIDE DEF sinks
  <2>3. \A n \in Nets : PipsOf(nd_wires, n) = PipsOf(wires, n)
    BY <1>2, <2>1, <2>2
  <2>4. \A n \in Nets : \A p, q \in PipsOf(wires, n) :
           (Resource[p] = Resource[q] /\ Resource[p] # NoResource) => Value[p] = Value[q]
    BY <1>3 DEF OneValue, sinks
  <2>5. \A n \in Nets : \A p, q \in PipsOf(nd_wires, n) :
           (Resource[p] = Resource[q] /\ Resource[p] # NoResource) => Value[p] = Value[q]
    <3> HIDE DEF PipsOf
    <3> QED BY <2>3, <2>4
  <2> QED BY <2>5 DEF OneValue, sinks
<1>6. routed = {} /\ nd_res = [n \in Nets |-> [r \in Resources |-> NoUse]]
      /\ value_count = [r \in Resources |-> [v \in Values |-> 0]]
  BY DEF Init
<1>7. Uses = {}
  BY <1>6 DEF Uses
<1>8. \A r, v : These(r, v) = {}
  BY <1>7 DEF These
<1>9. ResourceTypes
  BY <1>6 DEF ResourceTypes
<1>10. ValuesCounted
  BY <1>6, <1>8, FS_EmptySet DEF ValuesCounted
<1>11. UsesEntered /\ SingleUses
  BY <1>7 DEF UsesEntered, SingleUses
<1> QED BY <1>4, <1>5, <1>9, <1>10, <1>11 DEF ResourceBooks, SetupValues

\* The walls between setting the books up and using them.
LEMMA SetupEnds ==
    ASSUME [Next]_vars
    PROVE  \/ SetupWires
           \/ pc' # "setup"
           \/ pc = "setup" /\ UNCHANGED bookVars
<1>1. CASE UNCHANGED vars
  BY <1>1 DEF vars
<1>2. CASE ReserveDone \/ DoRoute \/ UpdateCongestion \/ Returned
  BY <1>2 DEF ReserveDone, DoRoute, UpdateCongestion, Returned, vars
<1>3. CASE \E n \in Nets : ReserveWires(n)
  BY <1>3 DEF ReserveWires
<1>4. CASE RouteStep
  <2>1. CASE NextStage
    BY <2>1 DEF NextStage
  <2>2. CASE \E t \in Workers, n \in Nets : TakeNet(t, n)
    BY <2>2 DEF TakeNet, Active
  <2>3. CASE \E t \in Workers, a \in Arcs : KeepArc(t, a) \/ SinkDone(t, a)
    BY <2>3 DEF KeepArc, SinkDone, Active
  <2>4. CASE \E t \in Workers, a \in Arcs : RipupArc(t, a) \/ RouteFails(t, a)
    BY <2>4 DEF RipupArc, RouteFails, Active
  <2>5. CASE \E t \in Workers, a \in Arcs : RouteArc(t, a)
    <3>1. PICK t \in Workers, a \in Arcs : RouteArc(t, a)
      BY <2>5
    <3>2. pc = "route" /\ (pc' = "crashed" \/ pc' = pc)
      BY <3>1 DEF RouteArc, Active
    <3> QED BY <3>2
  <2>6. CASE \E t \in Workers : NetDone(t)
    BY <2>6 DEF NetDone, Active
  <2> QED BY <1>4, <2>1, <2>2, <2>3, <2>4, <2>5, <2>6 DEF RouteStep
<1>5. CASE BindStep
  <2>1. CASE (\E n \in Nets : BindNet(n)) \/ \E w \in Wires : UnbindOld(w)
    BY <2>1 DEF BindNet, UnbindOld
  <2>2. CASE \E a \in Arcs : CheckArc(a)
    <3>1. PICK a \in Arcs : CheckArc(a)
      BY <2>2
    <3>2. pc = "bind" /\ (pc' = "crashed" \/ pc' = pc)
      BY <3>1 DEF CheckArc
    <3> QED BY <3>2
  <2>3. CASE BindRoot \/ \E p \in Pips : BindPip(p)
    BY <2>3 DEF BindRoot, BindPip
  <2>4. CASE NetBound \/ AllBound
    BY <2>4 DEF NetBound, AllBound
  <2> QED BY <1>5, <2>1, <2>2, <2>3, <2>4 DEF BindStep
<1> QED BY <1>1, <1>2, <1>3, <1>4, <1>5 DEF Next

LEMMA StepResources ==
    ASSUME ConstantsStart, Routing, Routing', ResourceBooks, [Next]_vars PROVE ResourceBooks'
<1>1. CASE SetupWires
  BY <1>1, SetupKeepsResources
<1>2. CASE UNCHANGED bookVars /\ arcs' = arcs
  <2>1. /\ nd_wires' = nd_wires /\ routed' = routed
        /\ nd_res' = nd_res /\ value_count' = value_count
    BY <1>2 DEF bookVars
  <2>2. \A n, d : Body(n, d)' = Body(n, d)
    BY <2>1, BodyOfBooks
  <2>3. Uses' = Uses
    BY <2>1, <2>2 DEF Uses
  <2>4. \A u : PipOf(u)' = PipOf(u)
    BY <2>1 DEF PipOf
  <2>5. \A r, v : These(r, v)' = These(r, v)
    BY <2>3, <2>4 DEF These
  <2>6. DrivesItsWire' /\ ResourceTypes'
    BY <2>1 DEF DrivesItsWire, ResourceTypes, ResourceBooks
  <2>7. ValuesCounted'
    BY <2>1, <2>5 DEF ValuesCounted, ResourceBooks
  <2>8. UsesEntered' /\ SingleUses'
    BY <2>1, <2>3, <2>4 DEF UsesEntered, SingleUses, ResourceBooks
  <2>9. SetupValues'
    <3>1. SetupWires \/ pc' # "setup" \/ pc = "setup"
      BY SetupEnds
    <3>2. CASE SetupWires
      BY <3>2 DEF SetupWires, SetupValues
    <3>3. arcs' = arcs
      BY <1>2
    <3> QED BY <2>1, <3>1, <3>2, <3>3 DEF SetupValues, ResourceBooks
  <2> QED BY <2>6, <2>7, <2>8, <2>9 DEF ResourceBooks
<1>3. CASE ~SetupWires /\ ~UNCHANGED bookVars
  <2>1. pc' # "setup"
    BY <1>3, SetupEnds
  <2>2. CASE \E t \in Workers, a \in arcs : RouteArc(t, a) /\ a \notin routed /\ ~UNCHANGED bookVars
    <3>1. PICK t \in Workers, a \in arcs : RouteArc(t, a) /\ a \notin routed /\ ~UNCHANGED bookVars
      BY <2>2
    <3>2. a \in Arcs
      BY DEF Routing, Binding, BindPlan
    <3>3. PICK path, hops : ArcRouted(a, path, hops)
      BY <3>1, <3>2, RouteArcRoutes
    <3> QED BY <2>1, <3>1, <3>3, BindKeepsResources DEF Routing
  <2>3. CASE \E a \in routed :
                 /\ UnbindsRoute(a)
                 /\ UnbindResources(ArcNet[a],
                       {nd_wires[ArcNet[a]][w].pip : w \in Body(ArcNet[a], ArcSink[a])})
    BY <2>1, <2>3, UnbindKeepsResources DEF Routing
  <2> QED BY <1>3, <2>2, <2>3, BookChanges DEF Routing
<1> QED BY <1>1, <1>2, <1>3, BookChanges DEF Routing, UnbindsRoute

\* The counts of the values of each resource are those of the routes, and a net
\* that uses a resource has an entry with the value it uses, though an entry's
\* count never comes down again once above one.
THEOREM ResourcesStayCounted ==
    ASSUME ConstantsStart, \A d \in Designs : OneValue(d.arcs, d.routing)
    PROVE  Spec => []ResourcesAreCounted
<1>1. Routing /\ ResourceBooks /\ [Next]_vars => Routing' /\ ResourceBooks'
  BY StepRoutingState, StepResources
<1>2. Init => Routing /\ ResourceBooks
  BY InitRoutingState, InitResources
<1> QED BY ResourceMeaning, <1>1, <1>2, PTL DEF Spec

-----------------------------------------------------------------------------
(* The types.  That no count of arcs falls below zero is part of them.      *)

PcValues == {"setup", "reserve", "iterate", "route", "congestion", "bind", "done", "failed",
             "crashed"}

CountsNat ==
    \A n \in Nets, w \in Wires : nd_wires[n][w] # Unbound => nd_wires[n][w].count \in Nat

PlanTypes ==
    /\ pc \in PcValues
    /\ reserved \in [Wires -> Nets \cup {NoNet, Unavailable}]
    /\ bb \in [Nets -> Box]
    /\ nets_left \subseteq Nets
    /\ to_bind.pips \subseteq Pips
    /\ pre_routed \subseteq routed

LEMMA TypesMeaning == Routing /\ ResourceTypes /\ CountsNat /\ PlanTypes => TypeOK
<1> SUFFICES ASSUME Routing, ResourceTypes, CountsNat, PlanTypes PROVE TypeOK
  OBVIOUS
<1>1. nd_wires \in [Nets -> [Wires -> Entry \cup {Unbound}]]
  <2>1. \A n \in Nets, w \in Wires : nd_wires[n][w] \in Entry \cup {Unbound}
    BY DEF Routing, Books, CountsNat, IntEntry, Entry
  <2> QED BY <2>1 DEF Routing, Books
<1>2. curr_cong \in [Wires -> Nat]
  <2>1. ASSUME NEW w \in Wires PROVE curr_cong[w] \in Nat
    <3>1. curr_cong[w] = Cardinality({n \in Nets : nd_wires[n][w] # Unbound})
      BY DEF Routing, Books, CongestionCounts
    <3>2. IsFiniteSet({n \in Nets : nd_wires[n][w] # Unbound})
      BY FS_Subset, Router2Assumption
    <3> QED BY <3>1, <3>2, FS_CardinalityType
  <2> QED BY <2>1 DEF Routing, Books
<1>3. ArchTypeOK /\ arcs \subseteq Arcs /\ net \in Nets \cup {NoNet} /\ to_unbind \subseteq Wires
      /\ arcs_left \subseteq Arcs
  BY DEF Routing, Binding, BindPlan
<1>4. to_bind \in [root : Wires \cup {NoWire}, pips : SUBSET Pips]
  BY DEF Routing, Binding, BindPlan, PlanTypes
<1>5. /\ route_queue \subseteq Nets /\ failed_nets \subseteq Nets /\ late \subseteq Nets
      /\ stage \in 0..3 /\ job \in [Workers -> Job] /\ retry \subseteq Nets
      /\ routed \subseteq arcs
  BY DEF Routing, Queues, Jobs, JobTypes, Routes
<1> QED BY <1>1, <1>2, <1>3, <1>4, <1>5 DEF TypeOK, ResourceTypes, PlanTypes, PcValues

\* Steps that change none of them but pc.
LEMMA PlanSteps ==
    ASSUME [Next]_vars
    PROVE  \/ SetupWires
           \/ \E n \in Nets : ReserveWires(n)
           \/ \E t \in Workers, a \in Arcs : RipupArc(t, a) \/ RouteArc(t, a)
           \/ UpdateCongestion
           \/ \E n \in Nets : BindNet(n)
           \/ \E a \in Arcs : CheckArc(a)
           \/ BindRoot \/ \E p \in Pips : BindPip(p)
           \/ /\ UNCHANGED <<reserved, bb, nets_left, to_bind, routed, pre_routed>>
              /\ pc' = pc \/ pc' \in PcValues
<1>1. CASE UNCHANGED vars
  BY <1>1 DEF vars, bookVars, queueVars, bindVars
<1>2. CASE ReserveDone \/ DoRoute \/ Returned
  BY <1>2 DEF ReserveDone, DoRoute, Returned, vars, bookVars, queueVars, bindVars, PcValues
<1>3. CASE RouteStep
  <2>1. CASE NextStage
    <3>1. pc' = pc \/ pc' \in {"congestion", "route"}
      BY <2>1 DEF NextStage
    <3> QED BY <2>1, <3>1 DEF NextStage, bookVars, queueVars, bindVars, PcValues
  <2>2. CASE \E t \in Workers, n \in Nets : TakeNet(t, n)
    BY <2>2 DEF TakeNet, bookVars, queueVars, bindVars
  <2>3. CASE \E t \in Workers, a \in Arcs : KeepArc(t, a) \/ SinkDone(t, a)
    BY <2>3 DEF KeepArc, SinkDone, bookVars, queueVars, bindVars
  <2>4. CASE \E t \in Workers, a \in Arcs : RouteFails(t, a)
    BY <2>4 DEF RouteFails, bookVars, queueVars, bindVars, PcValues
  <2>5. CASE \E t \in Workers, a \in Arcs : RipupArc(t, a) \/ RouteArc(t, a)
    BY <2>5
  <2>6. CASE \E t \in Workers : NetDone(t)
    BY <2>6 DEF NetDone, bookVars, queueVars, bindVars
  <2> QED BY <1>3, <2>1, <2>2, <2>3, <2>4, <2>5, <2>6 DEF RouteStep
<1>4. CASE (\E w \in Wires : UnbindOld(w)) \/ NetBound
  BY <1>4 DEF UnbindOld, NetBound, bookVars, queueVars
<1>5. CASE AllBound
  <2>1. pc' \in {"done", "iterate"}
    BY <1>5 DEF AllBound
  <2> QED BY <1>5, <2>1 DEF AllBound, bookVars, bindVars, PcValues
<1> QED BY <1>1, <1>2, <1>3, <1>4, <1>5 DEF Next, BindStep

LEMMA ExpandedBox ==
    ASSUME BoxesOnGrid, NEW b \in Box PROVE Expand(b) \in Box
<1>1. Grid.x \in Nat /\ Grid.y \in Nat
  BY DEF BoxesOnGrid
<1>2. /\ b.x0 \in 0..Grid.x /\ b.x1 \in 0..Grid.x /\ b.y0 \in 0..Grid.y /\ b.y1 \in 0..Grid.y
  BY DEF Box
<1>3. \A g \in Nat : \A x \in 0..g : Floor(x) \in 0..g /\ CapAt(x + 1, g) \in 0..g
  BY DEF Floor, CapAt
<1>4. /\ Floor(b.x0) \in 0..Grid.x /\ CapAt(b.x1 + 1, Grid.x) \in 0..Grid.x
      /\ Floor(b.y0) \in 0..Grid.y /\ CapAt(b.y1 + 1, Grid.y) \in 0..Grid.y
  BY <1>1, <1>2, <1>3
<1> HIDE DEF Expand
<1> QED BY <1>4 DEF Expand, Box

LEMMA StepPlanTypes ==
    ASSUME BoxesOnGrid, Routing, PlanTypes, [Next]_vars PROVE PlanTypes'
<1>1. CASE SetupWires
  BY <1>1 DEF SetupWires, PlanTypes, queueVars, bindVars, PcValues
<1>2. CASE \E n \in Nets : ReserveWires(n)
  <2>1. PICK n \in Nets : ReserveWires(n)
    BY <1>2
  <2>2. pc' \in PcValues
    BY <2>1 DEF ReserveWires, PlanTypes, PcValues
  <2>3. reserved' \in [Wires -> Nets \cup {NoNet, Unavailable}]
    BY <2>1 DEF ReserveWires, PlanTypes
  <2> QED BY <2>1, <2>2, <2>3 DEF ReserveWires, PlanTypes, queueVars, bindVars, bookVars
<1>3. CASE \E t \in Workers, a \in Arcs : RipupArc(t, a) \/ RouteArc(t, a)
  <2>1. PICK t \in Workers, a \in Arcs : RipupArc(t, a) \/ RouteArc(t, a)
    BY <1>3
  <2>2. UNCHANGED <<reserved, bb, nets_left, to_bind>>
    BY <2>1 DEF RipupArc, RouteArc, queueVars, bindVars
  <2>3. pc' \in PcValues
    <3>1. pc' = pc \/ pc' = "crashed"
      BY <2>1 DEF RipupArc, RouteArc
    <3> QED BY <3>1 DEF PlanTypes, PcValues
  <2>4. pre_routed' \subseteq routed'
    <3>1. CASE RipupArc(t, a)
      BY <3>1 DEF RipupArc, ripup_arc, bookVars, PlanTypes
    <3>2. CASE RouteArc(t, a)
      <4>1. UNCHANGED bookVars \/ (routed' = routed \cup {a} /\ pre_routed' = pre_routed)
        BY <3>2 DEF RouteArc
      <4> QED BY <4>1 DEF bookVars, PlanTypes
    <3> QED BY <2>1, <3>1, <3>2
  <2> QED BY <2>2, <2>3, <2>4 DEF PlanTypes
<1>4. CASE UpdateCongestion
  <2>1. PICK grown \in SUBSET {n \in Nets : Overused(n)} :
           bb' = [n \in Nets |-> IF n \in grown THEN Expand(bb[n]) ELSE bb[n]]
    BY <1>4 DEF UpdateCongestion
  <2>2. bb' \in [Nets -> Box]
    BY <2>1, ExpandedBox DEF PlanTypes
  <2>3. pc' \in PcValues /\ nets_left' \subseteq Nets
    <3>1. /\ pc' \in {"crashed", "bind", "iterate"}
          /\ nets_left' = Nets \/ nets_left' = nets_left
      BY <1>4 DEF UpdateCongestion
    <3> QED BY <3>1 DEF PlanTypes, PcValues
  <2>4. UNCHANGED <<reserved, to_bind, routed, pre_routed>>
    BY <1>4 DEF UpdateCongestion, bookVars
  <2> QED BY <2>2, <2>3, <2>4 DEF PlanTypes
<1>5. CASE \E n \in Nets : BindNet(n)
  BY <1>5 DEF BindNet, PlanTypes, bookVars, queueVars
<1>6. CASE \E a \in Arcs : CheckArc(a)
  <2>1. PICK a \in Arcs : CheckArc(a)
    BY <1>6
  <2> DEFINE pips == {nd_wires[net][w].pip : w \in Body(net, ArcSink[a])}
  <2>2. UNCHANGED <<reserved, bb, nets_left>>
    BY <2>1 DEF CheckArc
  <2>3. pc' \in PcValues
    <3>1. pc' = pc \/ pc' = "crashed"
      BY <2>1 DEF CheckArc
    <3> QED BY <3>1 DEF PlanTypes, PcValues
  <2>4. pre_routed' \subseteq routed'
    <3>1. UNCHANGED bookVars \/ ripup_arc(a)
      BY <2>1 DEF CheckArc
    <3> QED BY <3>1 DEF ripup_arc, bookVars, PlanTypes
  <2>5. to_bind'.pips \subseteq Pips
    <3>1. CASE to_bind' = to_bind
      BY <3>1 DEF PlanTypes
    <3>2. CASE to_bind' # to_bind
      <4>1. CASE a \notin routed
        BY <2>1, <3>2, <4>1 DEF CheckArc, NothingToBind
      <4>2. CASE a \in routed
        <5>1. Complete(net, ArcSink[a]) /\ to_bind'.pips \subseteq pips
          <6>1. PICK root : /\ Complete(net, ArcSink[a])
                            /\ to_bind' = [root |-> IF wire_to_net[root] = NoNet THEN root ELSE NoWire,
                                           pips |-> {p \in pips : pip_to_net[p] = NoNet}]
            BY <2>1, <3>2, <4>2 DEF CheckArc
          <6> QED BY <6>1
        <5>2. /\ net \in Nets /\ ArcSink[a] \in Wires
          BY <2>1, Router2Assumption DEF CheckArc, Routing, Binding, BindPlan
        <5>3. \A w \in Body(net, ArcSink[a]) : nd_wires[net][w].pip \in Pips
          <6> SUFFICES ASSUME NEW w \in Body(net, ArcSink[a]) PROVE nd_wires[net][w].pip \in Pips
            OBVIOUS
          <6>1. w \in Wires
            BY <5>2, UsesAre
          <6>2. nd_wires[net][w] # Unbound /\ nd_wires[net][w].pip # NoPip
            BY <5>1 DEF Complete, Ends
          <6>3. nd_wires[net][w] \in IntEntry
            BY <5>2, <6>1, <6>2 DEF Routing, Books
          <6> QED BY <6>2, <6>3 DEF IntEntry
        <5> QED BY <5>1, <5>3
      <4> QED BY <4>1, <4>2
    <3> QED BY <3>1, <3>2
  <2> QED BY <2>1, <2>2, <2>3, <2>4, <2>5 DEF PlanTypes, CheckArc
<1>7. CASE BindRoot \/ \E p \in Pips : BindPip(p)
  <2>1. UNCHANGED <<reserved, bb, nets_left, routed, pre_routed>>
    BY <1>7 DEF BindRoot, BindPip, bookVars, queueVars
  <2>2. pc' \in PcValues
    <3>1. pc' = pc \/ pc' = "crashed"
      BY <1>7 DEF BindRoot, BindPip
    <3> QED BY <3>1 DEF PlanTypes, PcValues
  <2>3. to_bind'.pips \subseteq to_bind.pips
    <3>1. to_bind = [root |-> to_bind.root, pips |-> to_bind.pips]
      BY DEF Routing, Binding, BindPlan
    <3>2. \/ to_bind' = [to_bind EXCEPT !.root = NoWire]
          \/ \E p \in Pips : to_bind' = [to_bind EXCEPT !.pips = @ \ {p}]
      BY <1>7 DEF BindRoot, BindPip
    <3> QED BY <3>1, <3>2
  <2> QED BY <2>1, <2>2, <2>3 DEF PlanTypes
<1>8. CASE /\ UNCHANGED <<reserved, bb, nets_left, to_bind, routed, pre_routed>>
           /\ pc' = pc \/ pc' \in PcValues
  BY <1>8 DEF PlanTypes
<1> QED BY <1>1, <1>2, <1>3, <1>4, <1>5, <1>6, <1>7, <1>8, PlanSteps

LEMMA InitTypes ==
    ASSUME BoxesOnGrid, Init PROVE PlanTypes /\ CountsNat
<1>1. reserved \in [Wires -> Nets \cup {NoNet, Unavailable}]
  <2>1. wire_to_net \in [Wires -> Nets \cup {NoNet}]
    BY InitBinding DEF Binding, ArchTypeOK
  <2> QED BY <2>1 DEF Init
<1>2. PlanTypes
  BY <1>1 DEF Init, PlanTypes, PcValues, BoxesOnGrid, NothingToBind
<1>3. CountsNat
  <2> SUFFICES ASSUME NEW n \in Nets, NEW w \in Wires, nd_wires[n][w] # Unbound
               PROVE  nd_wires[n][w].count \in Nat
    BY DEF CountsNat
  <2>1. nd_wires[n][w] = IF wires[n][w] = Unbound THEN Unbound
                         ELSE [pip |-> wires[n][w].pip, count |-> 0]
    BY DEF Init
  <2> QED BY <2>1
<1> QED BY <1>2, <1>3

\* A route that goes was counted, so no count falls below zero.
LEMMA StepCountsNat ==
    ASSUME ConstantsStart, Routing, Routing', CountsNat, [Next]_vars PROVE CountsNat'
<1> SUFFICES ASSUME NEW n \in Nets, NEW w \in Wires, nd_wires'[n][w] # Unbound
             PROVE  nd_wires'[n][w].count \in Nat
  BY DEF CountsNat
<1>1. CASE ~AtSource(n, w)
  <2>1. nd_wires'[n][w].count = Cardinality(Served(n, w)')
    BY <1>1 DEF Routing, Routes, RoutesCounted, AtSource, IsConst
  <2>2. Cardinality(Served(n, w)') \in Nat
    <3>1. routed' \subseteq Arcs
      BY DEF Routing, Routes, Binding, BindPlan
    <3>2. IsFiniteSet(routed')
      BY <3>1, FS_Subset, Router2Assumption
    <3>3. IsFiniteSet(Served(n, w)')
      BY <3>2, FS_Subset DEF Served
    <3> QED BY <3>3, FS_CardinalityType
  <2> QED BY <2>1, <2>2
<1>2. CASE AtSource(n, w)
  <2>1. \A d : w \notin Body(n, d) /\ w \notin Body(n, d)'
    BY <1>2 DEF Body, AtSource, IsConst
  <2>2. CASE SetupWires
    <3> DEFINE legal == {a \in arcs : check_arc_routing(a)}
               body == [a \in legal |-> Body(ArcNet[a], ArcSink[a])]
               uses == {u \in legal \X Wires : u[2] \in body[u[1]]}
    <3>1. {u \in uses : u[2] = w /\ ArcNet[u[1]] = n} = {}
      <4> SUFFICES ASSUME NEW u \in uses, u[2] = w, ArcNet[u[1]] = n PROVE FALSE
        OBVIOUS
      <4>1. u[2] \in Body(ArcNet[u[1]], ArcSink[u[1]])
        OBVIOUS
      <4> QED BY <2>1, <4>1
    <3>2. nd_wires'[n][w] = IF nd_wires[n][w] = Unbound THEN Unbound
                            ELSE [nd_wires[n][w] EXCEPT
                                    !.count = Cardinality({u \in uses : u[2] = w /\ ArcNet[u[1]] = n})]
      BY <2>2 DEF SetupWires
    <3>3. nd_wires[n][w] # Unbound /\ nd_wires'[n][w] = [nd_wires[n][w] EXCEPT !.count = 0]
      <4> HIDE DEF uses
      <4> QED BY <3>1, <3>2, FS_EmptySet
    <3>4. nd_wires[n][w] \in IntEntry
      BY <3>3 DEF Routing, Books
    <3> QED BY <3>3, <3>4 DEF IntEntry
  <2>3. CASE \E t \in Workers, a \in arcs : RouteArc(t, a) /\ a \notin routed /\ ~UNCHANGED bookVars
    <3>1. PICK t \in Workers, a \in arcs : RouteArc(t, a) /\ a \notin routed /\ ~UNCHANGED bookVars
      BY <2>3
    <3>2. a \in Arcs /\ ArcNet[a] \in Nets
      BY Router2Assumption DEF Routing, Binding, BindPlan
    <3>3. PICK path, hops : ArcRouted(a, path, hops)
      BY <3>1, <3>2, RouteArcRoutes
    <3>4. BindRoute(ArcNet[a], PipSrc[path[Len(path)]], hops)
      BY <3>3 DEF ArcRouted
    <3>5. \/ nd_wires'[n][w] = nd_wires[n][w]
          \/ nd_wires'[n][w] = [pip |-> NoPip, count |-> 0]
          \/ nd_wires'[n][w] = [pip |-> hops[w],
                                count |-> IF nd_wires[n][w] = Unbound THEN 1 ELSE nd_wires[n][w].count + 1]
      <4> DEFINE m == ArcNet[a]
                 root == PipSrc[path[Len(path)]]
      <4> HIDE DEF m, root
      <4>1. nd_wires' = [nd_wires EXCEPT ![m] = [x \in Wires |->
              IF x \in DOMAIN hops THEN [pip |-> hops[x],
                               count |-> IF nd_wires[m][x] = Unbound THEN 1 ELSE nd_wires[m][x].count + 1]
              ELSE IF x = root /\ nd_wires[m][x] = Unbound THEN [pip |-> NoPip, count |-> 0]
              ELSE nd_wires[m][x]]]
        BY <3>4 DEF BindRoute, m, root
      <4>2. CASE n # m
        BY <4>1, <4>2 DEF Routing, Books
      <4>3. CASE n = m
        BY <4>1, <4>3 DEF Routing, Books
      <4> QED BY <4>2, <4>3
    <3>6. (IF nd_wires[n][w] = Unbound THEN 1 ELSE nd_wires[n][w].count + 1) \in Nat
      BY DEF CountsNat
    <3> QED BY <3>5, <3>6 DEF CountsNat
  <2>4. CASE \E a \in routed : UnbindsRoute(a)
    <3>1. PICK a \in routed : UnbindsRoute(a)
      BY <2>4
    <3> DEFINE m == ArcNet[a]
               W == Body(m, ArcSink[a])
    <3>2. nd_wires' = [nd_wires EXCEPT ![m] = [x \in Wires |->
              IF x \in {y \in W : nd_wires[m][y].count = 1} THEN Unbound
              ELSE IF x \in W THEN [nd_wires[m][x] EXCEPT !.count = @ - 1]
              ELSE nd_wires[m][x]]]
      BY <3>1 DEF UnbindsRoute, UnbindRoute
    <3>3. m = n => w \notin W
      BY <2>1
    <3> HIDE DEF m, W
    <3>4. nd_wires'[n][w] = nd_wires[n][w]
      BY <3>2, <3>3 DEF Routing, Books
    <3> QED BY <3>4 DEF CountsNat
  <2>5. CASE UNCHANGED bookVars
    BY <2>5 DEF bookVars, CountsNat
  <2> QED BY <2>2, <2>3, <2>4, <2>5, BookChanges DEF Routing
<1> QED BY <1>1, <1>2

\* Everything keeps its type; in particular no count of arcs, of nets or of
\* values falls below zero, and no arc the design lacks is in anybody's hands.
THEOREM RouterTypes ==
    ASSUME ConstantsStart, BoxesOnGrid, \A d \in Designs : OneValue(d.arcs, d.routing)
    PROVE  Spec => []TypeOK
<1> DEFINE Inv == Routing /\ ResourceBooks /\ CountsNat /\ PlanTypes
<1>1. Inv /\ [Next]_vars => Inv'
  BY StepRoutingState, StepResources, StepCountsNat, StepPlanTypes
<1>2. Init => Inv
  BY InitRoutingState, InitResources, InitTypes
<1>3. Inv => TypeOK
  BY TypesMeaning DEF ResourceBooks
<1> HIDE DEF Inv
<1> QED BY <1>1, <1>2, <1>3, PTL DEF Spec

-----------------------------------------------------------------------------
(* The wires a net cannot do without. *)

LEMMA ChainIsLeast ==
    ASSUME NEW w \in Wires, NEW step \in [Wires -> SUBSET Wires]
    PROVE  /\ w \in Chain(w, step)
           /\ \A C \in SUBSET Wires :
                 (w \in C /\ \A u \in C : step[u] \subseteq C) => Chain(w, step) \subseteq C
<1> DEFINE g == [S \in SUBSET Wires |-> S \cup UNION {step[u] : u \in S}]
           Fits(f) == f = [S \in SUBSET Wires |->
                             LET more == S \cup UNION {step[u] : u \in S}
                             IN IF more = S THEN S ELSE f[more]]
           c == [S \in SUBSET Wires |-> Closure(g, S)]
           met == CHOOSE f : Fits(f)
<1>1. \A S \in SUBSET Wires : g[S] = S \cup UNION {step[u] : u \in S} /\ g[S] \in SUBSET Wires
  OBVIOUS
<1>2. \A S, T \in SUBSET Wires : S \subseteq T => g[S] \subseteq g[T]
  BY <1>1
<1>3. Grows(g)
  <2>1. g \in [SUBSET Wires -> SUBSET Wires]
    OBVIOUS
  <2>2. \A S \in SUBSET Wires : S \subseteq g[S]
    BY <1>1
  <2> HIDE DEF g
  <2> QED BY <1>2, <2>1, <2>2 DEF Grows
<1>4. \A f : Fits(f) <=> Walks(f, g)
  BY <1>1 DEF Walks
<1>5. Fits(met)
  <2>1. Fits(c)
    <3> HIDE DEF g, Fits
    <3> QED BY <1>3, <1>4, WalkIsThere
  <2> HIDE DEF Fits, c
  <2> QED BY <2>1
<1>6. Walks(met, g)
  <2> HIDE DEF met, Fits, g
  <2> QED BY <1>4, <1>5
<1>7. Chain(w, step) = met[{w}]
  BY DEF Chain
<1> HIDE DEF met, Fits, c
<1>8. /\ w \in met[{w}]
      /\ \A C \in SUBSET Wires : (w \in C /\ g[C] \subseteq C) => met[{w}] \subseteq C
  <2> HIDE DEF g
  <2> QED BY <1>3, <1>6, WalkFrom
<1>9. \A C \in SUBSET Wires : (\A u \in C : step[u] \subseteq C) => g[C] \subseteq C
  BY <1>1
<1> HIDE DEF g
<1>10. ASSUME NEW C \in SUBSET Wires, w \in C, \A u \in C : step[u] \subseteq C
       PROVE  Chain(w, step) \subseteq C
  <2>1. g[C] \subseteq C
    BY <1>9, <1>10
  <2> QED BY <1>7, <1>8, <1>10, <2>1
<1> QED BY <1>7, <1>8, <1>10

\* One look at the pips into the wires, and at those out of them.
BlindOnce(n, S) ==
    {w \in Wires :
        \/ OthersWire(n, w)
        \/ /\ w \notin DriverWires[n]
           /\ \A p \in Pips : PipDst[p] = w /\ checkPipAvail(p) => PipSrc[p] \in S}

LEMMA UndriveableIsLeast ==
    ASSUME NEW n
    PROVE  /\ \A C \in SUBSET Wires : BlindOnce(n, C) \subseteq C => Undriveable(n) \subseteq C
           /\ \A w \in Wires : OthersWire(n, w) => w \in Undriveable(n)
<1> DEFINE g == [S \in SUBSET Wires |-> S \cup BlindOnce(n, S)]
           Fits(f) == f = [S \in SUBSET Wires |->
                             LET more == S \cup BlindOnce(n, S)
                             IN IF more = S THEN S ELSE f[more]]
           c == [S \in SUBSET Wires |-> Closure(g, S)]
           blind == CHOOSE f : Fits(f)
<1>0. \A S, T \in SUBSET Wires : S \subseteq T =>
         BlindOnce(n, S) \subseteq BlindOnce(n, T) /\ BlindOnce(n, S) \in SUBSET Wires
  BY DEF BlindOnce
<1>1. \A S \in SUBSET Wires : g[S] = S \cup BlindOnce(n, S) /\ g[S] \in SUBSET Wires
  BY <1>0
<1>2. \A S, T \in SUBSET Wires : S \subseteq T => g[S] \subseteq g[T]
  BY <1>0, <1>1
<1>3. Grows(g)
  <2>1. g \in [SUBSET Wires -> SUBSET Wires]
    BY <1>1
  <2>2. \A S \in SUBSET Wires : S \subseteq g[S]
    BY <1>1
  <2> HIDE DEF g
  <2> QED BY <1>2, <2>1, <2>2 DEF Grows
<1>4. \A f : Fits(f) <=> Walks(f, g)
  BY <1>1 DEF Walks
<1>5. Fits(blind)
  <2>1. Fits(c)
    <3> HIDE DEF g, Fits
    <3> QED BY <1>3, <1>4, WalkIsThere
  <2> HIDE DEF Fits, c
  <2> QED BY <2>1
<1>6. Walks(blind, g)
  <2> HIDE DEF blind, Fits, g
  <2> QED BY <1>4, <1>5
<1>7. Undriveable(n) = blind[{}]
  BY DEF Undriveable, BlindOnce
<1> HIDE DEF blind, Fits, c
<1>8. \A C \in SUBSET Wires : g[C] \subseteq C => blind[{}] \subseteq C
  <2> HIDE DEF g
  <2> QED BY <1>3, <1>6, WalkIsLeast
<1>9. blind[{}] = Closure(g, {})
  <2> HIDE DEF g
  <2> QED BY <1>3, <1>6, WalkIsClosure
<1>10. ASSUME NEW w \in Wires, OthersWire(n, w), NEW C \in SUBSET Wires, g[C] \subseteq C
       PROVE  w \in C
  <2>1. w \in BlindOnce(n, C)
    BY <1>10 DEF BlindOnce
  <2> HIDE DEF g
  <2> QED BY <1>1, <1>10, <2>1
<1> HIDE DEF g
<1>11. \A w \in Wires : OthersWire(n, w) => w \in Closure(g, {})
  BY <1>10 DEF Closure
<1>12. \A C \in SUBSET Wires : BlindOnce(n, C) \subseteq C => Undriveable(n) \subseteq C
  BY <1>1, <1>7, <1>8
<1> QED BY <1>7, <1>9, <1>11, <1>12

DeadOnce(n, S) ==
    {w \in Wires :
        \/ OthersWire(n, w)
        \/ /\ w \notin Sinks(n)
           /\ \A p \in Pips : PipSrc[p] = w /\ checkPipAvail(p) => PipDst[p] \in S}

LEMMA UnusableIsLeast ==
    ASSUME NEW n
    PROVE  \A C \in SUBSET Wires : DeadOnce(n, C) \subseteq C => Unusable(n) \subseteq C
<1> DEFINE g == [S \in SUBSET Wires |-> S \cup DeadOnce(n, S)]
           Fits(f) == f = [S \in SUBSET Wires |->
                             LET more == S \cup DeadOnce(n, S)
                             IN IF more = S THEN S ELSE f[more]]
           c == [S \in SUBSET Wires |-> Closure(g, S)]
           dead == CHOOSE f : Fits(f)
<1>0. \A S, T \in SUBSET Wires : S \subseteq T =>
         DeadOnce(n, S) \subseteq DeadOnce(n, T) /\ DeadOnce(n, S) \in SUBSET Wires
  BY DEF DeadOnce
<1>1. \A S \in SUBSET Wires : g[S] = S \cup DeadOnce(n, S) /\ g[S] \in SUBSET Wires
  BY <1>0
<1>2. \A S, T \in SUBSET Wires : S \subseteq T => g[S] \subseteq g[T]
  BY <1>0, <1>1
<1>3. Grows(g)
  <2>1. g \in [SUBSET Wires -> SUBSET Wires]
    BY <1>1
  <2>2. \A S \in SUBSET Wires : S \subseteq g[S]
    BY <1>1
  <2> HIDE DEF g
  <2> QED BY <1>2, <2>1, <2>2 DEF Grows
<1>4. \A f : Fits(f) <=> Walks(f, g)
  BY <1>1 DEF Walks
<1>5. Fits(dead)
  <2>1. Fits(c)
    <3> HIDE DEF g, Fits
    <3> QED BY <1>3, <1>4, WalkIsThere
  <2> HIDE DEF Fits, c
  <2> QED BY <2>1
<1>6. Walks(dead, g)
  <2> HIDE DEF dead, Fits, g
  <2> QED BY <1>4, <1>5
<1>7. Unusable(n) = dead[{}]
  BY DEF Unusable, DeadOnce
<1> HIDE DEF dead, Fits, c
<1>8. \A C \in SUBSET Wires : g[C] \subseteq C => dead[{}] \subseteq C
  <2> HIDE DEF g
  <2> QED BY <1>3, <1>6, WalkIsLeast
<1> QED BY <1>1, <1>7, <1>8

\* A way for net n: its pips are free, and no wire it comes from is another's.
Way(n, path) ==
    /\ RouteRoot(n, PipSrc[path[Len(path)]])
    /\ \A i \in 1..Len(path) : checkPipAvail(path[i]) /\ ~OthersWire(n, PipSrc[path[i]])

From(path) == {PipSrc[path[i]] : i \in 1..Len(path)}

LEMMA PathWires ==
    ASSUME NEW d, NEW path, LeadsTo(path, d)
    PROVE  /\ Len(path) \in Nat /\ Len(path) \in 1..Len(path) /\ 1 \in 1..Len(path)
           /\ \A i \in 1..Len(path) : /\ path[i] \in Pips
                                      /\ PipSrc[path[i]] \in Wires /\ PipSrc[path[i]] \in From(path)
           /\ From(path) \subseteq Wires
           /\ \A i \in 1..Len(path) : i # Len(path) =>
                 i + 1 \in 1..Len(path) /\ PipDst[path[i + 1]] = PipSrc[path[i]]
           /\ \A i \in 1..Len(path) : i # 1 => PipDst[path[i]] \in From(path)
<1>1. Len(path) \in Nat /\ Len(path) >= 1 /\ \A i \in 1..Len(path) : path[i] \in Pips
  BY DEF LeadsTo
<1>2. \A i \in 1..Len(path) : PipSrc[path[i]] \in Wires
  BY <1>1, Router2Assumption
<1>3. ASSUME NEW i \in 1..Len(path), i # Len(path)
      PROVE  i + 1 \in 1..Len(path) /\ PipDst[path[i + 1]] = PipSrc[path[i]]
  BY <1>1, <1>3 DEF LeadsTo
<1>4. ASSUME NEW i \in 1..Len(path), i # 1 PROVE PipDst[path[i]] \in From(path)
  <2>1. i - 1 \in 1..Len(path) /\ i - 1 # Len(path) /\ (i - 1) + 1 = i
    BY <1>1, <1>4
  <2>2. PipDst[path[(i - 1) + 1]] = PipSrc[path[i - 1]]
    BY <1>3, <2>1
  <2> QED BY <2>1, <2>2 DEF From
<1>5. Len(path) \in 1..Len(path) /\ 1 \in 1..Len(path)
  BY <1>1
<1>6. /\ \A i \in 1..Len(path) : PipSrc[path[i]] \in From(path)
      /\ From(path) \subseteq Wires
  BY <1>2 DEF From
<1> HIDE DEF From
<1> QED BY <1>1, <1>2, <1>3, <1>4, <1>5, <1>6

\* What a way passes is open to its net from both ends.
LEMMA WayIsOpen ==
    ASSUME NEW n \in Nets, ~IsConst(n), NEW d, NEW path, LeadsTo(path, d), Way(n, path)
    PROVE  From(path) \cap Undriveable(n) = {}
<1> DEFINE C == Wires \ From(path)
<1>1. BlindOnce(n, C) \subseteq C
  <2> SUFFICES ASSUME NEW w \in BlindOnce(n, C), w \in From(path) PROVE FALSE
    BY DEF BlindOnce
  <2>1. PICK i \in 1..Len(path) : w = PipSrc[path[i]]
    BY DEF From
  <2>2. ~OthersWire(n, w)
    BY <2>1 DEF Way
  <2>3. w \notin DriverWires[n]
        /\ \A p \in Pips : PipDst[p] = w /\ checkPipAvail(p) => PipSrc[p] \in C
    BY <2>2 DEF BlindOnce
  <2>4. i # Len(path)
    <3>1. w # SourceWire[n]
      <4>1. w \in Wires
        BY DEF BlindOnce
      <4> QED BY <2>3, <4>1, Router2Assumption, RoutingAssumption
    <3> QED BY <2>1, <3>1 DEF Way, RouteRoot
  <2>5. path[i + 1] \in Pips /\ PipDst[path[i + 1]] = w /\ PipSrc[path[i + 1]] \in From(path)
        /\ checkPipAvail(path[i + 1])
    BY <2>1, <2>4, PathWires DEF Way
  <2> QED BY <2>3, <2>5
<1>2. C \in SUBSET Wires
  OBVIOUS
<1> HIDE DEF C
<1>3. Undriveable(n) \subseteq C
  BY <1>1, <1>2, UndriveableIsLeast
<1> QED BY <1>3 DEF C

LEMMA WayIsUseful ==
    ASSUME NEW n, NEW d \in Sinks(n), ~OthersWire(n, d), d \in Wires,
           NEW path, LeadsTo(path, d), Way(n, path)
    PROVE  (From(path) \cup {d}) \cap Unusable(n) = {}
<1> DEFINE C == Wires \ (From(path) \cup {d})
<1>1. DeadOnce(n, C) \subseteq C
  <2> SUFFICES ASSUME NEW w \in DeadOnce(n, C), w \in From(path) \cup {d} PROVE FALSE
    BY DEF DeadOnce
  <2>1. w # d
    BY DEF DeadOnce
  <2>2. PICK i \in 1..Len(path) : w = PipSrc[path[i]]
    BY <2>1 DEF From
  <2>3. ~OthersWire(n, w)
    BY <2>2 DEF Way
  <2>4. \A p \in Pips : PipSrc[p] = w /\ checkPipAvail(p) => PipDst[p] \in C
    BY <2>3 DEF DeadOnce
  <2>5. path[i] \in Pips /\ checkPipAvail(path[i])
    BY PathWires DEF Way
  <2>6. PipDst[path[i]] \in From(path) \cup {d}
    BY PathWires DEF LeadsTo
  <2> QED BY <2>2, <2>4, <2>5, <2>6
<1>2. C \in SUBSET Wires
  OBVIOUS
<1> HIDE DEF C
<1>3. Unusable(n) \subseteq C
  BY <1>1, <1>2, UnusableIsLeast
<1> QED BY <1>3 DEF C

\* Every way of net n to the sink of arc a passes w.
Forced(n, a, w) ==
    \A path \in AllPathsBack[ArcSink[a]] :
        Way(n, path) => \E i \in 1..Len(path) : w \in {PipSrc[path[i]], PipDst[path[i]]}

LEMMA PathBack ==
    ASSUME NEW a \in Arcs, NEW path \in AllPathsBack[ArcSink[a]] PROVE LeadsTo(path, ArcSink[a])
<1>1. path \in {q \in PathsBack(ArcSink[a]) : LeadsTo(q, ArcSink[a])}
  BY DEF AllPathsBack
<1> QED BY <1>1

LEMMA PassesFrom ==
    ASSUME NEW path, NEW d, LeadsTo(path, d), NEW w \in From(path) \cup {d}
    PROVE  \E i \in 1..Len(path) : w \in {PipSrc[path[i]], PipDst[path[i]]}
<1>1. CASE w \in From(path)
  BY <1>1 DEF From
<1>2. CASE w = d
  BY <1>2, PathWires DEF LeadsTo
<1> QED BY <1>1, <1>2

LEMMA SinkChainForced ==
    ASSUME arcs \subseteq Arcs, NEW n \in Nets, ~IsConst(n), NEW w \in SinkChain(n)
    PROVE  \E a \in ArcsOf(n) : Forced(n, a, w)
<1> DEFINE blind == Undriveable(n)
           Left(u) == {p \in Pips : PipDst[p] = u /\ PipSrc[p] \notin blind}
           step == [u \in Wires |->
                       IF u # SourceWire[n] /\ Cardinality(Left(u)) = 1
                       THEN {PipSrc[p] : p \in Left(u)} ELSE {}]
<1>1. PICK a \in ArcsOf(n) : w \in Chain(ArcSink[a], step)
  BY DEF SinkChain
<1>2. a \in Arcs /\ ArcSink[a] \in Wires
  BY Router2Assumption DEF ArcsOf
<1>3. step \in [Wires -> SUBSET Wires]
  <2>1. \A u \in Wires : {PipSrc[p] : p \in Left(u)} \in SUBSET Wires
    BY Router2Assumption
  <2> HIDE DEF Left
  <2> QED BY <2>1
<1> SUFFICES ASSUME NEW path \in AllPathsBack[ArcSink[a]], Way(n, path)
             PROVE  \E i \in 1..Len(path) : w \in {PipSrc[path[i]], PipDst[path[i]]}
  BY DEF Forced
<1> DEFINE d == ArcSink[a]
           C == From(path) \cup {d}
<1>4. LeadsTo(path, d)
  BY <1>2, PathBack
<1>5. \A u \in C : step[u] \subseteq C
  <2> SUFFICES ASSUME NEW u \in C, NEW x \in step[u] PROVE x \in C
    OBVIOUS
  <2>1. u \in Wires /\ u # SourceWire[n] /\ Cardinality(Left(u)) = 1
        /\ x \in {PipSrc[p] : p \in Left(u)}
    <3>1. u \in Wires
      BY <1>2, <1>4, PathWires
    <3> HIDE DEF Left, C
    <3> QED BY <3>1
  <2>2. PICK i \in 1..Len(path) : PipDst[path[i]] = u
    <3>1. CASE u = d
      BY <1>4, <3>1, PathWires DEF LeadsTo
    <3>2. CASE u \in From(path)
      <4>1. PICK j \in 1..Len(path) : u = PipSrc[path[j]]
        BY <3>2 DEF From
      <4>2. j # Len(path)
        BY <2>1, <4>1 DEF Way, RouteRoot
      <4> QED BY <1>4, <4>1, <4>2, PathWires
    <3> QED BY <3>1, <3>2
  <2>3. path[i] \in Left(u) /\ PipSrc[path[i]] \in C
    BY <1>4, <2>2, PathWires, WayIsOpen
  <2>4. PICK p \in Left(u) : x = PipSrc[p]
    BY <2>1
  <2>5. p = path[i]
    <3> HIDE DEF Left
    <3>1. \E q : Left(u) = {q}
      <4>1. IsFiniteSet(Left(u))
        BY FS_Subset, Router2Assumption DEF Left
      <4> QED BY <2>1, <4>1, FS_Singleton
    <3> QED BY <2>3, <2>4, <3>1
  <2> QED BY <2>3, <2>4, <2>5
<1>6. C \in SUBSET Wires /\ d \in C
  BY <1>2, <1>4, PathWires
<1> HIDE DEF step, C, d
<1>7. w \in C
  BY <1>1, <1>2, <1>3, <1>5, <1>6, ChainIsLeast DEF d
<1> QED BY <1>4, <1>7, PassesFrom DEF C

LEMMA DriverChainForced ==
    ASSUME arcs \subseteq Arcs, NEW n \in Nets, ~IsConst(n), SourceWire[n] # NoWire,
           NEW a \in ArcsOf(n), ~OthersWire(n, ArcSink[a]),
           NEW w \in DriverChain(n)
    PROVE  Forced(n, a, w)
<1> DEFINE dead == Unusable(n)
           Left(u) == {p \in Pips : PipSrc[p] = u /\ PipDst[p] \notin dead}
           step == [u \in Wires |->
                       IF Cardinality(Left(u)) = 1 /\ reserved[u] # Unavailable
                       THEN {PipDst[p] : p \in Left(u)} \ Sinks(n) ELSE {}]
<1>1. w \in Chain(SourceWire[n], step)
  BY DEF DriverChain
<1>2. a \in Arcs /\ ArcSink[a] \in Wires /\ ArcSink[a] \in Sinks(n) /\ SourceWire[n] \in Wires
  BY Router2Assumption DEF ArcsOf, Sinks
<1>3. step \in [Wires -> SUBSET Wires]
  <2>1. \A u \in Wires : {PipDst[p] : p \in Left(u)} \ Sinks(n) \in SUBSET Wires
    BY RoutingAssumption
  <2> HIDE DEF Left
  <2> QED BY <2>1
<1> SUFFICES ASSUME NEW path \in AllPathsBack[ArcSink[a]], Way(n, path)
             PROVE  \E i \in 1..Len(path) : w \in {PipSrc[path[i]], PipDst[path[i]]}
  BY DEF Forced
<1> DEFINE d == ArcSink[a]
           C == From(path)
<1>4. LeadsTo(path, d)
  BY <1>2, PathBack
<1>5. \A u \in C : step[u] \subseteq C
  <2> SUFFICES ASSUME NEW u \in C, NEW x \in step[u] PROVE x \in C
    OBVIOUS
  <2>1. u \in Wires /\ Cardinality(Left(u)) = 1 /\ x \in {PipDst[p] : p \in Left(u)}
        /\ x \notin Sinks(n)
    <3>1. u \in Wires
      BY <1>2, <1>4, PathWires
    <3> HIDE DEF Left, C
    <3> QED BY <3>1
  <2>2. PICK i \in 1..Len(path) : PipSrc[path[i]] = u
    BY DEF From
  <2>3. i = 1 \/ PipDst[path[i]] \in C
    BY <1>4, PathWires
  <2>4. PipDst[path[1]] = d
    BY <1>4 DEF LeadsTo
  <2>5. PipDst[path[i]] \in C \cup {d}
    BY <2>3, <2>4
  <2>6. path[i] \in Left(u)
    BY <1>2, <1>4, <2>2, <2>5, PathWires, WayIsUseful
  <2>7. PICK p \in Left(u) : x = PipDst[p]
    BY <2>1
  <2>8. p = path[i]
    <3>1. IsFiniteSet(Left(u))
      BY FS_Subset, Router2Assumption
    <3> HIDE DEF Left
    <3>2. \E q : Left(u) = {q}
      BY <2>1, <3>1, FS_Singleton
    <3> QED BY <2>6, <2>7, <3>2
  <2> QED BY <1>2, <2>1, <2>5, <2>7, <2>8
<1>6. C \in SUBSET Wires /\ SourceWire[n] \in C
  <2>1. PipSrc[path[Len(path)]] = SourceWire[n]
    BY DEF Way, RouteRoot
  <2> QED BY <1>4, <2>1, PathWires
<1> HIDE DEF step, C, d
<1>7. w \in C
  BY <1>1, <1>2, <1>3, <1>5, <1>6, ChainIsLeast
<1> QED BY <1>4, <1>7, PassesFrom DEF C, d

\* A net claims what it is forced to use, unless part of it belongs to another.
LEMMA ClaimForced ==
    ASSUME arcs \subseteq Arcs, NEW n \in Nets, ~IsConst(n),
           \A x \in Claim(n) : ~OthersWire(n, x), NEW w \in Claim(n)
    PROVE  \E a \in ArcsOf(n) : Forced(n, a, w)
<1>1. SourceWire[n] # NoWire /\ w \in DriverChain(n) \cup SinkChain(n)
  BY DEF Claim
<1>2. PICK a \in ArcsOf(n) \ pre_routed : TRUE
  BY DEF Claim
<1>3. ~OthersWire(n, ArcSink[a])
  <2> DEFINE blind == Undriveable(n)
             Left(u) == {p \in Pips : PipDst[p] = u /\ PipSrc[p] \notin blind}
             step == [u \in Wires |->
                         IF u # SourceWire[n] /\ Cardinality(Left(u)) = 1
                         THEN {PipSrc[p] : p \in Left(u)} ELSE {}]
  <2>1. \A u \in Wires : {PipSrc[p] : p \in Left(u)} \in SUBSET Wires
    BY Router2Assumption
  <2>2. step \in [Wires -> SUBSET Wires]
    <3> HIDE DEF Left
    <3> QED BY <2>1
  <2>3. SinkChain(n) = UNION {Chain(ArcSink[b], step) : b \in ArcsOf(n) \ pre_routed}
    BY DEF SinkChain
  <2> HIDE DEF step
  <2>4. ArcSink[a] \in Wires
    BY <1>2, Router2Assumption DEF ArcsOf
  <2>5. ArcSink[a] \in Chain(ArcSink[a], step)
    BY <2>2, <2>4, ChainIsLeast
  <2>6. ArcSink[a] \in SinkChain(n)
    BY <1>2, <2>3, <2>5
  <2> QED BY <1>1, <1>2, <2>6 DEF Claim
<1>4. CASE w \in SinkChain(n)
  BY <1>4, SinkChainForced
<1>5. CASE w \in DriverChain(n)
  BY <1>1, <1>2, <1>3, <1>5, DriverChainForced
<1> QED BY <1>1, <1>4, <1>5

\* What is reserved for a net beyond its wires is forced on it.
Reserved ==
    pc \in {"setup", "reserve"} =>
          \A n \in Nets, w \in Wires :
              (reserved[w] = n /\ wire_to_net[w] = NoNet /\ ~IsConst(n)) =>
                  \E a \in ArcsOf(n) : Forced(n, a, w)

LEMMA ReservedMeaning == Reserved => ReservedWiresAreForced
  BY DEF Reserved, ReservedWiresAreForced, Forced, Way

LEMMA InitReserved == Init => Reserved
<1> SUFFICES ASSUME Init PROVE Reserved
  OBVIOUS
<1>1. ASSUME NEW n \in Nets, NEW w \in Wires, reserved[w] = n PROVE wire_to_net[w] # NoNet
  BY <1>1, RoutingAssumption DEF Init
<1> QED BY <1>1 DEF Reserved

\* Until routing starts, wires are only reserved.
LEMMA BeforeRouting ==
    ASSUME [Next]_vars, pc' \in {"setup", "reserve"}
    PROVE  /\ UNCHANGED <<archVars, arcs>>
           /\ pc \in {"setup", "reserve"}
           /\ \/ UNCHANGED reserved
              \/ \E m \in Nets :
                    /\ \A w \in Claim(m) : ~OthersWire(m, w)
                    /\ reserved' = [w \in Wires |-> IF w \in Claim(m) THEN m ELSE reserved[w]]
<1>1. CASE UNCHANGED vars
  BY <1>1 DEF vars
<1>2. CASE SetupWires
  BY <1>2 DEF SetupWires
<1>3. ASSUME NEW m \in Nets, ReserveWires(m)
      PROVE  /\ UNCHANGED <<archVars, arcs>> /\ pc = "reserve"
             /\ \A w \in Claim(m) : ~OthersWire(m, w)
             /\ reserved' = [w \in Wires |-> IF w \in Claim(m) THEN m ELSE reserved[w]]
  BY <1>3 DEF ReserveWires
<1>4. CASE ReserveDone \/ DoRoute \/ UpdateCongestion \/ Returned
  BY <1>4 DEF ReserveDone, DoRoute, UpdateCongestion, Returned, vars
<1>5. CASE RouteStep
  <2>1. pc' \in {pc, "congestion", "crashed", "failed"} /\ pc = "route"
    BY <1>5 DEF RouteStep, NextStage, TakeNet, KeepArc, RipupArc, RouteArc, SinkDone,
                RouteFails, NetDone, Active
  <2> QED BY <2>1
<1>6. CASE BindStep
  <2>1. pc' \in {pc, "done", "iterate", "crashed"} /\ pc = "bind"
    BY <1>6 DEF BindStep, BindNet, UnbindOld, CheckArc, BindRoot, BindPip, NetBound, AllBound
  <2> QED BY <2>1
<1> QED BY <1>1, <1>2, <1>3, <1>4, <1>5, <1>6 DEF Next

LEMMA StepReserved ==
    ASSUME Binding, Reserved, [Next]_vars PROVE Reserved'
<1>1. arcs \subseteq Arcs
  BY DEF Binding, BindPlan
<1> SUFFICES ASSUME pc' \in {"setup", "reserve"},
                    NEW n \in Nets, NEW w \in Wires,
                    reserved'[w] = n, wire_to_net'[w] = NoNet, ~IsConst(n)
             PROVE  (\E a \in ArcsOf(n) : Forced(n, a, w))'
  BY DEF Reserved, IsConst
<1>2. /\ UNCHANGED <<archVars, arcs>>
      /\ pc \in {"setup", "reserve"}
  BY BeforeRouting
<1>3. ArcsOf(n)' = ArcsOf(n)
  BY <1>2 DEF ArcsOf
<1>4. \A p : checkPipAvail(p)' = checkPipAvail(p)
  BY <1>2 DEF checkPipAvail, archVars
<1>5. CASE UNCHANGED reserved
  <2>1. PICK a \in ArcsOf(n) : Forced(n, a, w)
    BY <1>2, <1>5 DEF Reserved, archVars
  <2>2. Forced(n, a, w)'
    BY <1>4, <1>5, <2>1 DEF Forced, Way, OthersWire
  <2> QED BY <1>3, <2>1, <2>2
<1>6. ASSUME NEW m \in Nets,
             \A x \in Claim(m) : ~OthersWire(m, x),
             reserved' = [x \in Wires |-> IF x \in Claim(m) THEN m ELSE reserved[x]]
      PROVE  (\E a \in ArcsOf(n) : Forced(n, a, w))'
  <2>1. PICK a \in ArcsOf(n) : Forced(n, a, w)
    <3>1. CASE w \in Claim(m)
      BY <1>1, <1>6, <3>1, ClaimForced
    <3>2. CASE w \notin Claim(m)
      BY <1>2, <1>6, <3>2 DEF Reserved, archVars
    <3> QED BY <3>1, <3>2
  \* What is another's before the step is another's after it.
  <2>2. \A x \in Wires : OthersWire(n, x) => OthersWire(n, x)'
    <3> SUFFICES ASSUME NEW x \in Wires, OthersWire(n, x) PROVE OthersWire(n, x)'
      OBVIOUS
    <3>1. CASE x \notin Claim(m)
      BY <1>6, <3>1 DEF OthersWire
    <3>2. CASE x \in Claim(m)
      <4>1. reserved[x] = m /\ reserved'[x] = m
        BY <1>6, <3>2 DEF OthersWire
      <4> QED BY <4>1 DEF OthersWire
    <3> QED BY <3>1, <3>2
  <2>3. Forced(n, a, w)'
    <3> SUFFICES ASSUME NEW path \in AllPathsBack[ArcSink[a]], Way(n, path)'
                 PROVE  \E i \in 1..Len(path) : w \in {PipSrc[path[i]], PipDst[path[i]]}
      BY DEF Forced
    <3>1. a \in Arcs
      BY <1>1 DEF ArcsOf
    <3>2. \A i \in 1..Len(path) : PipSrc[path[i]] \in Wires
      BY <3>1, PathBack, PathWires
    <3>3. Way(n, path)
      BY <1>4, <2>2, <3>2 DEF Way
    <3> QED BY <2>1, <3>3 DEF Forced
  <2> QED BY <1>3, <2>1, <2>3
<1> QED BY <1>5, <1>6, BeforeRouting

\* "All the sink wires that must be used to route a given arc": before routing
\* starts, a wire reserved for a net it was not bound to lies on every way left
\* from the net's source to one of its sinks, whatever the nets, in whatever order
\* they claim (find_all_reserved_wires).
THEOREM ReservedAreForced == Spec => []ReservedWiresAreForced
<1>1. Init => Binding /\ Reserved
  BY InitBinding, InitReserved
<1>2. Binding /\ Reserved /\ [Next]_vars => Binding' /\ Reserved'
  BY StepTables, StepPlan, StepReserved DEF Binding
<1>3. Reserved => ReservedWiresAreForced
  BY ReservedMeaning
<1> QED BY <1>1, <1>2, <1>3, PTL DEF Spec

-----------------------------------------------------------------------------
(* The end: every sink that is to be routed is, and what is routed is bound. *)

\* A pip of the books goes on driving the wire it is listed for.
LEMMA StepDrives ==
    ASSUME ConstantsStart, Routing, Books', DrivesItsWire, [Next]_vars PROVE DrivesItsWire'
<1> USE DEF DrivesItsWire
<1>1. CASE SetupWires
  <2>1. \A n \in Nets, w \in Wires : /\ nd_wires[n][w] # Unbound => nd_wires'[n][w].pip = nd_wires[n][w].pip
                                     /\ nd_wires'[n][w] # Unbound => nd_wires[n][w] # Unbound
    <3>1. \A n \in Nets, w \in Wires : nd_wires[n][w] # Unbound => nd_wires'[n][w].pip = nd_wires[n][w].pip
      BY <1>1, SetupKeepsRoutes DEF Routing, Binding, BindPlan
    <3>2. \A n \in Nets, w \in Wires : nd_wires[n][w] = Unbound => nd_wires'[n][w] = Unbound
      BY <1>1 DEF SetupWires
    <3> QED BY <3>1, <3>2
  <2> QED BY <2>1
<1>2. CASE \E t \in Workers, a \in arcs : RouteArc(t, a) /\ a \notin routed /\ ~UNCHANGED bookVars
  <2>1. PICK t \in Workers, a \in arcs : RouteArc(t, a) /\ a \notin routed /\ ~UNCHANGED bookVars
    BY <1>2
  <2>2. a \in Arcs /\ ArcNet[a] \in Nets
    BY Router2Assumption DEF Routing, Binding, BindPlan
  <2>3. PICK path, hops : ArcRouted(a, path, hops)
    BY <2>1, <2>2, RouteArcRoutes
  <2>4. \A w \in DOMAIN hops : PipDst[hops[w]] = w /\ nd_wires'[ArcNet[a]][w].pip = hops[w]
    BY <2>1, <2>2, <2>3, BindKeepsRoutes DEF Routing, Binding, BindPlan
  <2>5. BindRoute(ArcNet[a], PipSrc[path[Len(path)]], hops)
    BY <2>3 DEF ArcRouted
  <2>6. nd_wires \in [Nets -> [Wires -> IntEntry \cup {Unbound}]]
    BY DEF Routing, Books
  <2>7. ASSUME NEW n \in Nets, NEW w \in Wires, nd_wires'[n][w] # Unbound, nd_wires'[n][w].pip # NoPip
        PROVE  PipDst[nd_wires'[n][w].pip] = w
    <3>1. CASE n = ArcNet[a] /\ w \in DOMAIN hops
      BY <2>4, <3>1
    <3>2. CASE ~(n = ArcNet[a] /\ w \in DOMAIN hops)
      <4>1. nd_wires'[n][w] = nd_wires[n][w] \/ nd_wires'[n][w] = [pip |-> NoPip, count |-> 0]
        BY <2>2, <2>5, <2>6, <3>2 DEF BindRoute
      <4> QED BY <2>7, <4>1
    <3> QED BY <3>1, <3>2
  <2> QED BY <2>7
<1>3. CASE \E a \in routed : UnbindsRoute(a)
  <2>1. PICK a \in routed : UnbindsRoute(a)
    BY <1>3
  <2>2. ArcNet[a] \in Nets
    BY Router2Assumption DEF Routing, Binding, BindPlan, Routes
  <2>3. nd_wires \in [Nets -> [Wires -> IntEntry \cup {Unbound}]]
    BY DEF Routing, Books
  <2>4. \A n \in Nets, w \in Wires : nd_wires'[n][w] # Unbound =>
            nd_wires[n][w] # Unbound /\ nd_wires'[n][w].pip = nd_wires[n][w].pip
    <3>1. UnbindRoute(ArcNet[a], Body(ArcNet[a], ArcSink[a]))
      BY <2>1 DEF UnbindsRoute
    <3>2. \A w \in Body(ArcNet[a], ArcSink[a]) : nd_wires[ArcNet[a]][w] # Unbound
      BY DEF Routing, Routes, RoutesComplete, Complete, Ends
    <3> HIDE DEF Body
    <3> QED BY <2>2, <2>3, <3>1, <3>2 DEF UnbindRoute, IntEntry
  <2> QED BY <2>4
<1>4. CASE UNCHANGED bookVars
  BY <1>4 DEF bookVars
<1> QED BY <1>1, <1>2, <1>3, <1>4, BookChanges DEF Routing

\* A routed arc of net n ends in d.
SinkRouted(n, d) == \E b \in routed : ArcNet[b] = n /\ ArcSink[b] = d

ArcServed(a) == ArcSink[a] = SourceWire[ArcNet[a]] \/ SinkRouted(ArcNet[a], ArcSink[a])

\* A sink in the books is that of a routed arc.
SinksServed ==
    pc # "setup" =>
        \A a \in arcs :
            (nd_wires[ArcNet[a]][ArcSink[a]] # Unbound /\ ~AtSource(ArcNet[a], ArcSink[a]))
                => SinkRouted(ArcNet[a], ArcSink[a])

\* Before the routes are recorded, what the books have leads back to a start, and
\* nothing is shared.
SetupRooted ==
    pc = "setup" =>
        /\ \A n \in Nets, w \in Wires : nd_wires[n][w] # Unbound =>
              /\ nd_wires[n][w].pip = NoPip <=> AtSource(n, w)
              /\ nd_wires[n][w].pip # NoPip => nd_wires[n][PipSrc[nd_wires[n][w].pip]] # Unbound
              /\ curr_cong[w] = 1
        /\ \A n \in Nets : \A W \in (SUBSET Wires) \ {{}} :
              \E w \in W : nd_wires[n][w] # Unbound =>
                 (nd_wires[n][w].pip = NoPip \/ PipSrc[nd_wires[n][w].pip] \notin W)
        /\ \A r \in Resources, v \in Values : value_count[r][v] = 0

\* A wire of a trail is where it begins or drives another.
LEMMA TrailStep ==
    ASSUME NEW b \in NetBooks, NEW n, NEW d \in Wires, NEW w \in TrailIn(b, n, d), w # d
    PROVE  \E v \in TrailIn(b, n, d) : ~EndsIn(b, n, v) /\ PipSrc[b[v].pip] = w
<1> SUFFICES ASSUME \A v \in TrailIn(b, n, d) : ~EndsIn(b, n, v) => PipSrc[b[v].pip] # w
             PROVE  FALSE
  OBVIOUS
<1> DEFINE S == TrailIn(b, n, d) \ {w}
<1>1. S \in SUBSET Wires /\ d \in S
  BY TrailIsClosed
<1>2. \A v \in S : ~EndsIn(b, n, v) => PipSrc[b[v].pip] \in S
  BY TrailIsClosed
<1> HIDE DEF S
<1>3. TrailIn(b, n, d) \subseteq S
  BY <1>1, <1>2, TrailIsClosed
<1> QED BY <1>3 DEF S

\* So a sink, which drives nothing, is on no route but its own.
LEMMA SinkIsFirst ==
    ASSUME SinksEnd, NEW c \in Arcs, NEW b \in NetBooks, NEW d \in Wires,
           ArcSink[c] \in BodyIn(b, ArcNet[c], d)
    PROVE  ArcSink[c] = d
<1>1. ArcSink[c] \in TrailIn(b, ArcNet[c], d) /\ ~AtSource(ArcNet[c], ArcSink[c])
  BY DEF BodyIn
<1> SUFFICES ASSUME ArcSink[c] # d PROVE FALSE
  OBVIOUS
<1>2. PICK v \in TrailIn(b, ArcNet[c], d) :
         ~EndsIn(b, ArcNet[c], v) /\ PipSrc[b[v].pip] = ArcSink[c]
  BY <1>1, TrailStep
<1>3. v \in Wires
  BY TrailIsClosed
<1>4. b[v].pip \in Pips
  BY <1>2, <1>3 DEF EndsIn, NetBooks, IntEntry
<1> QED BY <1>1, <1>2, <1>4 DEF SinksEnd

\* A net with arcs ends its walks where it may start a route.
LEMMA StartIsRoot ==
    ASSUME ConstantsStart, NEW a \in Arcs, NEW w \in Wires, AtSource(ArcNet[a], w)
    PROVE  RouteRoot(ArcNet[a], w)
<1>1. IsConst(ArcNet[a]) => SourceWire[ArcNet[a]] = NoWire \/ RouteRoot(ArcNet[a], SourceWire[ArcNet[a]])
  BY DEF ConstantsStart
<1>2. w # NoWire
  BY RoutingAssumption
<1> QED BY <1>1, <1>2 DEF AtSource, RouteRoot

LEMMA SinkAtSource ==
    ASSUME ConstantsStart, NEW a \in Arcs, AtSource(ArcNet[a], ArcSink[a])
    PROVE  ~IsConst(ArcNet[a]) /\ ArcSink[a] = SourceWire[ArcNet[a]]
<1>1. ArcSink[a] \in Wires
  BY Router2Assumption
<1>2. RouteRoot(ArcNet[a], ArcSink[a])
  BY <1>1, StartIsRoot
<1> QED BY <1>2 DEF ConstantsStart, RouteRoot

\* An arc whose sink the books lead back from, and that is not routed, has another
\* routed to its sink.
LEMMA KeptIsServed ==
    ASSUME ConstantsStart, Routing, SinksServed, pc # "setup",
           NEW a \in arcs, check_arc_routing(a)
    PROVE  ArcServed(a)
<1> DEFINE n == ArcNet[a]
           d == ArcSink[a]
<1>1. a \in Arcs /\ n \in Nets /\ d \in Wires /\ nd_wires[n] \in NetBooks
  BY NetBooksOf, Router2Assumption DEF Routing, Binding, BindPlan
<1>2. Complete(n, d)
  BY DEF check_arc_routing
<1>3. CASE AtSource(n, d)
  BY <1>1, <1>3, SinkAtSource DEF ArcServed
<1>4. CASE ~AtSource(n, d)
  <2>1. d \in Body(n, d)
    <3>1. d \in TrailIn(nd_wires[n], n, d)
      BY <1>1, TrailIsClosed
    <3> QED BY <1>4, <3>1, BodyOfBooks DEF BodyIn
  <2>2. nd_wires[n][d] # Unbound
    BY <1>2, <2>1 DEF Complete, Ends
  <2> QED BY <1>4, <2>2 DEF SinksServed, ArcServed
<1> QED BY <1>3, <1>4

LEMMA SetupServes ==
    ASSUME ConstantsStart, Routing, SetupRooted, SetupWires PROVE SinksServed'
<1>1. pc = "setup" /\ routed' = {a \in arcs : check_arc_routing(a)} /\ arcs' = arcs
  BY DEF SetupWires
<1> SUFFICES ASSUME NEW a \in arcs, nd_wires'[ArcNet[a]][ArcSink[a]] # Unbound,
                    ~AtSource(ArcNet[a], ArcSink[a])
             PROVE  check_arc_routing(a)
  BY <1>1 DEF SinksServed, SinkRouted, AtSource, IsConst
<1> DEFINE n == ArcNet[a]
           d == ArcSink[a]
           b == nd_wires[n]
           held == {w \in Wires : b[w] # Unbound}
<1>2. n \in Nets /\ d \in Wires /\ b \in NetBooks
  BY NetBooksOf, Router2Assumption DEF Routing, Binding, BindPlan
<1>3. d \in held
  BY <1>2 DEF SetupWires
<1>4. \A w \in held : /\ b[w].pip = NoPip <=> AtSource(n, w)
                      /\ b[w].pip # NoPip => b[PipSrc[b[w].pip]] # Unbound
                      /\ curr_cong[w] = 1
  BY <1>1, <1>2 DEF SetupRooted
<1>5. \A w \in held : ~EndsIn(b, n, w) => PipSrc[b[w].pip] \in held
  <2>1. \A w \in held : b[w] \in IntEntry
    BY <1>2 DEF NetBooks
  <2> QED BY <1>4, <2>1, Router2Assumption DEF EndsIn, IntEntry
<1> HIDE DEF b, held
<1>6. TrailIn(b, n, d) \subseteq held
  <2>1. held \in SUBSET Wires
    BY DEF held
  <2> QED BY <1>2, <1>3, <1>5, <2>1, TrailIsClosed
<1>7. Trail(n, d) \subseteq held
  BY <1>6, TrailOfBooks DEF b
<1>8. Complete(n, d)
  BY <1>4, <1>7 DEF Complete, Body, Ends, held, b
<1>9. \A r \in Resources : ValuesInUse(r) = {}
  BY <1>1 DEF SetupRooted, ValuesInUse
<1>10. ASSUME NEW w \in Trail(n, d)
       PROVE  /\ curr_cong[w] = 1
              /\ LET p == nd_wires[n][w].pip IN
                 p # NoPip /\ Resource[p] # NoResource =>
                     Cardinality(ValuesInUse(Resource[p])) <= 1
  <2>1. w \in held
    BY <1>7
  <2>2. nd_wires[n][w] \in IntEntry
    BY <1>2, <2>1 DEF NetBooks, held, b
  <2>3. nd_wires[n][w].pip # NoPip => nd_wires[n][w].pip \in Pips
    BY <2>2 DEF IntEntry
  <2>4. \A r \in Resources : Cardinality(ValuesInUse(r)) = 0
    BY <1>9, FS_EmptySet
  <2>5. nd_wires[n][w].pip # NoPip /\ Resource[nd_wires[n][w].pip] # NoResource
           => Resource[nd_wires[n][w].pip] \in Resources
    BY <2>3, Router2Assumption
  <2> QED BY <1>4, <2>1, <2>4, <2>5
<1> QED BY <1>8, <1>10 DEF check_arc_routing

LEMMA BindServes ==
    ASSUME ConstantsStart, SinksEnd, Routing, Books', SinksServed, pc # "setup",
           NEW a \in arcs, a \notin routed, NEW path, NEW hops, ArcRouted(a, path, hops)
    PROVE  SinksServed'
<1> DEFINE n == ArcNet[a]
           root == PipSrc[path[Len(path)]]
<1>1. a \in Arcs /\ n \in Nets /\ ArcSink[a] \in Wires
  BY Router2Assumption DEF Routing, Binding, BindPlan
<1>2. Body(n, ArcSink[a])' = DOMAIN hops
  BY BindKeepsRoutes DEF Routing, Binding, BindPlan
<1>3. BindRoute(n, root, hops) /\ routed' = routed \cup {a} /\ arcs' = arcs
  BY DEF ArcRouted
<1>4. AtSource(n, root)
  BY DEF ArcRouted, AtSource, RouteRoot
<1> HIDE DEF n, root
<1> SUFFICES ASSUME NEW c \in arcs, nd_wires'[ArcNet[c]][ArcSink[c]] # Unbound,
                    ~AtSource(ArcNet[c], ArcSink[c])
             PROVE  SinkRouted(ArcNet[c], ArcSink[c])'
  BY <1>3 DEF SinksServed, AtSource, IsConst
<1>5. c \in Arcs /\ ArcNet[c] \in Nets /\ ArcSink[c] \in Wires
  BY Router2Assumption DEF Routing, Binding, BindPlan
<1>6. CASE nd_wires[ArcNet[c]][ArcSink[c]] # Unbound
  BY <1>3, <1>6 DEF SinksServed, SinkRouted
<1>7. CASE nd_wires[ArcNet[c]][ArcSink[c]] = Unbound
  <2>1. ArcNet[c] = n /\ ArcSink[c] \in DOMAIN hops
    <3>1. nd_wires \in [Nets -> [Wires -> IntEntry \cup {Unbound}]]
      BY DEF Routing, Books
    <3> QED BY <1>1, <1>3, <1>4, <1>5, <1>7, <3>1 DEF BindRoute
  <2>2. ArcSink[c] \in Body(ArcNet[c], ArcSink[a])'
    BY <1>2, <2>1 DEF n
  <2>3. ArcSink[c] = ArcSink[a]
    <3>1. nd_wires'[ArcNet[c]] \in NetBooks
      BY <1>5 DEF Books, NetBooks
    <3>2. ArcSink[c] \in BodyIn(nd_wires'[ArcNet[c]], ArcNet[c], ArcSink[a])
      BY <2>2, BodyOfBooks
    <3> QED BY <1>1, <1>5, <3>1, <3>2, SinkIsFirst
  <2> QED BY <1>3, <2>1, <2>3 DEF SinkRouted, n
<1> QED BY <1>6, <1>7

LEMMA UnbindServes ==
    ASSUME SinksEnd, Routing, Routing', SinksServed, pc # "setup", NEW a \in routed, UnbindsRoute(a)
    PROVE  SinksServed'
<1> DEFINE n == ArcNet[a]
           d == ArcSink[a]
           W == Body(n, d)
<1>1. a \in Arcs /\ n \in Nets /\ d \in Wires
  BY Router2Assumption DEF Routing, Binding, BindPlan, Routes
<1>2. UnbindRoute(n, W) /\ routed' = routed \ {a} /\ arcs' = arcs
  BY DEF UnbindsRoute
<1>3. nd_wires \in [Nets -> [Wires -> IntEntry \cup {Unbound}]]
  BY DEF Routing, Books
<1>4. \A w \in W : nd_wires[n][w] # Unbound
  BY DEF Routing, Routes, RoutesComplete, Complete, Ends
<1> HIDE DEF n, d, W
<1> SUFFICES ASSUME NEW c \in arcs, nd_wires'[ArcNet[c]][ArcSink[c]] # Unbound,
                    ~AtSource(ArcNet[c], ArcSink[c])
             PROVE  SinkRouted(ArcNet[c], ArcSink[c])'
  BY <1>2 DEF SinksServed, AtSource, IsConst
<1>5. c \in Arcs /\ ArcNet[c] \in Nets /\ ArcSink[c] \in Wires
  BY Router2Assumption DEF Routing, Binding, BindPlan
<1>6. nd_wires[ArcNet[c]][ArcSink[c]] # Unbound
  BY <1>1, <1>2, <1>3, <1>4, <1>5 DEF UnbindRoute
<1>7. PICK b \in routed : ArcNet[b] = ArcNet[c] /\ ArcSink[b] = ArcSink[c]
  BY <1>6 DEF SinksServed, SinkRouted
<1>8. CASE b # a
  BY <1>2, <1>7, <1>8 DEF SinkRouted
<1>9. CASE b = a
  <2>1. ArcNet[c] = n /\ ArcSink[c] = d
    BY <1>7, <1>9 DEF n, d
  <2>2. nd_wires'[n][d].count = Cardinality(Served(n, d)')
    BY <1>1, <2>1 DEF Routing, Routes, RoutesCounted, AtSource, IsConst
  <2>3. nd_wires[n][d].count = Cardinality(Served(n, d))
    BY <1>1, <1>6, <2>1 DEF Routing, Routes, RoutesCounted
  <2>4. SUFFICES Served(n, d) # {a}
    <3>1. a \in Served(n, d)
      <4>1. d \in TrailIn(nd_wires[n], n, d)
        BY <1>1, NetBooksOf, TrailIsClosed DEF Routing
      <4>2. d \in W
        BY <2>1, <4>1, BodyOfBooks DEF BodyIn, W
      <4> QED BY <4>2 DEF Served, n, d, W
    <3>2. PICK e \in Served(n, d) : e # a
      BY <2>4, <3>1
    <3>3. e \in routed /\ ArcNet[e] = n /\ d \in Body(n, ArcSink[e])
      BY <3>2 DEF Served
    <3>4. ArcSink[e] \in Wires /\ e \in Arcs
      BY <3>3, Router2Assumption DEF Routing, Binding, BindPlan, Routes
    <3>5. d = ArcSink[e]
      <4>1. nd_wires[n] \in NetBooks
        BY <1>1, NetBooksOf DEF Routing
      <4>2. d \in BodyIn(nd_wires[n], n, ArcSink[e])
        BY <3>3, BodyOfBooks
      <4> QED BY <1>5, <2>1, <3>4, <4>1, <4>2, SinkIsFirst
    <3> QED BY <1>2, <2>1, <3>2, <3>3, <3>5 DEF SinkRouted
  <2>5. SUFFICES ASSUME Served(n, d) = {a} PROVE FALSE
    OBVIOUS
  <2>6. nd_wires[n][d].count = 1
    BY <2>3, <2>5, FS_Singleton
  <2>7. d \in W
    BY <2>5 DEF Served, W, n, d
  <2>8. nd_wires'[n][d] = Unbound
    BY <1>1, <1>2, <1>3, <2>6, <2>7 DEF UnbindRoute
  <2> QED BY <2>1, <2>8
<1> QED BY <1>8, <1>9

LEMMA SetupFirst ==
    ASSUME [Next]_vars, pc = "setup" PROVE SetupWires \/ UNCHANGED vars
<1>1. CASE ReserveDone \/ DoRoute \/ UpdateCongestion \/ Returned
  BY <1>1 DEF ReserveDone, DoRoute, UpdateCongestion, Returned, vars
<1>2. CASE \E n \in Nets : ReserveWires(n)
  BY <1>2 DEF ReserveWires
<1>3. CASE RouteStep
  BY <1>3 DEF RouteStep, NextStage, TakeNet, KeepArc, RipupArc, RouteArc, SinkDone, RouteFails,
              NetDone, Active
<1>4. CASE BindStep
  BY <1>4 DEF BindStep, BindNet, UnbindOld, CheckArc, BindRoot, BindPip, NetBound, AllBound
<1> QED BY <1>1, <1>2, <1>3, <1>4 DEF Next

LEMMA StepServed ==
    ASSUME ConstantsStart, SinksEnd, Routing, Routing', SetupRooted, SinksServed, [Next]_vars
    PROVE  SetupRooted' /\ SinksServed'
<1>1. SetupRooted'
  <2>1. SetupWires \/ pc' # "setup" \/ (pc = "setup" /\ UNCHANGED bookVars)
    BY SetupEnds
  <2>2. SetupWires => pc' # "setup"
    BY DEF SetupWires
  <2>3. CASE pc = "setup" /\ UNCHANGED bookVars
    BY <2>3 DEF bookVars, SetupRooted, AtSource, IsConst
  <2> QED BY <2>1, <2>2, <2>3 DEF SetupRooted
<1>2. SinksServed'
  <2>1. CASE SetupWires
    BY <2>1, SetupServes
  <2>2. CASE ~SetupWires /\ pc = "setup"
    <3>1. UNCHANGED vars
      BY <2>2, SetupFirst
    <3> QED BY <2>2, <3>1 DEF vars, SinksServed
  <2>3. CASE pc # "setup" /\ ~SetupWires
    <3>1. CASE UNCHANGED bookVars /\ arcs' = arcs
      BY <2>3, <3>1 DEF bookVars, SinksServed, SinkRouted, AtSource, IsConst
    <3>2. CASE \E t \in Workers, a \in arcs : RouteArc(t, a) /\ a \notin routed /\ ~UNCHANGED bookVars
      <4>1. PICK t \in Workers, a \in arcs : RouteArc(t, a) /\ a \notin routed /\ ~UNCHANGED bookVars
        BY <3>2
      <4>2. a \in Arcs
        BY DEF Routing, Binding, BindPlan
      <4>3. PICK path, hops : ArcRouted(a, path, hops)
        BY <4>1, <4>2, RouteArcRoutes
      <4> QED BY <2>3, <4>1, <4>3, BindServes DEF Routing
    <3>3. CASE \E a \in routed : UnbindsRoute(a)
      BY <2>3, <3>3, UnbindServes
    <3> QED BY <2>3, <3>1, <3>2, <3>3, BookChanges DEF Routing
  <2> QED BY <2>1, <2>2, <2>3
<1> QED BY <1>1, <1>2

LEMMA InitBooksAre ==
    ASSUME Init
    PROVE  \A n \in Nets, w \in Wires :
              /\ nd_wires[n][w] # Unbound <=> wires[n][w] # Unbound
              /\ nd_wires[n][w] # Unbound => nd_wires[n][w].pip = wires[n][w].pip
<1> SUFFICES ASSUME NEW n \in Nets, NEW w \in Wires
             PROVE  /\ nd_wires[n][w] # Unbound <=> wires[n][w] # Unbound
                    /\ nd_wires[n][w] # Unbound => nd_wires[n][w].pip = wires[n][w].pip
  OBVIOUS
<1>1. nd_wires[n][w] = IF wires[n][w] = Unbound THEN Unbound
                       ELSE [pip |-> wires[n][w].pip, count |-> 0]
  BY DEF Init
<1>2. wires \in [Nets -> [Wires -> PipMap \cup {Unbound}]]
  BY InitBinding DEF Binding, ArchTypeOK
<1>3. wires[n][w] # Unbound => [pip |-> wires[n][w].pip, count |-> 0] \in IntEntry
  BY <1>2 DEF PipMap, IntEntry
<1> QED BY <1>1, <1>3, EntryIsBound

LEMMA InitServed ==
    ASSUME \A d \in Designs : WellRooted(d.routing), Init
    PROVE  SetupRooted /\ SinksServed /\ DrivesItsWire
<1>1. PICK d \in Designs : arcs = d.arcs /\ wires = d.routing
  BY DEF Init
<1>2. WellRooted(wires) /\ InitialRouting(wires) /\ pc = "setup"
      /\ \A n \in Nets, w \in Wires : wires[n][w] # Unbound => (wires[n][w].pip = NoPip => w = SourceWire[n])
  BY <1>1, Router2InitialRouting DEF Init
<1>3. \A n \in Nets, w \in Wires :
              /\ nd_wires[n][w] # Unbound <=> wires[n][w] # Unbound
              /\ nd_wires[n][w] # Unbound => nd_wires[n][w].pip = wires[n][w].pip
  BY InitBooksAre
<1>4. \A n \in Nets, w \in Wires : (nd_wires[n][w] # Unbound /\ nd_wires[n][w].pip # NoPip)
          => nd_wires[n][w].pip \in Pips /\ PipSrc[nd_wires[n][w].pip] \in Wires
  BY InitBooks, Router2Assumption DEF Books, IntEntry
<1>5. DrivesItsWire
  BY <1>2, <1>3 DEF DrivesItsWire, InitialRouting
<1>6. ASSUME NEW n \in Nets, NEW w \in Wires, nd_wires[n][w] # Unbound
      PROVE  /\ nd_wires[n][w].pip = NoPip <=> AtSource(n, w)
             /\ nd_wires[n][w].pip # NoPip => nd_wires[n][PipSrc[nd_wires[n][w].pip]] # Unbound
             /\ curr_cong[w] = 1
  <2>1. wires[n][w] # Unbound /\ nd_wires[n][w].pip = wires[n][w].pip
    BY <1>3, <1>6
  <2>2. IF wires[n][w].pip = NoPip THEN RouteRoot(n, w)
        ELSE ~AtSource(n, w) /\ wires[n][PipSrc[wires[n][w].pip]] # Unbound
    BY <1>2, <2>1 DEF WellRooted
  <2>3. RouteRoot(n, w) => AtSource(n, w)
    BY DEF RouteRoot, AtSource
  <2>4. wire_to_net[w] \in Nets
    BY <2>1 DEF Init, InitTables
  <2>5. curr_cong[w] = 1
    BY <2>4, RoutingAssumption DEF Init
  <2> QED BY <1>3, <1>4, <1>6, <2>1, <2>2, <2>3, <2>5
<1>7. ASSUME NEW n \in Nets, NEW W \in (SUBSET Wires) \ {{}}
      PROVE  \E w \in W : nd_wires[n][w] # Unbound =>
                 (nd_wires[n][w].pip = NoPip \/ PipSrc[nd_wires[n][w].pip] \notin W)
  <2>1. PICK w \in W : wires[n][w] # Unbound => (wires[n][w].pip = NoPip \/ PipSrc[wires[n][w].pip] \notin W)
    BY <1>2 DEF WellRooted
  <2> QED BY <1>3, <2>1
<1>8. \A r \in Resources, v \in Values : value_count[r][v] = 0
  BY DEF Init
<1> QED BY <1>2, <1>5, <1>6, <1>7, <1>8 DEF SetupRooted, SinksServed

\* All arcs of the net are routed.
NetServed(n) == \A a \in ArcsOf(n) : ArcServed(a)

\* The net in hand: what is left of its visit is routed, to be examined or to be
\* routed, unless the net is left for later.
JobCovered(j) ==
    j.net # NoNet =>
        /\ j.sinks # {} => j.exam = {}
        /\ \A d \in j.sinks : SinkRouted(j.net, d)
        /\ (Driven(j.net) /\ ~j.failures) =>
              \A a \in ArcsOf(j.net) :
                 ArcServed(a) \/ \E b \in j.exam \cup j.route : ArcSink[b] = ArcSink[a]

InHands(n) == n \in retry \/ \E t \in Workers : n \in Claims(t)

\* A net with a driver waits to be routed or is.
NetsCovered ==
    \A n \in Nets : Driven(n) =>
        /\ pc \in {"setup", "reserve"} => n \in route_queue
        /\ pc = "iterate" => n \in route_queue \/ NetServed(n)
        /\ pc = "route" => InHands(n) \/ NetServed(n)
        /\ pc \in {"congestion", "done"} => NetServed(n)
        /\ pc = "bind" => n \in failed_nets \/ NetServed(n)

JobsCovered == pc = "route" => \A t \in Workers : JobCovered(job[t])

\* What a worker does to its own net only.
Turn(t) ==
    /\ \A u \in Workers : u # t => job'[u] = job[u]
    /\ arcs' = arcs
    /\ \A b \in arcs : ArcNet[b] # job[t].net => (b \in routed' <=> b \in routed)
    /\ retry \subseteq retry'
    /\ \A n \in Claims(t) : n \in Claims(t)' \/ n \in retry' \/ ~Driven(n) \/ NetServed(n)'
    /\ JobCovered(job[t])'

LEMMA TurnKeeps ==
    ASSUME Routing, Routing', NetsCovered, JobsCovered, pc = "route", pc' = "route",
           NEW t \in Workers, Turn(t)
    PROVE  NetsCovered' /\ JobsCovered'
<1>1. \A u \in Workers : u # t => job'[u] = job[u]
  BY DEF Turn
<1>2. arcs' = arcs /\ \A b \in arcs : ArcNet[b] # job[t].net => (b \in routed' <=> b \in routed)
  BY DEF Turn
<1>3. routed \subseteq arcs /\ routed' \subseteq arcs
  BY <1>2 DEF Routing, Routes
<1>4. \A n, d : n # job[t].net => (SinkRouted(n, d)' <=> SinkRouted(n, d))
  BY <1>2, <1>3 DEF SinkRouted
<1>5. \A a : ArcNet[a] # job[t].net => (ArcServed(a)' <=> ArcServed(a))
  BY <1>4 DEF ArcServed
<1>6. \A n : ArcsOf(n)' = ArcsOf(n) /\ \A a \in ArcsOf(n) : ArcNet[a] = n
  BY <1>2 DEF ArcsOf
<1>7. \A n : n # job[t].net => (NetServed(n)' <=> NetServed(n))
  BY <1>5, <1>6 DEF NetServed
<1>8. ASSUME NEW u \in Workers PROVE JobCovered(job[u])'
  <2>1. CASE u = t
    BY <2>1 DEF Turn
  <2>2. CASE u # t
    <3>1. job'[u] = job[u] /\ JobCovered(job[u])
      BY <1>1, <2>2 DEF JobsCovered
    <3>2. job[u].net # NoNet => job[u].net # job[t].net
      <4>1. Claims(t) \cap Claims(u) = {}
        BY <2>2 DEF Routing, Jobs, JobsApart
      <4> QED BY <4>1 DEF Claims
    <3>3. CASE job[u].net = NoNet
      BY <3>1, <3>3 DEF JobCovered
    <3>4. CASE job[u].net # NoNet
      BY <1>4, <1>5, <1>6, <3>1, <3>2, <3>4 DEF JobCovered
    <3> QED BY <3>3, <3>4
  <2> QED BY <2>1, <2>2
<1>9. ASSUME NEW n \in Nets, Driven(n) PROVE InHands(n)' \/ NetServed(n)'
  <2>1. InHands(n) \/ NetServed(n)
    BY <1>9 DEF NetsCovered
  <2>2. CASE n \in retry
    BY <2>2 DEF Turn, InHands
  <2>3. CASE n \in Claims(t)
    BY <1>9, <2>3 DEF Turn, InHands
  <2>4. CASE \E u \in Workers : u # t /\ n \in Claims(u)
    <3>1. PICK u \in Workers : u # t /\ n \in Claims(u)
      BY <2>4
    <3>2. Claims(u)' = Claims(u)
      BY <1>1, <3>1 DEF Claims
    <3> QED BY <3>1, <3>2 DEF InHands
  <2>5. CASE NetServed(n) /\ n \notin Claims(t)
    <3>1. n # job[t].net
      BY <2>5, RoutingAssumption DEF Claims
    <3> QED BY <1>7, <2>5, <3>1
  <2> QED BY <2>1, <2>2, <2>3, <2>4, <2>5 DEF InHands
<1> QED BY <1>8, <1>9 DEF NetsCovered, JobsCovered, Driven

LEMMA TakeTurn ==
    ASSUME Routing, NEW t \in Workers, NEW n \in Nets, TakeNet(t, n) PROVE Turn(t)
<1> DEFINE new == [Idle EXCEPT !.todo = job[t].todo \ {n}, !.net = n,
                            !.exam = IF Driven(n) THEN ArcsOf(n) ELSE {}]
<1>1. /\ n \in job[t].todo /\ job[t].net = NoNet
      /\ job' = [job EXCEPT ![t] = new]
      /\ UNCHANGED <<arcs, routed, retry>>
  BY DEF TakeNet, bookVars
<1>2. /\ new.todo = job[t].todo \ {n} /\ new.net = n
      /\ new.exam = (IF Driven(n) THEN ArcsOf(n) ELSE {}) /\ new.sinks = {}
  BY DEF Idle
<1> HIDE DEF new
<1>3. job'[t] = new /\ \A u \in Workers : u # t => job'[u] = job[u]
  BY <1>1 DEF Routing, Jobs, JobTypes
<1>4. \A m \in Claims(t) : m \in Claims(t)'
  BY <1>1, <1>2, <1>3, RoutingAssumption DEF Claims
<1>5. ArcsOf(n)' = ArcsOf(n)
  BY <1>1 DEF ArcsOf
<1>6. JobCovered(job[t])'
  BY <1>2, <1>3, <1>5 DEF JobCovered, Driven
<1> QED BY <1>1, <1>3, <1>4, <1>6 DEF Turn

LEMMA KeepTurn ==
    ASSUME ConstantsStart, Routing, SinksServed, NEW t \in Workers, JobCovered(job[t]),
           NEW a \in Arcs, KeepArc(t, a)
    PROVE  Turn(t)
<1> DEFINE new == [job[t] EXCEPT !.exam = job[t].exam \ {a}]
<1>1. /\ pc = "route" /\ a \in job[t].exam /\ check_arc_routing(a)
      /\ job' = [job EXCEPT ![t].exam = @ \ {a}]
      /\ UNCHANGED <<arcs, routed, retry>>
  BY DEF KeepArc, Active, bookVars
<1>2. job[t] \in Job
  BY DEF Routing, Jobs, JobTypes
<1>3. job'[t] = new /\ \A u \in Workers : u # t => job'[u] = job[u]
  BY <1>1, <1>2 DEF Routing, Jobs, JobTypes
<1>4. /\ new.todo = job[t].todo /\ new.net = job[t].net /\ new.exam = job[t].exam \ {a}
      /\ new.route = job[t].route /\ new.sinks = job[t].sinks /\ new.failures = job[t].failures
  BY <1>2 DEF Job
<1> HIDE DEF new
<1>5. Claims(t)' = Claims(t)
  BY <1>3, <1>4 DEF Claims
<1>6. a \in arcs /\ ArcNet[a] = job[t].net
  BY <1>1 DEF Routing, Jobs, ArcsInHand
<1>7. ArcServed(a)
  BY <1>1, <1>6, KeptIsServed
<1>8. ASSUME NEW c \in ArcsOf(job[t].net), ArcSink[c] = ArcSink[a] PROVE ArcServed(c)
  BY <1>6, <1>7, <1>8 DEF ArcServed, ArcsOf
<1>9. JobCovered(job[t])'
  <2>1. ArcsOf(job[t].net)' = ArcsOf(job[t].net) /\ (\A c : ArcServed(c)' <=> ArcServed(c))
        /\ \A n, d : SinkRouted(n, d)' <=> SinkRouted(n, d)
    BY <1>1, <1>3, <1>4 DEF ArcsOf, ArcServed, SinkRouted
  <2>2. ASSUME Driven(job[t].net), ~job[t].failures, job[t].net # NoNet, NEW c \in ArcsOf(job[t].net)
        PROVE  ArcServed(c) \/ \E b \in new.exam \cup new.route : ArcSink[b] = ArcSink[c]
    BY <1>4, <1>8, <2>2 DEF JobCovered
  <2> QED BY <1>1, <1>3, <1>4, <2>1, <2>2 DEF JobCovered, Driven
<1> QED BY <1>1, <1>3, <1>5, <1>9 DEF Turn

LEMMA RipupTurn ==
    ASSUME Routing, NEW t \in Workers, JobCovered(job[t]),
           NEW a \in Arcs, RipupArc(t, a)
    PROVE  Turn(t)
<1> DEFINE new == [job[t] EXCEPT !.exam = job[t].exam \ {a}, !.route = job[t].route \cup {a}]
<1>1. /\ pc = "route" /\ a \in job[t].exam
      /\ job' = [job EXCEPT ![t].exam = @ \ {a}, ![t].route = @ \cup {a}]
      /\ UNCHANGED <<arcs, retry>>
      /\ ripup_arc(a)
  BY DEF RipupArc, Active, RipupThrows, Routing, Routes, RoutesComplete
<1>2. job[t] \in Job
  BY DEF Routing, Jobs, JobTypes
<1>3. job'[t] = new /\ \A u \in Workers : u # t => job'[u] = job[u]
  BY <1>1, <1>2 DEF Routing, Jobs, JobTypes, Job
<1>4. /\ new.todo = job[t].todo /\ new.net = job[t].net /\ new.exam = job[t].exam \ {a}
      /\ new.route = job[t].route \cup {a} /\ new.sinks = job[t].sinks
      /\ new.failures = job[t].failures
  BY <1>2 DEF Job
<1> HIDE DEF new
<1>5. Claims(t)' = Claims(t)
  BY <1>3, <1>4 DEF Claims
<1>6. a \in arcs /\ ArcNet[a] = job[t].net
  BY <1>1 DEF Routing, Jobs, ArcsInHand
<1>7. routed' = routed \ {a}
  BY <1>1 DEF ripup_arc, bookVars
<1>8. JobCovered(job[t])'
  <2>1. ArcsOf(job[t].net)' = ArcsOf(job[t].net)
    BY <1>1, <1>3, <1>4 DEF ArcsOf
  <2>2. job[t].net # NoNet => job[t].sinks = {}
    BY <1>1 DEF JobCovered
  <2>3. ASSUME Driven(job[t].net), ~job[t].failures, job[t].net # NoNet, NEW c \in ArcsOf(job[t].net)
        PROVE  ArcServed(c)' \/ \E b \in new.exam \cup new.route : ArcSink[b] = ArcSink[c]
    <3>1. ArcServed(c) \/ \E b \in job[t].exam \cup job[t].route : ArcSink[b] = ArcSink[c]
      BY <2>3 DEF JobCovered
    <3>2. CASE ArcServed(c)
      BY <1>4, <1>7, <3>2 DEF ArcServed, SinkRouted
    <3> QED BY <1>4, <3>1, <3>2
  <2> QED BY <1>3, <1>4, <2>1, <2>2, <2>3 DEF JobCovered, Driven
<1> QED BY <1>1, <1>3, <1>5, <1>6, <1>7, <1>8 DEF Turn

LEMMA RouteTurn ==
    ASSUME Routing, NEW t \in Workers, JobCovered(job[t]), pc' = "route",
           NEW a \in Arcs, RouteArc(t, a)
    PROVE  Turn(t)
<1> DEFINE R == job[t].route \ {a}
           S == job[t].sinks \cup {ArcSink[a]}
           new == [job[t] EXCEPT !.route = R, !.sinks = S]
<1>1. /\ a \in job[t].route /\ job[t].exam = {}
      /\ job' = [job EXCEPT ![t].route = @ \ {a}, ![t].sinks = @ \cup {ArcSink[a]}]
      /\ UNCHANGED <<arcs, retry>>
      /\ routed' = routed \cup {a}
  BY DEF RouteArc, Active
<1>2. job[t] \in Job
  BY DEF Routing, Jobs, JobTypes
<1>3. job'[t] = new /\ \A u \in Workers : u # t => job'[u] = job[u]
  <2>1. job' = [job EXCEPT ![t].route = R, ![t].sinks = S]
    BY <1>1, <1>2 DEF Routing, Jobs, JobTypes, Job
  <2> HIDE DEF R, S
  <2> QED BY <1>2, <2>1 DEF Routing, Jobs, JobTypes, Job
<1>4. /\ new.todo = job[t].todo /\ new.net = job[t].net /\ new.exam = job[t].exam
      /\ new.route = job[t].route \ {a} /\ new.sinks = job[t].sinks \cup {ArcSink[a]}
      /\ new.failures = job[t].failures
  BY <1>2 DEF Job
<1> HIDE DEF new
<1>5. Claims(t)' = Claims(t)
  BY <1>3, <1>4 DEF Claims
<1>6. a \in arcs /\ ArcNet[a] = job[t].net
  BY <1>1 DEF Routing, Jobs, ArcsInHand
<1>7. JobCovered(job[t])'
  <2>1. ArcsOf(job[t].net)' = ArcsOf(job[t].net)
    BY <1>1, <1>3, <1>4 DEF ArcsOf
  <2>2. /\ \A n, d : SinkRouted(n, d) => SinkRouted(n, d)'
        /\ SinkRouted(ArcNet[a], ArcSink[a])'
    BY <1>1 DEF SinkRouted
  <2>3. \A c : ArcServed(c) => ArcServed(c)'
    BY <2>2 DEF ArcServed
  <2>4. ASSUME Driven(job[t].net), ~job[t].failures, job[t].net # NoNet, NEW c \in ArcsOf(job[t].net)
        PROVE  ArcServed(c)' \/ \E b \in new.exam \cup new.route : ArcSink[b] = ArcSink[c]
    <3>1. ArcServed(c) \/ \E b \in job[t].exam \cup job[t].route : ArcSink[b] = ArcSink[c]
      BY <2>4 DEF JobCovered
    <3>2. ArcSink[c] = ArcSink[a] => ArcServed(c)'
      <4>1. ArcNet[c] = job[t].net
        BY <2>4 DEF ArcsOf
      <4> QED BY <1>6, <2>2, <4>1 DEF ArcServed
    <3> QED BY <1>4, <2>3, <3>1, <3>2
  <2>5. job[t].net # NoNet =>
           \A d \in new.sinks : \E b \in routed' : ArcNet[b] = new.net /\ ArcSink[b] = d
    BY <1>1, <1>4, <1>6 DEF JobCovered, SinkRouted
  <2>6. job'[t].net # NoNet => /\ job'[t].sinks # {} => job'[t].exam = {}
                               /\ \A d \in job'[t].sinks : SinkRouted(job[t].net, d)'
    BY <1>1, <1>3, <1>4, <2>5 DEF SinkRouted
  <2>7. (job'[t].net # NoNet /\ Driven(job'[t].net) /\ ~job'[t].failures) =>
           \A c \in ArcsOf(job[t].net)' :
              ArcServed(c)' \/ \E b \in job'[t].exam \cup job'[t].route : ArcSink[b] = ArcSink[c]
    BY <1>3, <1>4, <2>1, <2>4 DEF Driven
  <2> QED BY <2>6, <2>7 DEF JobCovered, Driven
<1> QED BY <1>1, <1>3, <1>5, <1>6, <1>7 DEF Turn

LEMMA SkipTurn ==
    ASSUME Routing, NEW t \in Workers, JobCovered(job[t]), pc' = "route",
           NEW a \in Arcs, SinkDone(t, a) \/ RouteFails(t, a)
    PROVE  Turn(t)
<1>0. job[t] \in Job
  BY DEF Routing, Jobs, JobTypes
<1>1. /\ a \in job[t].route /\ job[t].exam = {}
      /\ UNCHANGED <<arcs, retry, routed>>
      /\ \/ job' = [job EXCEPT ![t].route = @ \ {a}] /\ ArcSink[a] \in job[t].sinks
         \/ job' = [job EXCEPT ![t].route = @ \ {a}, ![t].failures = TRUE]
  BY DEF SinkDone, RouteFails, bookVars
<1>2. PICK f \in BOOLEAN :
         /\ job' = [job EXCEPT ![t] = [job[t] EXCEPT !.route = job[t].route \ {a}, !.failures = f]]
         /\ ~f => ArcSink[a] \in job[t].sinks /\ ~job[t].failures
  <2>1. job[t].failures \in BOOLEAN
    BY <1>0 DEF Job
  <2>2. CASE job' = [job EXCEPT ![t].route = @ \ {a}] /\ ArcSink[a] \in job[t].sinks
    <3>1. job' = [job EXCEPT ![t] = [job[t] EXCEPT !.route = job[t].route \ {a},
                                                  !.failures = job[t].failures]]
      BY <1>0, <2>2 DEF Routing, Jobs, JobTypes, Job
    <3> QED BY <2>1, <2>2, <3>1
  <2>3. CASE job' = [job EXCEPT ![t].route = @ \ {a}, ![t].failures = TRUE]
    <3>1. job' = [job EXCEPT ![t] = [job[t] EXCEPT !.route = job[t].route \ {a}, !.failures = TRUE]]
      BY <1>0, <2>3 DEF Routing, Jobs, JobTypes, Job
    <3> QED BY <3>1
  <2> QED BY <1>1, <2>2, <2>3
<1> DEFINE new == [job[t] EXCEPT !.route = job[t].route \ {a}, !.failures = f]
<1>3. job'[t] = new /\ \A u \in Workers : u # t => job'[u] = job[u]
  BY <1>2 DEF Routing, Jobs, JobTypes
<1>4. /\ new.todo = job[t].todo /\ new.net = job[t].net /\ new.exam = job[t].exam
      /\ new.route = job[t].route \ {a} /\ new.sinks = job[t].sinks
      /\ new.failures = f
  BY <1>0 DEF Job
<1> HIDE DEF new
<1>5. Claims(t)' = Claims(t)
  BY <1>3, <1>4 DEF Claims
<1>6. a \in arcs /\ ArcNet[a] = job[t].net
  BY <1>1 DEF Routing, Jobs, ArcsInHand
<1>7. JobCovered(job[t])'
  <2>1. ArcsOf(job[t].net)' = ArcsOf(job[t].net) /\ (\A c : ArcServed(c)' <=> ArcServed(c))
        /\ \A n, d : SinkRouted(n, d)' <=> SinkRouted(n, d)
    BY <1>1, <1>3, <1>4 DEF ArcsOf, ArcServed, SinkRouted
  <2>2. ASSUME Driven(job[t].net), ~f, job[t].net # NoNet, NEW c \in ArcsOf(job[t].net)
        PROVE  ArcServed(c) \/ \E b \in new.exam \cup new.route : ArcSink[b] = ArcSink[c]
    <3>1. ArcServed(c) \/ \E b \in job[t].exam \cup job[t].route : ArcSink[b] = ArcSink[c]
      BY <1>2, <2>2 DEF JobCovered
    <3>2. ArcSink[c] = ArcSink[a] => ArcServed(c)
      <4>1. ArcNet[c] = job[t].net
        BY <2>2 DEF ArcsOf
      <4>2. ArcSink[a] \in job[t].sinks
        BY <1>2, <2>2
      <4> QED BY <2>2, <4>1, <4>2 DEF ArcServed, JobCovered
    <3> QED BY <1>4, <3>1, <3>2
  <2> QED BY <1>1, <1>3, <1>4, <2>1, <2>2 DEF JobCovered, Driven
<1> QED BY <1>1, <1>3, <1>5, <1>7 DEF Turn

LEMMA DoneTurn ==
    ASSUME Routing, NEW t \in Workers, JobCovered(job[t]), NetDone(t) PROVE Turn(t)
<1>1. /\ job[t].net # NoNet /\ job[t].exam = {} /\ job[t].route = {}
      /\ job' = [job EXCEPT ![t] = [Idle EXCEPT !.todo = job[t].todo]]
      /\ retry' = IF job[t].failures THEN retry \cup {job[t].net} ELSE retry
      /\ UNCHANGED <<arcs, routed>>
  BY DEF NetDone, bookVars
<1>2. \A u \in Workers : u # t => job'[u] = job[u]
  BY <1>1 DEF Routing, Jobs, JobTypes
<1>3. job'[t].todo = job[t].todo /\ job'[t].net = NoNet
  BY <1>1 DEF Idle, Routing, Jobs, JobTypes
<1>4. ~job[t].failures /\ Driven(job[t].net) => NetServed(job[t].net)
  BY <1>1 DEF JobCovered, NetServed
<1>5. \A n : NetServed(n)' <=> NetServed(n)
  BY <1>1 DEF NetServed, ArcsOf, ArcServed, SinkRouted
<1>6. JobCovered(job[t])'
  BY <1>3 DEF JobCovered
<1>7. \A n \in Claims(t) : n \in Claims(t)' \/ n \in retry' \/ ~Driven(n) \/ NetServed(n)'
  BY <1>1, <1>3, <1>4, <1>5 DEF Claims
<1> QED BY <1>1, <1>2, <1>6, <1>7 DEF Turn

\* Whether a net is routed is a matter of the arcs that are.
LEMMA ServedSame ==
    ASSUME UNCHANGED <<arcs, routed>> PROVE \A n : NetServed(n)' <=> NetServed(n)
BY DEF NetServed, ArcsOf, ArcServed, SinkRouted

LEMMA RoutingCovers ==
    ASSUME ConstantsStart, Routing, Routing', SinksServed, NetsCovered, JobsCovered, RouteStep
    PROVE  NetsCovered' /\ JobsCovered'
<1>1. pc = "route" /\ pc' \in {"route", "congestion", "failed", "crashed"}
  <2>1. CASE NextStage
    BY <2>1 DEF NextStage
  <2>2. CASE \E t \in Workers, n \in Nets : TakeNet(t, n)
    BY <2>2 DEF TakeNet, Active
  <2>3. CASE \E t \in Workers, a \in Arcs : KeepArc(t, a) \/ SinkDone(t, a)
    BY <2>3 DEF KeepArc, SinkDone, Active
  <2>4. CASE \E t \in Workers, a \in Arcs : RipupArc(t, a) \/ RouteFails(t, a)
    BY <2>4 DEF RipupArc, RouteFails, Active
  <2>5. CASE \E t \in Workers, a \in Arcs : RouteArc(t, a)
    <3>1. PICK t \in Workers, a \in Arcs : RouteArc(t, a)
      BY <2>5
    <3>2. pc = "route" /\ (pc' = "crashed" \/ pc' = pc)
      BY <3>1 DEF RouteArc, Active
    <3> QED BY <3>2
  <2>6. CASE \E t \in Workers : NetDone(t)
    BY <2>6 DEF NetDone, Active
  <2> QED BY <2>1, <2>2, <2>3, <2>4, <2>5, <2>6 DEF RouteStep
<1>2. CASE pc' \in {"failed", "crashed"}
  BY <1>2 DEF NetsCovered, JobsCovered
<1>3. CASE NextStage
  <2>0. /\ Finished(stage) /\ UNCHANGED <<arcs, routed>>
        /\ \/ stage < 3 /\ UNCHANGED <<pc, job, retry>>
           \/ /\ ~(stage < 3) /\ retry' = {} /\ job' = [job EXCEPT ![Alone].todo = retry]
              /\ pc' = IF retry = {} THEN "congestion" ELSE "route"
    BY <1>3 DEF NextStage, bookVars
  <2>1. CASE stage < 3
    <3>1. \A n : InHands(n)' <=> InHands(n)
      BY <2>0, <2>1 DEF InHands, Claims
    <3>2. \A n : NetServed(n)' <=> NetServed(n)
      BY <2>0, ServedSame
    <3>3. NetsCovered'
      BY <1>1, <2>0, <2>1, <3>1, <3>2 DEF NetsCovered, Driven
    <3>4. \A j : JobCovered(j)' <=> JobCovered(j)
      BY <2>0 DEF JobCovered, ArcsOf, ArcServed, SinkRouted
    <3> QED BY <1>1, <2>0, <2>1, <3>3, <3>4 DEF JobsCovered, JobCovered, ArcsOf, ArcServed, SinkRouted
  <2>2. CASE ~(stage < 3)
    <3>1. stage = 3 /\ Alone \in Workers
      BY <2>2 DEF Routing, Jobs, JobTypes, Workers, Alone
    <3>2. \A t \in Workers : Claims(t) = {} /\ job[t].net = NoNet
      BY <2>0, <3>1, RoutingAssumption
         DEF Routing, Jobs, JobsApart, JobTypes, Job, Finished, Claims, StageOf, Workers, Alone
    <3>3. /\ \A t \in Workers : job'[t].net = NoNet
          /\ job'[Alone].todo = retry
      BY <2>0, <2>2, <3>1, <3>2 DEF Routing, Jobs, JobTypes, Job
    <3>4. JobsCovered'
      BY <3>3 DEF JobsCovered, JobCovered
    <3>5. \A n \in retry : InHands(n)'
      BY <3>1, <3>3 DEF InHands, Claims
    <3>6. \A n : NetServed(n)' <=> NetServed(n)
      BY <2>0, ServedSame
    <3>7. \A n \in Nets : Driven(n) => n \in retry \/ NetServed(n)
      BY <1>1, <3>2 DEF NetsCovered, InHands
    <3> QED BY <1>1, <2>0, <2>2, <3>4, <3>5, <3>6, <3>7 DEF NetsCovered, Driven
  <2> QED BY <2>1, <2>2
<1>4. CASE ~NextStage /\ pc' = "route"
  <2>1. \A t \in Workers : JobCovered(job[t])
    BY <1>1 DEF JobsCovered
  <2>2. \E t \in Workers : Turn(t)
    <3>1. CASE \E t \in Workers, n \in Nets : TakeNet(t, n)
      BY <3>1, TakeTurn
    <3>2. CASE \E t \in Workers, a \in Arcs : KeepArc(t, a)
      BY <2>1, <3>2, KeepTurn
    <3>3. CASE \E t \in Workers, a \in Arcs : RipupArc(t, a)
      BY <2>1, <3>3, RipupTurn
    <3>4. CASE \E t \in Workers, a \in Arcs : RouteArc(t, a)
      BY <1>4, <2>1, <3>4, RouteTurn
    <3>5. CASE \E t \in Workers, a \in Arcs : SinkDone(t, a) \/ RouteFails(t, a)
      BY <1>4, <2>1, <3>5, SkipTurn
    <3>6. CASE \E t \in Workers : NetDone(t)
      BY <2>1, <3>6, DoneTurn
    <3> QED BY <1>4, <3>1, <3>2, <3>3, <3>4, <3>5, <3>6 DEF RouteStep
  <2> QED BY <1>1, <1>4, <2>2, TurnKeeps
<1>5. CASE ~NextStage /\ pc' = "congestion"
  <2>1. ~NextStage => pc' # "congestion"
    <3>1. CASE \E t \in Workers, n \in Nets : TakeNet(t, n)
      BY <1>1, <3>1 DEF TakeNet
    <3>2. CASE \E t \in Workers, a \in Arcs : KeepArc(t, a) \/ SinkDone(t, a)
      BY <1>1, <3>2 DEF KeepArc, SinkDone
    <3>3. CASE \E t \in Workers, a \in Arcs : RipupArc(t, a) \/ RouteFails(t, a)
      BY <1>1, <3>3 DEF RipupArc, RouteFails
    <3>4. CASE \E t \in Workers, a \in Arcs : RouteArc(t, a)
      <4>1. PICK t \in Workers, a \in Arcs : RouteArc(t, a)
        BY <3>4
      <4>2. pc' = "crashed" \/ pc' = pc
        BY <4>1 DEF RouteArc
      <4> QED BY <1>1, <4>2
    <3>5. CASE \E t \in Workers : NetDone(t)
      BY <1>1, <3>5 DEF NetDone
    <3> QED BY <3>1, <3>2, <3>3, <3>4, <3>5 DEF RouteStep
  <2> QED BY <1>5, <2>1
<1> QED BY <1>1, <1>2, <1>3, <1>4, <1>5

LEMMA BindingCovers ==
    ASSUME Routing, NetsCovered, BindStep
    PROVE  NetsCovered' /\ JobsCovered'
<1>1. CASE UNCHANGED <<arcs, routed, failed_nets>> /\ pc = "bind" /\ pc' \in {"bind", "crashed"}
  BY <1>1, ServedSame DEF NetsCovered, JobsCovered, Driven
<1>2. CASE \E a \in Arcs : CheckArc(a)
  <2>1. PICK a \in Arcs : CheckArc(a)
    BY <1>2
  <2>2. /\ pc = "bind" /\ pc' \in {"bind", "crashed"} /\ arcs' = arcs
        /\ \/ UNCHANGED <<routed, failed_nets>>
           \/ a \in routed /\ routed' = routed \ {a} /\ failed_nets' = failed_nets \cup {net}
        /\ ArcNet[a] = net
    BY <2>1 DEF CheckArc, ripup_arc, bookVars, Routing, Binding, BindPlan
  <2>3. CASE UNCHANGED <<routed, failed_nets>>
    BY <1>1, <2>2, <2>3
  <2>4. CASE routed' = routed \ {a} /\ failed_nets' = failed_nets \cup {net}
    <3>1. \A n : n # net => (NetServed(n)' <=> NetServed(n))
      BY <2>2, <2>4 DEF NetServed, ArcsOf, ArcServed, SinkRouted
    <3> QED BY <2>2, <2>4, <3>1 DEF NetsCovered, JobsCovered, Driven
  <2> QED BY <2>2, <2>3, <2>4
<1>3. CASE AllBound
  <2>1. /\ UNCHANGED <<arcs, routed>> /\ pc = "bind" /\ route_queue' = failed_nets
        /\ pc' = IF failed_nets = {} THEN "done" ELSE "iterate"
    BY <1>3 DEF AllBound, bookVars
  <2> QED BY <2>1, ServedSame DEF NetsCovered, JobsCovered, Driven
<1>4. CASE (\E n \in Nets : BindNet(n)) \/ (\E w \in Wires : UnbindOld(w)) \/ NetBound
  BY <1>1, <1>4 DEF BindNet, UnbindOld, NetBound, bookVars, queueVars
<1>5. CASE BindRoot
  BY <1>1, <1>5 DEF BindRoot, bookVars, queueVars
<1>6. CASE \E p \in Pips : BindPip(p)
  BY <1>1, <1>6 DEF BindPip, bookVars, queueVars
<1> QED BY <1>2, <1>3, <1>4, <1>5, <1>6 DEF BindStep

LEMMA StepCovered ==
    ASSUME ConstantsStart, Routing, Routing', SinksServed, NetsCovered, JobsCovered, [Next]_vars
    PROVE  NetsCovered' /\ JobsCovered'
<1>1. CASE UNCHANGED vars
  <2>1. UNCHANGED <<pc, arcs, routed, job, retry, route_queue, failed_nets>>
    BY <1>1 DEF vars, bookVars, queueVars, jobVars
  <2>2. \A t : JobCovered(job[t])' <=> JobCovered(job[t])
    BY <2>1 DEF JobCovered, ArcsOf, ArcServed, SinkRouted, Driven
  <2>3. \A n : InHands(n)' <=> InHands(n)
    BY <2>1 DEF InHands, Claims
  <2> QED BY <2>1, <2>2, <2>3, ServedSame DEF NetsCovered, JobsCovered, Driven
<1>2. CASE SetupWires \/ (\E n \in Nets : ReserveWires(n)) \/ ReserveDone
  <2>1. /\ route_queue' = route_queue /\ pc \in {"setup", "reserve"}
        /\ pc' \in {"reserve", "iterate", "failed", "crashed"}
    BY <1>2 DEF SetupWires, ReserveWires, ReserveDone, queueVars
  <2> QED BY <2>1 DEF NetsCovered, JobsCovered, Driven
<1>3. CASE DoRoute
  <2> DEFINE share(t) == IF Threaded THEN {n \in route_queue : Bin(n) = t}
                         ELSE IF t = Alone THEN route_queue ELSE {}
  <2>0. /\ job' = [t \in Workers |-> [Idle EXCEPT !.todo = share(t)]]
        /\ pc = "iterate" /\ pc' = "route" /\ UNCHANGED <<retry, arcs, routed>>
    BY <1>3 DEF DoRoute, bookVars
  <2>1. \A t \in Workers : job'[t].net = NoNet /\ job'[t].todo = share(t)
    BY <2>0 DEF Idle
  <2>2. JobsCovered'
    BY <2>1 DEF JobsCovered, JobCovered
  <2>3. \A n \in route_queue : \E t \in Workers : n \in share(t)
    <3>1. \A n : Bin(n) \in Workers
      BY DEF Bin, Workers, Alone
    <3> QED BY <3>1 DEF Workers, Alone
  <2>4. \A n \in route_queue : InHands(n)'
    <3> HIDE DEF share
    <3> QED BY <2>1, <2>3 DEF InHands, Claims
  <2> QED BY <2>0, <2>2, <2>4, ServedSame DEF NetsCovered, Driven
<1>4. CASE RouteStep
  BY <1>4, RoutingCovers
<1>5. CASE UpdateCongestion
  <2>1. /\ pc = "congestion" /\ pc' \in {"crashed", "bind", "iterate"} /\ UNCHANGED <<arcs, routed>>
    BY <1>5 DEF UpdateCongestion, bookVars
  <2> QED BY <2>1, ServedSame DEF NetsCovered, JobsCovered, Driven
<1>6. CASE BindStep
  BY <1>6, BindingCovers
<1>7. CASE Returned
  BY <1>1, <1>7 DEF Returned
<1> QED BY <1>1, <1>2, <1>3, <1>4, <1>5, <1>6, <1>7 DEF Next

LEMMA InitCovered == Init => NetsCovered /\ JobsCovered
BY DEF Init, NetsCovered, JobsCovered

-----------------------------------------------------------------------------
(* A round of binding. *)

\* Bound too strongly for the router to release it.
Strong(n, w) == wires[n][w] # Unbound /\ wires[n][w].strength > STRENGTH_STRONG

\* Bound wires start where the net may start, and the strong ones lead back there.
HeldRooted ==
    \A n \in Nets :
        /\ \A w \in Wires : wires[n][w] # Unbound =>
              IF wires[n][w].pip = NoPip THEN RouteRoot(n, w)
              ELSE /\ ~AtSource(n, w)
                   /\ Strong(n, w) => Strong(n, PipSrc[wires[n][w].pip])
        /\ \A W \in (SUBSET Wires) \ {{}} :
              \E w \in W : Strong(n, w) =>
                              (wires[n][w].pip = NoPip \/ PipSrc[wires[n][w].pip] \notin W)

\* No other net has a wire where a net may start, or will.
StartsFree ==
    \A a \in arcs, w \in Wires :
        AtSource(ArcNet[a], w) =>
            /\ \A m \in Nets \ {ArcNet[a]} : wires[m][w] = Unbound /\ nd_wires[m][w] = Unbound
            /\ \A b \in arcs : ArcNet[b] # ArcNet[a] =>
                  /\ ~AtSource(ArcNet[b], w) /\ w # ArcSink[b]
                  /\ \A path \in Ways(b) : \A i \in 1..Len(path) : w # PipSrc[path[i]]

\* Arc a has been looked at in this round of binding.
Checked(a) == ArcNet[a] \notin nets_left /\ a \notin arcs_left

\* The route of an arc is bound, up to what is about to be.
RouteBound(a) ==
    LET n == ArcNet[a] IN
    /\ \A w \in Body(n, ArcSink[a]) :
          \/ wires[n][w] # Unbound /\ wires[n][w].pip = nd_wires[n][w].pip
          \/ n = net /\ nd_wires[n][w].pip \in to_bind.pips
    /\ \E root \in Trail(n, ArcSink[a]) :
          AtSource(n, root) /\ (wires[n][root] # Unbound \/ (n = net /\ to_bind.root = root))

ArcBound(a) ==
    IF a \in routed THEN RouteBound(a)
    ELSE ArcSink[a] = SourceWire[ArcNet[a]] =>
            wires[ArcNet[a]][ArcSink[a]] # Unbound \/ (ArcNet[a] = net /\ to_bind.root = ArcSink[a])

\* An arc of the net asks for the wire.
Meant(n, w) ==
    \E a \in arcs :
        /\ ArcNet[a] = n /\ Checked(a)
        /\ \/ a \in routed /\ w \in Trail(n, ArcSink[a])
           \/ w = ArcSink[a] /\ w = SourceWire[n]

PlanMeant ==
    /\ net # NoNet => net \notin nets_left
    /\ arcs_left \subseteq ArcsOf(net)
    /\ to_unbind # {} => arcs_left = ArcsOf(net)
    /\ to_bind.root # NoWire => AtSource(net, to_bind.root) /\ Meant(net, to_bind.root)
    /\ \A p \in to_bind.pips :
          /\ p \in Pips
          /\ \E a \in routed : /\ ArcNet[a] = net /\ Checked(a)
                               /\ PipDst[p] \in Body(net, ArcSink[a])
                               /\ nd_wires[net][PipDst[p]].pip = p

HeldMeant ==
    \A n \in Nets \ nets_left, w \in Wires :
        wires[n][w] # Unbound => \/ Strong(n, w)
                                 \/ n = net /\ w \in to_unbind
                                 \/ Meant(n, w)

\* The nets already seen to in a round of binding have their routes bound, and
\* nothing else but what is bound strongly.
RoundOfBinding ==
    /\ pc \in {"bind", "done"} =>
          PlanMeant /\ HeldMeant /\ \A a \in arcs : Checked(a) => ArcBound(a)
    /\ pc \notin {"bind", "crashed"} => net = NoNet
    /\ pc = "done" => failed_nets = {} /\ nets_left = {}

LEMMA InitRound ==
    ASSUME \A d \in Designs : WellRooted(d.routing) /\ OwnStarts(d), Init
    PROVE  HeldRooted /\ StartsFree /\ RoundOfBinding
<1>1. PICK d \in Designs : arcs = d.arcs /\ wires = d.routing
  BY DEF Init
<1>2. WellRooted(wires)
  BY <1>1
<1>3. OwnStarts(d)
  OBVIOUS
<1>4. RoundOfBinding
  BY DEF Init, RoundOfBinding
<1>5. \A n \in Nets, w \in Wires : nd_wires[n][w] # Unbound <=> wires[n][w] # Unbound
  BY InitBooksAre
<1>6. StartsFree
  <2>1. arcs \subseteq Arcs
    BY InitBinding DEF Binding, BindPlan
  <2>2. \A a \in arcs : ArcNet[a] \in Nets
    BY <2>1, Router2Assumption
  <2> QED BY <1>1, <1>3, <1>5, <2>2 DEF OwnStarts, StartsFree
<1>7. ASSUME NEW n \in Nets, NEW w \in Wires, wires[n][w] # Unbound
      PROVE  IF wires[n][w].pip = NoPip THEN RouteRoot(n, w)
             ELSE ~AtSource(n, w) /\ (Strong(n, w) => Strong(n, PipSrc[wires[n][w].pip]))
  BY <1>2, <1>7 DEF WellRooted, Strong
<1>8. ASSUME NEW n \in Nets, NEW W \in (SUBSET Wires) \ {{}}
      PROVE  \E w \in W : Strong(n, w) =>
                              (wires[n][w].pip = NoPip \/ PipSrc[wires[n][w].pip] \notin W)
  BY <1>2, <1>8 DEF WellRooted, Strong
<1> QED BY <1>4, <1>6, <1>7, <1>8 DEF HeldRooted

-----------------------------------------------------------------------------
\* The trail of a route whose pips stay.
LEMMA TrailStays ==
    ASSUME NEW b \in NetBooks, NEW c \in NetBooks, NEW n, NEW d \in Wires,
           CompleteIn(b, n, d),
           \A w \in BodyIn(b, n, d) : c[w] # Unbound /\ c[w].pip = b[w].pip
    PROVE  TrailIn(c, n, d) = TrailIn(b, n, d)
<1>1. TrailIn(b, n, d) \in SUBSET Wires /\ TrailIn(c, n, d) \in SUBSET Wires
  BY TrailIsClosed
<1>2. BodyIn(c, n, d) = BodyIn(b, n, d)
  BY CompleteStays
<1>3. TrailIn(c, n, d) \subseteq TrailIn(b, n, d)
  <2>1. \A w \in TrailIn(b, n, d) : ~EndsIn(c, n, w) => PipSrc[c[w].pip] \in TrailIn(b, n, d)
    <3>1. ASSUME NEW w \in TrailIn(b, n, d), ~EndsIn(c, n, w) PROVE PipSrc[c[w].pip] \in TrailIn(b, n, d)
      <4>1. w \in BodyIn(b, n, d)
        BY <3>1 DEF BodyIn, EndsIn
      <4>2. ~EndsIn(b, n, w)
        BY <4>1 DEF CompleteIn
      <4> QED BY <4>1, <4>2, TrailIsClosed
    <3> QED BY <3>1
  <2> QED BY <1>1, <2>1, TrailIsClosed
<1>4. TrailIn(b, n, d) \subseteq TrailIn(c, n, d)
  <2>1. \A w \in TrailIn(c, n, d) : ~EndsIn(b, n, w) => PipSrc[b[w].pip] \in TrailIn(c, n, d)
    <3>1. ASSUME NEW w \in TrailIn(c, n, d), ~EndsIn(b, n, w) PROVE PipSrc[b[w].pip] \in TrailIn(c, n, d)
      <4>1. w \in BodyIn(b, n, d)
        BY <1>2, <3>1 DEF BodyIn, EndsIn
      <4>2. ~EndsIn(c, n, w)
        BY <3>1, <4>1 DEF EndsIn
      <4> QED BY <4>1, <4>2, TrailIsClosed
    <3> QED BY <3>1
  <2> QED BY <1>1, <2>1, TrailIsClosed
<1> QED BY <1>3, <1>4

\* That of a routed arc.
LEMMA BodyKeepsTrail ==
    ASSUME Routing, Routing', NEW b \in routed, b \in routed',
           Body(ArcNet[b], ArcSink[b])' = Body(ArcNet[b], ArcSink[b]),
           \A w \in Body(ArcNet[b], ArcSink[b]) :
               nd_wires'[ArcNet[b]][w].pip = nd_wires[ArcNet[b]][w].pip
    PROVE  Trail(ArcNet[b], ArcSink[b])' = Trail(ArcNet[b], ArcSink[b])
<1> DEFINE n == ArcNet[b]
           d == ArcSink[b]
<1>1. n \in Nets /\ d \in Wires
  BY Router2Assumption DEF Routing, Binding, BindPlan, Routes
<1>2. nd_wires[n] \in NetBooks /\ nd_wires'[n] \in NetBooks
  BY <1>1 DEF Routing, Books, NetBooks
<1>3. CompleteIn(nd_wires[n], n, d) /\ CompleteIn(nd_wires'[n], n, d)
  BY BodyOfBooks DEF Routing, Routes, RoutesComplete
<1>4. BodyIn(nd_wires'[n], n, d) = BodyIn(nd_wires[n], n, d)
  BY BodyOfBooks
<1>5. \A w \in BodyIn(nd_wires[n], n, d) : nd_wires'[n][w] # Unbound
  BY <1>3, <1>4 DEF CompleteIn, EndsIn
<1>6. \A w \in BodyIn(nd_wires[n], n, d) : nd_wires'[n][w].pip = nd_wires[n][w].pip
  BY BodyOfBooks
<1> HIDE DEF n, d
<1>7. TrailIn(nd_wires'[n], n, d) = TrailIn(nd_wires[n], n, d)
  BY <1>1, <1>2, <1>3, <1>5, <1>6, TrailStays
<1> QED BY <1>7, TrailOfBooks DEF n, d

\* A round of binding leaves the routes that it does not take alone.
RoutesKept ==
    /\ arcs' = arcs
    /\ \A b \in routed' :
          /\ b \in routed
          /\ Trail(ArcNet[b], ArcSink[b])' = Trail(ArcNet[b], ArcSink[b])
          /\ Body(ArcNet[b], ArcSink[b])' = Body(ArcNet[b], ArcSink[b])
          /\ \A w \in Body(ArcNet[b], ArcSink[b]) :
                nd_wires'[ArcNet[b]][w].pip = nd_wires[ArcNet[b]][w].pip

LEMMA SameBooksKept ==
    ASSUME UNCHANGED <<arcs, nd_wires, routed>> PROVE RoutesKept
<1>1. \A n, d : Trail(n, d)' = Trail(n, d) /\ Body(n, d)' = Body(n, d)
  BY TrailOfBooks, BodyOfBooks
<1> QED BY <1>1 DEF RoutesKept

LEMMA UnboundKept ==
    ASSUME Routing, Routing', NEW a \in routed, UnbindsRoute(a) PROVE RoutesKept
<1>1. arcs' = arcs /\ routed' = routed \ {a}
  BY DEF UnbindsRoute
<1>2. \A b \in routed \ {a} :
         /\ Body(ArcNet[b], ArcSink[b])' = Body(ArcNet[b], ArcSink[b])
         /\ \A w \in Body(ArcNet[b], ArcSink[b]) :
               nd_wires'[ArcNet[b]][w].pip = nd_wires[ArcNet[b]][w].pip
  BY UnbindKeepsRoutes DEF Routing, Binding, BindPlan
<1>3. ASSUME NEW b \in routed \ {a}
      PROVE  Trail(ArcNet[b], ArcSink[b])' = Trail(ArcNet[b], ArcSink[b])
  BY <1>1, <1>2, <1>3, BodyKeepsTrail
<1> QED BY <1>1, <1>2, <1>3 DEF RoutesKept

\* What the calls of the architecture do to the wires a net holds.
Frees(w) ==
    /\ w \in to_unbind /\ w \in Wires /\ wires[net][w].strength <= STRENGTH_STRONG
    /\ wires' = [wires EXCEPT ![net][w] = Unbound]

Takes(w, p) ==
    /\ w \in Wires /\ \A n \in Nets : wires[n][w] = Unbound
    /\ wires' = [wires EXCEPT ![net][w] = [pip |-> p, strength |-> STRENGTH_WEAK]]

LEMMA WireChanges ==
    ASSUME Binding, [Next]_vars
    PROVE  \/ wires' = wires
           \/ net \in Nets /\ pc = "bind" /\ \E w \in Wires : UnbindOld(w) /\ Frees(w)
           \/ net \in Nets /\ pc = "bind" /\ BindRoot /\ Takes(to_bind.root, NoPip)
           \/ /\ net \in Nets /\ pc = "bind"
              /\ \E p \in Pips : BindPip(p) /\ p \in to_bind.pips /\ Takes(PipDst[p], p)
<1> USE DEF Binding, BindPlan
<1>1. CASE (\E n \in Nets : BindNet(n)) \/ (\E a \in Arcs : CheckArc(a)) \/ NetBound
  BY <1>1 DEF BindNet, CheckArc, NetBound, archVars
<1>2. CASE UNCHANGED <<archVars, arcs, net, to_unbind, arcs_left, to_bind>>
  BY <1>2 DEF archVars
<1>3. CASE \E w \in Wires : UnbindOld(w)
  <2>1. PICK w \in Wires : UnbindOld(w)
    BY <1>3
  <2>2. pc = "bind" /\ w \in to_unbind /\ unbindWire(w)
    BY <2>1 DEF UnbindOld
  <2>3. net \in Nets
    BY <2>2
  <2>4. wire_to_net[w] = net
    BY <2>2, <2>3 DEF Consistent, RecordedIsBound
  <2>5. Frees(w)
    BY <2>2, <2>4 DEF Frees, unbindWire
  <2> QED BY <2>1, <2>2, <2>3, <2>5
<1>4. ASSUME NEW w \in Wires, wire_to_net[w] = NoNet PROVE \A n \in Nets : wires[n][w] = Unbound
  BY <1>4, RoutingAssumption DEF Consistent, RecordedIsBound
<1>5. CASE BindRoot
  <2>1. pc = "bind" /\ to_bind.root # NoWire
        /\ (bindWire(to_bind.root, net, STRENGTH_WEAK) \/ UNCHANGED archVars)
    BY <1>5 DEF BindRoot
  <2>2. net \in Nets /\ to_bind.root \in Wires
    BY <2>1 DEF NothingToBind
  <2>3. CASE UNCHANGED archVars
    BY <2>3 DEF archVars
  <2>4. CASE bindWire(to_bind.root, net, STRENGTH_WEAK)
    <3>1. Takes(to_bind.root, NoPip)
      BY <1>4, <2>2, <2>4 DEF Takes, bindWire, checkWireAvail
    <3> QED BY <1>5, <2>1, <2>2, <3>1
  <2> QED BY <2>1, <2>3, <2>4
<1>6. CASE \E p \in Pips : BindPip(p)
  <2>1. PICK p \in Pips : BindPip(p)
    BY <1>6
  <2>2. pc = "bind" /\ p \in to_bind.pips
        /\ (bindPip(p, net, STRENGTH_WEAK) \/ UNCHANGED archVars)
    BY <2>1 DEF BindPip
  <2>3. net \in Nets /\ PipDst[p] \in Wires
    BY <2>2, RoutingAssumption DEF NothingToBind
  <2>4. CASE UNCHANGED archVars
    BY <2>4 DEF archVars
  <2>5. CASE bindPip(p, net, STRENGTH_WEAK)
    <3>1. Takes(PipDst[p], p)
      BY <1>4, <2>3, <2>5 DEF Takes, bindPip, checkWireAvail
    <3> QED BY <2>1, <2>2, <2>3, <3>1
  <2> QED BY <2>2, <2>4, <2>5
<1> QED BY <1>1, <1>2, <1>3, <1>5, <1>6, OtherSteps

LEMMA WiresType ==
    ASSUME Routing
    PROVE  /\ wires \in [Nets -> [Wires -> PipMap \cup {Unbound}]]
           /\ \A p \in Pips \cup {NoPip} : [pip |-> p, strength |-> STRENGTH_WEAK] # Unbound
<1>1. \A p \in Pips \cup {NoPip} :
         [pip |-> p, strength |-> STRENGTH_WEAK] \in [pip : Pips \cup {NoPip}, strength : Strengths]
  BY Router2Assumption
<1> QED BY <1>1, RoutingAssumption DEF Routing, Binding, ArchTypeOK

\* What strong wires there are, and their pips, stay.
LEMMA StrongSame ==
    ASSUME Routing, [Next]_vars
    PROVE  \A n \in Nets, w \in Wires : /\ Strong(n, w)' <=> Strong(n, w)
                                        /\ Strong(n, w) => wires'[n][w] = wires[n][w]
<1>0. wires \in [Nets -> [Wires -> PipMap \cup {Unbound}]]
  BY WiresType
<1>1. \A n \in Nets, w \in Wires : Strong(n, w) => wires'[n][w] = wires[n][w]
  BY StepKeepsStrong DEF Routing, Strong
<1>2. ASSUME NEW w \in Wires, NEW p \in Pips \cup {NoPip}, net \in Nets, Takes(w, p)
      PROVE  \A n \in Nets, v \in Wires : Strong(n, v)' => Strong(n, v)
  <2>1. \A n \in Nets, v \in Wires : wires'[n][v] =
           IF n = net /\ v = w THEN [pip |-> p, strength |-> STRENGTH_WEAK] ELSE wires[n][v]
    BY <1>0, <1>2 DEF Takes
  <2>2. ~([pip |-> p, strength |-> STRENGTH_WEAK].strength > STRENGTH_STRONG)
    BY DEF STRENGTH_WEAK, STRENGTH_STRONG
  <2> QED BY <2>1, <2>2 DEF Strong
<1>3. ASSUME NEW w \in Wires, net \in Nets, Frees(w)
      PROVE  \A n \in Nets, v \in Wires : Strong(n, v)' => Strong(n, v)
  BY <1>0, <1>3 DEF Frees, Strong
<1>4. \A n \in Nets, w \in Wires : Strong(n, w)' => Strong(n, w)
  <2>1. CASE wires' = wires
    BY <2>1 DEF Strong
  <2>2. CASE \E w \in Wires : net \in Nets /\ Frees(w)
    BY <1>3, <2>2
  <2>3. CASE net \in Nets /\ Takes(to_bind.root, NoPip)
    BY <1>2, <2>3 DEF Takes
  <2>4. CASE net \in Nets /\ \E p \in Pips : Takes(PipDst[p], p)
    BY <1>2, <2>4 DEF Takes
  <2> QED BY <2>1, <2>2, <2>3, <2>4, WireChanges DEF Routing
<1>5. \A n \in Nets, w \in Wires : Strong(n, w) => Strong(n, w)'
  BY <1>1 DEF Strong
<1> QED BY <1>1, <1>4, <1>5

\* The wire planned for a pip is on a route of the net in hand, and where its route
\* starts is not.
LEMMA PlannedPip ==
    ASSUME Routing, RoundOfBinding, pc = "bind", NEW p \in to_bind.pips
    PROVE  \E a \in routed : /\ ArcNet[a] = net /\ a \in arcs /\ ArcSink[a] \in Wires
                             /\ PipDst[p] \in Body(net, ArcSink[a])
                             /\ nd_wires[net][PipDst[p]].pip = p
                             /\ nd_wires[net][PipDst[p]] # Unbound
                             /\ ~AtSource(net, PipDst[p])
<1>1. PICK a \in routed : /\ ArcNet[a] = net
                          /\ PipDst[p] \in Body(net, ArcSink[a])
                          /\ nd_wires[net][PipDst[p]].pip = p
  BY DEF RoundOfBinding, PlanMeant
<1>2. a \in arcs /\ ArcSink[a] \in Wires
  BY Router2Assumption DEF Routing, Binding, BindPlan, Routes
<1>3. ~Ends(net, PipDst[p])
  BY <1>1 DEF Routing, Routes, RoutesComplete, Complete
<1> QED BY <1>1, <1>2, <1>3 DEF Ends

LEMMA StepHeldRooted ==
    ASSUME ConstantsStart, Routing, HeldRooted, RoundOfBinding, [Next]_vars PROVE HeldRooted'
<1>0. wires \in [Nets -> [Wires -> PipMap \cup {Unbound}]]
  BY WiresType
<1>1. \A n \in Nets, w \in Wires : /\ Strong(n, w)' <=> Strong(n, w)
                                   /\ Strong(n, w) => wires'[n][w] = wires[n][w]
  BY StrongSame
<1>2. \A n \in Nets, w \in Wires : (wires[n][w] # Unbound /\ wires[n][w].pip # NoPip) =>
         PipSrc[wires[n][w].pip] \in Wires
  BY <1>0, Router2Assumption DEF PipMap
<1>3. ASSUME NEW n \in Nets, NEW w \in Wires, wires'[n][w] # Unbound,
             wires'[n][w] # wires[n][w]
      PROVE  IF wires'[n][w].pip = NoPip THEN RouteRoot(n, w) ELSE ~AtSource(n, w)
  <2>1. CASE \E v \in Wires : Frees(v) /\ net \in Nets
    BY <1>0, <1>3, <2>1 DEF Frees
  <2>2. CASE net \in Nets /\ pc = "bind" /\ BindRoot /\ Takes(to_bind.root, NoPip)
    <3>1. n = net /\ w = to_bind.root
      BY <1>0, <1>3, <2>2 DEF Takes
    <3>2. to_bind.root \in Wires /\ wires'[n][w].pip = NoPip
      BY <1>0, <2>2, <3>1 DEF Takes
    <3>3. to_bind.root # NoWire
      BY <3>2, RoutingAssumption
    <3>4. AtSource(net, to_bind.root) /\ \E a \in arcs : ArcNet[a] = net
      BY <2>2, <3>3 DEF RoundOfBinding, PlanMeant, Meant
    <3>5. RouteRoot(n, w)
      BY <3>1, <3>2, <3>4, StartIsRoot DEF Routing, Binding, BindPlan
    <3> QED BY <3>2, <3>5
  <2>3. CASE pc = "bind" /\ net \in Nets /\ \E p \in Pips : p \in to_bind.pips /\ Takes(PipDst[p], p)
    <3>1. PICK p \in Pips : p \in to_bind.pips /\ Takes(PipDst[p], p)
      BY <2>3
    <3>2. n = net /\ w = PipDst[p] /\ wires'[n][w].pip = p
      BY <1>0, <1>3, <2>3, <3>1 DEF Takes
    <3>3. ~AtSource(n, w)
      BY <2>3, <3>1, <3>2, PlannedPip
    <3> QED BY <3>2, <3>3, RoutingAssumption
  <2> QED BY <1>3, <2>1, <2>2, <2>3, WireChanges DEF Routing
<1>4. ASSUME NEW n \in Nets, NEW w \in Wires, wires'[n][w] # Unbound
      PROVE  IF wires'[n][w].pip = NoPip THEN RouteRoot(n, w)
             ELSE ~AtSource(n, w) /\ (Strong(n, w)' => Strong(n, PipSrc[wires[n][w].pip])')
  <2>1. Strong(n, w)' => /\ wires[n][w] # Unbound /\ wires'[n][w] = wires[n][w]
                         /\ (wires[n][w].pip # NoPip => Strong(n, PipSrc[wires[n][w].pip]))
    BY <1>1 DEF HeldRooted, Strong
  <2>2. (Strong(n, w)' /\ wires'[n][w].pip # NoPip) => Strong(n, PipSrc[wires[n][w].pip])'
    BY <1>1, <1>2, <2>1
  <2>3. CASE wires'[n][w] = wires[n][w]
    BY <1>4, <2>2, <2>3 DEF HeldRooted
  <2>4. CASE wires'[n][w] # wires[n][w]
    BY <1>3, <1>4, <2>2, <2>4
  <2> QED BY <2>3, <2>4
<1>5. ASSUME NEW n \in Nets, NEW W \in (SUBSET Wires) \ {{}}
      PROVE  \E w \in W : Strong(n, w)' =>
                              (wires'[n][w].pip = NoPip \/ PipSrc[wires'[n][w].pip] \notin W)
  BY <1>1, <1>5 DEF HeldRooted
<1> QED BY <1>4, <1>5 DEF HeldRooted, RouteRoot, AtSource, IsConst

\* The path a step that routes an arc takes is one of its ways.
LEMMA RouteArcWay ==
    ASSUME NEW t \in Workers, NEW a \in Arcs, RouteArc(t, a), ~UNCHANGED bookVars
    PROVE  \E path \in Ways(a) : \E hops : ArcRouted(a, path, hops)
<1> DEFINE hopsOf(path) == [w \in {PipDst[path[i]] : i \in 1..Len(path)} |->
                              CHOOSE p \in {path[i] : i \in 1..Len(path)} : PipDst[p] = w]
<1>1. PICK path \in PathsFor(t, a, Tree(ArcNet[a])) :
         /\ RouteFits(ArcNet[a], hopsOf(path))
         /\ BindRoute(ArcNet[a], PipSrc[path[Len(path)]], hopsOf(path))
         /\ routed' = routed \cup {a}
  BY DEF RouteArc
<1>2. arcs' = arcs
  BY DEF RouteArc
<1>3. ArcRouted(a, path, hopsOf(path))
  BY <1>1, <1>2, PathFound DEF ArcRouted
<1>4. path \in Ways(a)
  BY <1>1 DEF PathsFor, Ways
<1> QED BY <1>3, <1>4

\* The wires a route passes before the last are wires its pips come from, or its sink.
LEMMA HopsOnWay ==
    ASSUME NEW path, NEW d, LeadsTo(path, d), NEW w \in {PipDst[path[i]] : i \in 1..Len(path)}
    PROVE  w = d \/ \E i \in 1..Len(path) : w = PipSrc[path[i]]
<1>1. PICK i \in 1..Len(path) : w = PipDst[path[i]]
  OBVIOUS
<1>2. Len(path) \in Nat /\ PipDst[path[1]] = d
  BY DEF LeadsTo
<1>3. CASE i = 1
  BY <1>1, <1>2, <1>3
<1>4. CASE i # 1
  <2>1. i - 1 \in 1..(Len(path) - 1) /\ i = (i - 1) + 1 /\ i - 1 \in 1..Len(path)
    BY <1>2, <1>4
  <2>2. PipDst[path[(i - 1) + 1]] = PipSrc[path[i - 1]]
    BY <2>1 DEF LeadsTo
  <2> QED BY <1>1, <2>1, <2>2
<1> QED BY <1>3, <1>4

LEMMA StepStarts ==
    ASSUME ConstantsStart, Routing, StartsFree, RoundOfBinding, [Next]_vars PROVE StartsFree'
<1>0. /\ wires \in [Nets -> [Wires -> PipMap \cup {Unbound}]]
      /\ nd_wires \in [Nets -> [Wires -> IntEntry \cup {Unbound}]]
  BY DEF Routing, Books, Binding, ArchTypeOK
<1>1. arcs' = arcs
  <2>1. \A t \in Workers, a \in arcs : RouteArc(t, a) => arcs' = arcs
    BY DEF RouteArc
  <2> QED BY <2>1, BookChanges DEF Routing, SetupWires, UnbindsRoute
<1> SUFFICES ASSUME NEW a \in arcs, NEW w \in Wires, AtSource(ArcNet[a], w),
                    NEW m \in Nets \ {ArcNet[a]}
             PROVE  wires'[m][w] = Unbound /\ nd_wires'[m][w] = Unbound
  BY <1>1 DEF StartsFree, AtSource, IsConst, Ways, AllPathsBack, RouteRoot
<1>2. wires[m][w] = Unbound /\ nd_wires[m][w] = Unbound
  BY DEF StartsFree
<1>3. wires'[m][w] = Unbound
  <2> SUFFICES ASSUME wires'[m][w] # Unbound PROVE FALSE
    OBVIOUS
  <2>1. CASE \E v \in Wires : Frees(v) /\ net \in Nets
    BY <1>0, <1>2, <2>1 DEF Frees
  <2>2. CASE net \in Nets /\ pc = "bind" /\ BindRoot /\ Takes(to_bind.root, NoPip)
    <3>1. m = net /\ w = to_bind.root
      BY <1>0, <1>2, <2>2 DEF Takes
    <3>2. to_bind.root # NoWire
      BY <3>1, RoutingAssumption
    <3>3. AtSource(net, w) /\ \E b \in arcs : ArcNet[b] = net
      BY <2>2, <3>1, <3>2 DEF RoundOfBinding, PlanMeant, Meant
    <3> QED BY <3>1, <3>3 DEF StartsFree
  <2>3. CASE pc = "bind" /\ net \in Nets /\ \E p \in Pips : p \in to_bind.pips /\ Takes(PipDst[p], p)
    <3>1. PICK p \in Pips : p \in to_bind.pips /\ Takes(PipDst[p], p)
      BY <2>3
    <3>2. m = net /\ w = PipDst[p]
      BY <1>0, <1>2, <2>3, <3>1 DEF Takes
    <3>3. nd_wires[net][PipDst[p]] # Unbound
      BY <2>3, <3>1, PlannedPip
    <3> QED BY <1>2, <3>2, <3>3
  <2> QED BY <1>2, <2>1, <2>2, <2>3, WireChanges DEF Routing
<1>4. nd_wires'[m][w] = Unbound
  <2>1. CASE SetupWires
    BY <1>2, <2>1 DEF SetupWires
  <2>2. CASE \E t \in Workers, b \in arcs : RouteArc(t, b) /\ b \notin routed /\ ~UNCHANGED bookVars
    <3>1. PICK t \in Workers, b \in arcs : RouteArc(t, b) /\ ~UNCHANGED bookVars
      BY <2>2
    <3>2. b \in Arcs /\ ArcNet[b] \in Nets
      BY Router2Assumption DEF Routing, Binding, BindPlan
    <3>0. PICK hops : \E path \in Ways(b) : ArcRouted(b, path, hops)
      BY <3>1, <3>2, RouteArcWay
    <3>3. PICK path \in Ways(b) : ArcRouted(b, path, hops)
      BY <3>0
    <3>4. /\ LeadsTo(path, ArcSink[b]) /\ BindRoute(ArcNet[b], PipSrc[path[Len(path)]], hops)
          /\ DOMAIN hops = {PipDst[path[i]] : i \in 1..Len(path)}
      BY <3>3 DEF ArcRouted
    <3>5. CASE ArcNet[b] # m
      BY <1>0, <1>2, <3>2, <3>4, <3>5 DEF BindRoute
    <3>6. CASE ArcNet[b] = m
      <4>0. w # ArcSink[b] /\ \A way \in Ways(b) : \A i \in 1..Len(way) : w # PipSrc[way[i]]
        BY <3>6 DEF StartsFree
      <4>1. w # ArcSink[b] /\ \A i \in 1..Len(path) : w # PipSrc[path[i]]
        BY <3>3, <4>0
      <4>2. w \notin DOMAIN hops
        <5> SUFFICES ASSUME w \in {PipDst[path[i]] : i \in 1..Len(path)} PROVE FALSE
          BY <3>4
        <5>1. LeadsTo(path, ArcSink[b])
          BY <3>4
        <5>2. w = ArcSink[b] \/ \E i \in 1..Len(path) : w = PipSrc[path[i]]
          BY <5>1, HopsOnWay
        <5> QED BY <4>1, <5>2
      <4>3. Len(path) \in 1..Len(path)
        BY <3>4, PathWires
      <4> QED BY <1>0, <1>2, <3>4, <3>6, <4>1, <4>2, <4>3 DEF BindRoute
    <3> QED BY <3>5, <3>6
  <2>3. CASE \E b \in routed : UnbindsRoute(b)
    <3>1. PICK b \in routed : UnbindRoute(ArcNet[b], Body(ArcNet[b], ArcSink[b]))
      BY <2>3 DEF UnbindsRoute
    <3>2. \A u \in Body(ArcNet[b], ArcSink[b]) : nd_wires[ArcNet[b]][u] # Unbound
      BY DEF Routing, Routes, RoutesComplete, Complete, Ends
    <3> HIDE DEF Body
    <3> QED BY <1>0, <1>2, <3>1, <3>2 DEF UnbindRoute
  <2>4. CASE UNCHANGED bookVars
    BY <1>2, <2>4 DEF bookVars
  <2> QED BY <2>1, <2>2, <2>3, <2>4, BookChanges DEF Routing
<1> QED BY <1>3, <1>4

\* What is asked of a wire of a routed arc.
LEMMA BodyWire ==
    ASSUME Routing, DrivesItsWire, NEW a \in routed
    PROVE  /\ a \in arcs /\ a \in Arcs /\ ArcNet[a] \in Nets /\ ArcSink[a] \in Wires
           /\ Body(ArcNet[a], ArcSink[a]) \subseteq Trail(ArcNet[a], ArcSink[a])
           /\ Trail(ArcNet[a], ArcSink[a]) \subseteq Wires
           /\ \A w \in Body(ArcNet[a], ArcSink[a]) :
                 /\ w \in Wires /\ ~AtSource(ArcNet[a], w)
                 /\ nd_wires[ArcNet[a]][w] # Unbound
                 /\ nd_wires[ArcNet[a]][w].pip \in Pips
                 /\ PipDst[nd_wires[ArcNet[a]][w].pip] = w
<1>1. a \in arcs /\ a \in Arcs /\ ArcNet[a] \in Nets /\ ArcSink[a] \in Wires
  BY Router2Assumption DEF Routing, Binding, BindPlan, Routes
<1>2. nd_wires[ArcNet[a]] \in NetBooks
  BY <1>1, NetBooksOf DEF Routing
<1>3. Trail(ArcNet[a], ArcSink[a]) \subseteq Wires
  BY <1>1, <1>2, TrailIsClosed, TrailOfBooks
<1>4. ASSUME NEW w \in Body(ArcNet[a], ArcSink[a])
      PROVE  /\ w \in Wires /\ ~AtSource(ArcNet[a], w)
             /\ nd_wires[ArcNet[a]][w] # Unbound
             /\ nd_wires[ArcNet[a]][w].pip \in Pips
             /\ PipDst[nd_wires[ArcNet[a]][w].pip] = w
  <2>1. w \in Wires
    BY <1>3 DEF Body
  <2>2. ~Ends(ArcNet[a], w)
    BY DEF Routing, Routes, RoutesComplete, Complete
  <2>3. nd_wires[ArcNet[a]][w].pip \in Pips
    BY <1>2, <2>1, <2>2 DEF Ends, NetBooks, IntEntry
  <2> QED BY <1>1, <2>1, <2>2, <2>3 DEF Ends, DrivesItsWire
<1> QED BY <1>1, <1>3, <1>4 DEF Body

\* A step that keeps the routes, binds what it takes from the plan, and unbinds
\* nothing of the net.
BoundKept(a) ==
    /\ a \in routed <=> a \in routed'
    /\ \A w \in Wires : wires[ArcNet[a]][w] # Unbound => wires'[ArcNet[a]][w] = wires[ArcNet[a]][w]
    /\ ArcNet[a] = net =>
          /\ \A p \in to_bind.pips :
                \/ net' = net /\ p \in to_bind'.pips
                \/ wires'[net][PipDst[p]] # Unbound /\ wires'[net][PipDst[p]].pip = p
          /\ to_bind.root # NoWire =>
                \/ net' = net /\ to_bind'.root = to_bind.root
                \/ wires'[net][to_bind.root] # Unbound

LEMMA ArcBoundKept ==
    ASSUME Routing, DrivesItsWire, RoutesKept, NEW a \in arcs, ArcBound(a), BoundKept(a)
    PROVE  ArcBound(a)'
<1> DEFINE n == ArcNet[a]
<1>0. a \in Arcs /\ n \in Nets /\ ArcSink[a] \in Wires
  BY Router2Assumption DEF Routing, Binding, BindPlan
<1>1. CASE a \notin routed
  BY <1>0, <1>1, RoutingAssumption DEF BoundKept, ArcBound
<1>2. CASE a \in routed
  <2>1. /\ Body(n, ArcSink[a])' = Body(n, ArcSink[a])
        /\ Trail(n, ArcSink[a])' = Trail(n, ArcSink[a])
        /\ \A w \in Body(n, ArcSink[a]) : nd_wires'[n][w].pip = nd_wires[n][w].pip
        /\ a \in routed'
    BY <1>2 DEF RoutesKept, BoundKept
  <2>2. RouteBound(a)
    BY <1>2 DEF ArcBound
  <2>3. ASSUME NEW w \in Body(n, ArcSink[a])
        PROVE  \/ wires'[n][w] # Unbound /\ wires'[n][w].pip = nd_wires'[n][w].pip
               \/ n = net' /\ nd_wires'[n][w].pip \in to_bind'.pips
    <3>1. w \in Wires /\ PipDst[nd_wires[n][w].pip] = w
      BY <1>2, BodyWire
    <3>2. nd_wires'[n][w].pip = nd_wires[n][w].pip
      BY <2>1
    <3>3. CASE wires[n][w] # Unbound /\ wires[n][w].pip = nd_wires[n][w].pip
      BY <3>1, <3>2, <3>3 DEF BoundKept
    <3>4. CASE n = net /\ nd_wires[n][w].pip \in to_bind.pips
      BY <3>1, <3>2, <3>4 DEF BoundKept
    <3> QED BY <2>2, <3>3, <3>4 DEF RouteBound
  <2>4. \E root \in Trail(n, ArcSink[a]) :
            AtSource(n, root) /\ (wires'[n][root] # Unbound \/ (n = net' /\ to_bind'.root = root))
    <3>1. PICK root \in Trail(n, ArcSink[a]) :
             AtSource(n, root) /\ (wires[n][root] # Unbound \/ (n = net /\ to_bind.root = root))
      BY <2>2 DEF RouteBound
    <3>2. root \in Wires /\ root # NoWire
      BY <1>2, BodyWire, RoutingAssumption
    <3> QED BY <3>1, <3>2 DEF BoundKept
  <2>5. RouteBound(a)'
    BY <2>1, <2>3, <2>4 DEF RouteBound, AtSource, IsConst
  <2> QED BY <2>1, <2>5 DEF ArcBound
<1> QED BY <1>1, <1>2

LEMMA MeantKept ==
    ASSUME RoutesKept, NEW n, NEW w, Meant(n, w),
           \A a \in arcs : (ArcNet[a] = n /\ Checked(a)) => Checked(a)' /\ (a \in routed => a \in routed')
    PROVE  Meant(n, w)'
<1>1. PICK a \in arcs : /\ ArcNet[a] = n /\ Checked(a)
                        /\ \/ a \in routed /\ w \in Trail(n, ArcSink[a])
                           \/ w = ArcSink[a] /\ w = SourceWire[n]
  BY DEF Meant
<1>2. Checked(a)' /\ a \in arcs' /\ (a \in routed => a \in routed')
  BY <1>1 DEF RoutesKept
<1>3. a \in routed' => Trail(n, ArcSink[a])' = Trail(n, ArcSink[a])
  BY <1>1 DEF RoutesKept
<1> QED BY <1>1, <1>2, <1>3 DEF Meant

\* No arc of the net is looked at while its old wires are being unbound.
LEMMA NoneChecked ==
    ASSUME RoundOfBinding, pc = "bind", NEW a \in arcs, ArcNet[a] = net, to_unbind # {}
    PROVE  ~Checked(a)
BY DEF RoundOfBinding, PlanMeant, Checked, ArcsOf

LEMMA SameBoundKept ==
    ASSUME UNCHANGED <<wires, arcs, nd_wires, routed>>, NEW a,
           ArcNet[a] = net => to_bind = NothingToBind \/ UNCHANGED <<net, to_bind>>
    PROVE  BoundKept(a)
BY DEF BoundKept, NothingToBind

LEMMA BindNetRound ==
    ASSUME Routing, DrivesItsWire, RoundOfBinding, NEW n \in Nets, BindNet(n) PROVE RoundOfBinding'
<1>1. /\ pc = "bind" /\ pc' = "bind" /\ net = NoNet /\ n \in nets_left /\ net' = n
      /\ nets_left' = nets_left \ {n} /\ arcs_left' = ArcsOf(n)
      /\ to_unbind' = {w \in HeldBy(n) : wires[n][w].strength <= STRENGTH_STRONG}
      /\ UNCHANGED <<wires, arcs, nd_wires, routed, to_bind, failed_nets>>
  BY DEF BindNet, archVars, bookVars, queueVars
<1>2. to_unbind = {} /\ arcs_left = {} /\ to_bind = NothingToBind
  BY <1>1 DEF Routing, Binding, BindPlan
<1>3. RoutesKept
  BY <1>1, SameBooksKept
<1>4. \A a \in arcs : Checked(a)' <=> (Checked(a) /\ ArcNet[a] # n)
  BY <1>1, <1>2 DEF Checked, ArcsOf
<1>5. \A a \in arcs : Checked(a)' => ArcBound(a)'
  <2> SUFFICES ASSUME NEW a \in arcs, Checked(a)' PROVE ArcBound(a)'
    OBVIOUS
  <2>1. ArcBound(a)
    BY <1>1, <1>4 DEF RoundOfBinding
  <2>2. BoundKept(a)
    BY <1>1, <1>2, SameBoundKept
  <2> QED BY <1>3, <2>1, <2>2, ArcBoundKept
<1>6. PlanMeant'
  <2>1. to_bind'.root = NoWire /\ to_bind'.pips = {}
    BY <1>1, <1>2 DEF NothingToBind
  <2>2. arcs_left' = ArcsOf(net)'
    BY <1>1 DEF ArcsOf
  <2> QED BY <1>1, <2>1, <2>2 DEF PlanMeant
<1>7. HeldMeant'
  <2> SUFFICES ASSUME NEW m \in Nets \ nets_left', NEW w \in Wires, wires'[m][w] # Unbound
               PROVE  Strong(m, w)' \/ (m = net' /\ w \in to_unbind') \/ Meant(m, w)'
    BY DEF HeldMeant
  <2>1. wires[m][w] # Unbound /\ (Strong(m, w)' <=> Strong(m, w))
    BY <1>1 DEF Strong
  <2>2. CASE m = n
    <3>1. wires[m][w] \in PipMap
      BY <2>1 DEF Routing, Binding, ArchTypeOK
    <3>2. wires[m][w].strength \in Nat
      BY <3>1, Router2Assumption DEF PipMap
    <3> QED BY <1>1, <2>1, <2>2, <3>2 DEF Strong, HeldBy, STRENGTH_STRONG
  <2>3. CASE m # n
    <3>1. m \notin nets_left /\ m # NoNet
      BY <1>1, <2>3, RoutingAssumption
    <3>2. Strong(m, w) \/ Meant(m, w)
      BY <1>1, <2>1, <3>1 DEF RoundOfBinding, HeldMeant
    <3>3. Meant(m, w) => Meant(m, w)'
      BY <1>1, <1>3, <1>4, <2>3, MeantKept
    <3> QED BY <2>1, <3>2, <3>3
  <2> QED BY <2>2, <2>3
<1> QED BY <1>1, <1>5, <1>6, <1>7 DEF RoundOfBinding

LEMMA UnbindRound ==
    ASSUME Routing, DrivesItsWire, RoundOfBinding, NEW v \in Wires, UnbindOld(v)
    PROVE  RoundOfBinding'
<1>1. /\ pc = "bind" /\ pc' = "bind" /\ v \in to_unbind /\ to_unbind' = to_unbind \ {v}
      /\ UNCHANGED <<arcs, nd_wires, routed, to_bind, failed_nets, nets_left, net, arcs_left>>
      /\ unbindWire(v)
  BY DEF UnbindOld, bookVars, queueVars
<1>2. net \in Nets /\ wires[net][v] # Unbound /\ to_bind = NothingToBind
  BY <1>1 DEF Routing, Binding, BindPlan
<1>3. wires' = [wires EXCEPT ![net][v] = Unbound]
  <2>1. wire_to_net[v] = net
    BY <1>2 DEF Routing, Binding, Consistent, RecordedIsBound
  <2> QED BY <1>1, <2>1 DEF unbindWire
<1>4. wires \in [Nets -> [Wires -> PipMap \cup {Unbound}]]
  BY DEF Routing, Binding, ArchTypeOK
<1>5. \A m \in Nets, w \in Wires : wires'[m][w] = IF m = net /\ w = v THEN Unbound ELSE wires[m][w]
  BY <1>3, <1>4
<1>6. RoutesKept
  BY <1>1, SameBooksKept
<1>7. \A a \in arcs : /\ Checked(a)' <=> Checked(a)
                      /\ Checked(a) => ArcNet[a] # net
  BY <1>1, NoneChecked DEF Checked
<1>8. \A a \in arcs : Checked(a)' => ArcBound(a)'
  <2> SUFFICES ASSUME NEW a \in arcs, Checked(a) PROVE ArcBound(a)'
    BY <1>7
  <2>1. ArcBound(a) /\ ArcNet[a] # net
    BY <1>1, <1>7 DEF RoundOfBinding
  <2>2. ArcNet[a] \in Nets
    BY Router2Assumption DEF Routing, Binding, BindPlan
  <2>3. BoundKept(a)
    BY <1>1, <1>5, <2>1, <2>2 DEF BoundKept
  <2> QED BY <1>6, <2>1, <2>3, ArcBoundKept
<1>9. PlanMeant'
  <2>1. PlanMeant
    BY <1>1 DEF RoundOfBinding
  <2>2. to_bind'.root = NoWire /\ to_bind'.pips = {}
    BY <1>1, <1>2 DEF NothingToBind
  <2>3. arcs_left' = ArcsOf(net)'
    BY <1>1, <2>1 DEF PlanMeant, ArcsOf
  <2> QED BY <1>1, <2>1, <2>2, <2>3 DEF PlanMeant
<1>10. HeldMeant'
  <2> SUFFICES ASSUME NEW m \in Nets \ nets_left', NEW w \in Wires, wires'[m][w] # Unbound
               PROVE  Strong(m, w)' \/ (m = net' /\ w \in to_unbind') \/ Meant(m, w)'
    BY DEF HeldMeant
  <2>1. wires[m][w] # Unbound /\ wires'[m][w] = wires[m][w] /\ ~(m = net /\ w = v)
    BY <1>5
  <2>2. Strong(m, w) => Strong(m, w)'
    BY <2>1 DEF Strong
  <2>3. Meant(m, w) => Meant(m, w)'
    BY <1>1, <1>6, <1>7, MeantKept
  <2> QED BY <1>1, <2>1, <2>2, <2>3 DEF RoundOfBinding, HeldMeant
<1> QED BY <1>1, <1>8, <1>9, <1>10 DEF RoundOfBinding

LEMMA NetBoundRound ==
    ASSUME Routing, DrivesItsWire, RoundOfBinding, NetBound PROVE RoundOfBinding'
<1>1. /\ pc = "bind" /\ pc' = "bind" /\ net # NoNet /\ net' = NoNet
      /\ to_unbind = {} /\ arcs_left = {} /\ to_bind = NothingToBind
      /\ UNCHANGED <<wires, arcs, nd_wires, routed, to_bind, failed_nets, nets_left, arcs_left,
                     to_unbind>>
  BY DEF NetBound, archVars, bookVars, queueVars
<1>2. RoutesKept
  BY <1>1, SameBooksKept
<1>3. \A a \in arcs : Checked(a)' <=> Checked(a)
  BY <1>1 DEF Checked
<1>4. \A a \in arcs : Checked(a)' => ArcBound(a)'
  <2> SUFFICES ASSUME NEW a \in arcs, Checked(a) PROVE ArcBound(a)'
    BY <1>3
  <2>1. ArcBound(a)
    BY <1>1 DEF RoundOfBinding
  <2>2. BoundKept(a)
    BY <1>1, SameBoundKept
  <2> QED BY <1>2, <2>1, <2>2, ArcBoundKept
<1>5. PlanMeant'
  <2>1. to_bind'.root = NoWire /\ to_bind'.pips = {}
    BY <1>1 DEF NothingToBind
  <2> QED BY <1>1, <2>1 DEF PlanMeant
<1>6. HeldMeant'
  <2> SUFFICES ASSUME NEW m \in Nets \ nets_left', NEW w \in Wires, wires'[m][w] # Unbound
               PROVE  Strong(m, w)' \/ Meant(m, w)'
    BY DEF HeldMeant
  <2>1. Strong(m, w) \/ Meant(m, w)
    BY <1>1 DEF RoundOfBinding, HeldMeant
  <2>2. Strong(m, w) => Strong(m, w)'
    BY <1>1 DEF Strong
  <2>3. Meant(m, w) => Meant(m, w)'
    BY <1>1, <1>2, <1>3, MeantKept
  <2> QED BY <2>1, <2>2, <2>3
<1> QED BY <1>1, <1>4, <1>5, <1>6 DEF RoundOfBinding

LEMMA AllBoundRound ==
    ASSUME Routing, DrivesItsWire, RoundOfBinding, AllBound PROVE RoundOfBinding'
<1>1. /\ pc = "bind" /\ net = NoNet /\ nets_left = {}
      /\ pc' = IF failed_nets = {} THEN "done" ELSE "iterate"
      /\ UNCHANGED <<wires, arcs, nd_wires, routed, failed_nets, nets_left, net, to_unbind,
                     arcs_left, to_bind>>
  BY DEF AllBound, archVars, bookVars, queueVars, bindVars
<1>2. CASE pc' = "iterate"
  BY <1>1, <1>2 DEF RoundOfBinding
<1>3. CASE pc' = "done"
  <2>1. RoutesKept
    BY <1>1, SameBooksKept
  <2>2. \A a \in arcs : Checked(a)' <=> Checked(a)
    BY <1>1 DEF Checked
  <2>3. \A a \in arcs : Checked(a)' => ArcBound(a)'
    <3> SUFFICES ASSUME NEW a \in arcs, Checked(a) PROVE ArcBound(a)'
      BY <2>2
    <3>1. BoundKept(a)
      BY <1>1, SameBoundKept
    <3>2. ArcBound(a)
      BY <1>1 DEF RoundOfBinding
    <3> QED BY <2>1, <3>1, <3>2, ArcBoundKept
  <2>4. PlanMeant'
    <3>1. to_bind = NothingToBind /\ to_unbind = {} /\ arcs_left = {}
      BY <1>1 DEF Routing, Binding, BindPlan
    <3> QED BY <1>1, <3>1 DEF PlanMeant, NothingToBind
  <2>5. HeldMeant'
    <3> SUFFICES ASSUME NEW m \in Nets \ nets_left', NEW w \in Wires, wires'[m][w] # Unbound
                 PROVE  Strong(m, w)' \/ (m = net' /\ w \in to_unbind') \/ Meant(m, w)'
      BY DEF HeldMeant
    <3>1. Strong(m, w) => Strong(m, w)'
      BY <1>1 DEF Strong
    <3>2. Meant(m, w) => Meant(m, w)'
      BY <1>1, <2>1, <2>2, MeantKept
    <3> QED BY <1>1, <3>1, <3>2 DEF RoundOfBinding, HeldMeant
  <2>6. failed_nets = {}
    BY <1>1, <1>3
  <2> QED BY <1>1, <1>3, <2>3, <2>4, <2>5, <2>6 DEF RoundOfBinding
<1> QED BY <1>1, <1>2, <1>3

\* A wire of the plan is bound as planned.
LEMMA TakesRound ==
    ASSUME Routing, DrivesItsWire, RoundOfBinding, pc = "bind", pc' = "bind", net \in Nets,
           UNCHANGED <<arcs, nd_wires, routed, failed_nets, nets_left, net, to_unbind, arcs_left>>,
           to_unbind = {},
           NEW w \in Wires, NEW p \in Pips \cup {NoPip}, Takes(w, p), Meant(net, w),
           \/ p = NoPip /\ to_bind.root = w /\ to_bind' = [to_bind EXCEPT !.root = NoWire]
           \/ /\ p \in to_bind.pips /\ PipDst[p] = w
              /\ to_bind' = [to_bind EXCEPT !.pips = @ \ {p}]
    PROVE  RoundOfBinding'
<1>0. wires \in [Nets -> [Wires -> PipMap \cup {Unbound}]]
  BY DEF Routing, Binding, ArchTypeOK
<1>1. \A m \in Nets, v \in Wires : wires'[m][v] =
         IF m = net /\ v = w THEN [pip |-> p, strength |-> STRENGTH_WEAK] ELSE wires[m][v]
  BY <1>0 DEF Takes
<1>2. wires[net][w] = Unbound /\ wires'[net][w] # Unbound /\ wires'[net][w].pip = p
  BY <1>1, WiresType DEF Takes
<1>3. RoutesKept
  BY SameBooksKept
<1>4. \A a \in arcs : Checked(a)' <=> Checked(a)
  BY DEF Checked
<1>5. to_bind = [root |-> to_bind.root, pips |-> to_bind.pips]
  BY DEF Routing, Binding, BindPlan
<1>6. /\ \A q \in to_bind.pips : q \in to_bind'.pips \/ (q = p /\ PipDst[p] = w)
      /\ to_bind.root # NoWire => (to_bind'.root = to_bind.root \/ to_bind.root = w)
      /\ to_bind'.pips \subseteq to_bind.pips
      /\ to_bind'.root # NoWire => to_bind'.root = to_bind.root
  <2>1. CASE p = NoPip /\ to_bind.root = w /\ to_bind' = [to_bind EXCEPT !.root = NoWire]
    BY <1>5, <2>1
  <2>2. CASE p \in to_bind.pips /\ PipDst[p] = w /\ to_bind' = [to_bind EXCEPT !.pips = @ \ {p}]
    BY <1>5, <2>2
  <2> QED BY <2>1, <2>2
<1>7. \A a \in arcs : Checked(a)' => ArcBound(a)'
  <2> SUFFICES ASSUME NEW a \in arcs, Checked(a) PROVE ArcBound(a)'
    BY <1>4
  <2>1. ArcBound(a)
    BY DEF RoundOfBinding
  <2>2. ArcNet[a] \in Nets
    BY Router2Assumption DEF Routing, Binding, BindPlan
  <2>3. BoundKept(a)
    <3>1. \A v \in Wires : wires[ArcNet[a]][v] # Unbound => wires'[ArcNet[a]][v] = wires[ArcNet[a]][v]
      BY <1>1, <1>2, <2>2
    <3> QED BY <1>2, <1>6, <3>1 DEF BoundKept
  <2> QED BY <1>3, <2>1, <2>3, ArcBoundKept
<1>8. \A m \in Nets, v \in Wires : Meant(m, v) => Meant(m, v)'
  BY <1>3, <1>4, MeantKept
<1>9. PlanMeant'
  <2>1. PlanMeant
    BY DEF RoundOfBinding
  <2>2. to_bind'.root # NoWire => AtSource(net, to_bind.root) /\ Meant(net, to_bind.root)'
    <3>1. to_bind.root \in Wires \cup {NoWire}
      BY DEF Routing, Binding, BindPlan
    <3> QED BY <1>6, <1>8, <2>1, <3>1 DEF PlanMeant
  <2>3. ASSUME NEW q \in to_bind'.pips
        PROVE  /\ q \in Pips
               /\ \E a \in routed : /\ ArcNet[a] = net /\ Checked(a)'
                                    /\ PipDst[q] \in Body(net, ArcSink[a])'
                                    /\ nd_wires'[net][PipDst[q]].pip = q
    <3>1. PICK a \in routed : /\ ArcNet[a] = net /\ Checked(a)
                              /\ PipDst[q] \in Body(net, ArcSink[a])
                              /\ nd_wires[net][PipDst[q]].pip = q
      BY <1>6, <2>1, <2>3 DEF PlanMeant
    <3>2. Body(net, ArcSink[a])' = Body(net, ArcSink[a])
      BY BodyOfBooks
    <3>3. a \in arcs
      BY DEF Routing, Routes
    <3> QED BY <1>4, <1>6, <2>1, <2>3, <3>1, <3>2, <3>3 DEF PlanMeant
  <2>4. /\ to_unbind' = {} /\ (net' # NoNet => net' \notin nets_left')
        /\ arcs_left' \subseteq ArcsOf(net)'
    BY <2>1 DEF PlanMeant, ArcsOf
  <2> QED BY <1>6, <2>2, <2>3, <2>4 DEF PlanMeant, AtSource, IsConst
<1>10. HeldMeant'
  <2> SUFFICES ASSUME NEW m \in Nets \ nets_left', NEW v \in Wires, wires'[m][v] # Unbound
               PROVE  Strong(m, v)' \/ Meant(m, v)'
    BY DEF HeldMeant
  <2>1. CASE m = net /\ v = w
    BY <1>8, <2>1
  <2>2. CASE ~(m = net /\ v = w)
    <3>1. wires'[m][v] = wires[m][v]
      BY <1>1, <2>2
    <3>2. Strong(m, v) \/ Meant(m, v)
      BY <3>1 DEF RoundOfBinding, HeldMeant
    <3> QED BY <1>8, <3>1, <3>2 DEF Strong
  <2> QED BY <2>1, <2>2
<1> QED BY <1>7, <1>9, <1>10 DEF RoundOfBinding

LEMMA BindRootRound ==
    ASSUME Routing, DrivesItsWire, RoundOfBinding, BindRoot PROVE RoundOfBinding'
<1>1. /\ pc = "bind" /\ to_bind.root # NoWire /\ to_bind' = [to_bind EXCEPT !.root = NoWire]
      /\ UNCHANGED <<arcs, nd_wires, routed, failed_nets, nets_left, net, to_unbind, arcs_left>>
      /\ \/ bindWire(to_bind.root, net, STRENGTH_WEAK) /\ pc' = pc
         \/ pc' = "crashed"
  BY DEF BindRoot, bookVars, queueVars
<1>2. CASE pc' = "crashed"
  BY <1>2 DEF RoundOfBinding
<1>3. CASE bindWire(to_bind.root, net, STRENGTH_WEAK) /\ pc' = pc
  <2>1. to_bind # NothingToBind
    BY <1>1 DEF NothingToBind
  <2>2. net \in Nets /\ to_unbind = {} /\ to_bind.root \in Wires
    BY <1>1, <2>1 DEF Routing, Binding, BindPlan
  <2>3. Takes(to_bind.root, NoPip)
    <3>1. \A n \in Nets : wires[n][to_bind.root] = Unbound
      BY <1>3, <2>2, RoutingAssumption
         DEF Routing, Binding, Consistent, RecordedIsBound, bindWire, checkWireAvail
    <3> QED BY <1>3, <2>2, <3>1 DEF Takes, bindWire
  <2>4. Meant(net, to_bind.root)
    BY <1>1 DEF RoundOfBinding, PlanMeant
  <2> QED BY <1>1, <1>3, <2>2, <2>3, <2>4, TakesRound
<1> QED BY <1>1, <1>2, <1>3

LEMMA BindPipRound ==
    ASSUME Routing, DrivesItsWire, RoundOfBinding, NEW p \in Pips, BindPip(p) PROVE RoundOfBinding'
<1>1. /\ pc = "bind" /\ p \in to_bind.pips /\ to_bind' = [to_bind EXCEPT !.pips = @ \ {p}]
      /\ UNCHANGED <<arcs, nd_wires, routed, failed_nets, nets_left, net, to_unbind, arcs_left>>
      /\ \/ bindPip(p, net, STRENGTH_WEAK) /\ pc' = pc
         \/ pc' = "crashed"
  BY DEF BindPip, bookVars, queueVars
<1>2. CASE pc' = "crashed"
  BY <1>2 DEF RoundOfBinding
<1>3. CASE bindPip(p, net, STRENGTH_WEAK) /\ pc' = pc
  <2>1. to_bind # NothingToBind
    BY <1>1 DEF NothingToBind
  <2>2. net \in Nets /\ to_unbind = {} /\ PipDst[p] \in Wires
    BY <1>1, <2>1, RoutingAssumption DEF Routing, Binding, BindPlan
  <2>3. Takes(PipDst[p], p)
    <3>1. \A n \in Nets : wires[n][PipDst[p]] = Unbound
      BY <1>3, <2>2, RoutingAssumption
         DEF Routing, Binding, Consistent, RecordedIsBound, bindPip, checkWireAvail
    <3> QED BY <1>3, <2>2, <3>1 DEF Takes, bindPip
  <2>4. Meant(net, PipDst[p])
    <3>1. PICK a \in routed : /\ ArcNet[a] = net /\ Checked(a)
                              /\ PipDst[p] \in Body(net, ArcSink[a])
      BY <1>1 DEF RoundOfBinding, PlanMeant
    <3>2. a \in arcs /\ PipDst[p] \in Trail(net, ArcSink[a])
      BY <3>1, BodyWire
    <3> QED BY <3>1, <3>2 DEF Meant
  <2> QED BY <1>1, <1>3, <2>2, <2>3, <2>4, TakesRound
<1> QED BY <1>1, <1>2, <1>3

\* A wire with a pip of its net's route can be bound, or is bound with it.
LEMMA PlannedOrHeld ==
    ASSUME Routing, DrivesItsWire, NEW a \in routed, CanBind(a),
           NEW w \in Body(ArcNet[a], ArcSink[a]),
           pip_to_net[nd_wires[ArcNet[a]][w].pip] # NoNet
    PROVE  /\ wires[ArcNet[a]][w] # Unbound
           /\ wires[ArcNet[a]][w].pip = nd_wires[ArcNet[a]][w].pip
<1> DEFINE n == ArcNet[a]
           p == nd_wires[n][w].pip
<1>1. w \in Wires /\ p \in Pips /\ PipDst[p] = w /\ n \in Nets
  BY BodyWire
<1>2. pip_to_net[p] \in Nets
  BY <1>1 DEF Routing, Binding, ArchTypeOK
<1> HIDE DEF p
<1>3. /\ wires[pip_to_net[p]][w] # Unbound /\ wires[pip_to_net[p]][w].pip = p
      /\ switches_locked[Switch[p]] = w
  BY <1>1, <1>2 DEF Routing, Binding, Consistent, PipDrivesItsWire, p
<1>4. wire_to_net[w] = pip_to_net[p]
  BY <1>1, <1>2, <1>3 DEF Routing, Binding, Consistent, RecordedIsBound
<1>5. checkPipAvailForNet(p, n) \/ pip_to_net[p] = n
  BY DEF CanBind, p
<1>6. w # NoWire
  BY <1>1, RoutingAssumption
<1>7. pip_to_net[p] = n
  BY <1>3, <1>4, <1>5, <1>6 DEF checkPipAvailForNet
<1> QED BY <1>3, <1>7 DEF p

LEMMA CheckArcRound ==
    ASSUME ConstantsStart, Routing, Routing', DrivesItsWire, StartsFree, RoundOfBinding,
           NEW a \in Arcs, CheckArc(a)
    PROVE  RoundOfBinding'
<1> DEFINE n == net
           body == Body(n, ArcSink[a])
<1>1. /\ pc = "bind" /\ to_unbind = {} /\ to_bind = NothingToBind
      /\ a \in arcs_left /\ arcs_left' = arcs_left \ {a}
      /\ UNCHANGED <<wires, arcs, nets_left, net, to_unbind>>
  BY DEF CheckArc, archVars
<1>2. net \in Nets /\ ArcNet[a] = net
  BY <1>1, RoutingAssumption DEF Routing, Binding, BindPlan
<1>3. net \notin nets_left
  BY <1>1, <1>2, RoutingAssumption DEF RoundOfBinding, PlanMeant
<1>4. a \in arcs /\ ArcSink[a] \in Wires
  <2>1. ArcSink[a] \in Wires
    BY Router2Assumption
  <2>2. a \in ArcsOf(net)
    BY <1>1 DEF RoundOfBinding, PlanMeant
  <2> QED BY <1>1, <2>1, <2>2 DEF ArcsOf
<1>5. CASE pc' = "crashed"
  BY <1>5 DEF RoundOfBinding
<1>6. \/ pc' = "crashed"
      \/ /\ pc' = "bind"
         /\ UNCHANGED bookVars
         /\ a \notin routed
         /\ to_bind' = IF SourceWire[n] = ArcSink[a] /\ wire_to_net[ArcSink[a]] # n
                      THEN [root |-> ArcSink[a], pips |-> {}] ELSE NothingToBind
      \/ /\ pc' = "bind"
         /\ UNCHANGED bookVars
         /\ a \in routed /\ CanBind(a)
         /\ \E root \in Wires :
               /\ root \in Trail(n, ArcSink[a]) /\ AtSource(n, root)
               /\ to_bind' = [root |-> IF wire_to_net[root] = NoNet THEN root ELSE NoWire,
                              pips |-> {p \in {nd_wires[n][w].pip : w \in body} :
                                          pip_to_net[p] = NoNet}]
      \/ /\ pc' = "bind"
         /\ a \in routed /\ ~CanBind(a) /\ ripup_arc(a)
         /\ to_bind' = NothingToBind
  BY <1>1 DEF CheckArc
<1>7. CASE pc' = "bind"
  <2> DEFINE Good == /\ to_bind'.root # NoWire => AtSource(net, to_bind'.root) /\ Meant(net, to_bind.root)'
                     /\ \A p \in to_bind'.pips :
                          /\ p \in Pips
                          /\ \E b \in routed' : /\ ArcNet[b] = net /\ Checked(b)'
                                                /\ PipDst[p] \in Body(net, ArcSink[b])'
                                                /\ nd_wires'[net][PipDst[p]].pip = p
                     /\ ArcBound(a)'
  <2>1. /\ RoutesKept
        /\ \A b \in arcs : Checked(b) => (b \in routed <=> b \in routed')
        /\ ~Checked(a)
    <3>1. ~Checked(a)
      BY <1>1 DEF Checked
    <3>2. CASE UNCHANGED bookVars
      BY <1>1, <3>1, <3>2, SameBooksKept DEF bookVars
    <3>3. CASE a \in routed /\ ripup_arc(a)
      <4>1. UnbindsRoute(a)
        BY <1>1, <3>3 DEF ripup_arc, UnbindsRoute
      <4>2. routed' = routed \ {a}
        BY <4>1 DEF UnbindsRoute
      <4> QED BY <3>1, <3>3, <4>1, <4>2, UnboundKept
    <3> QED BY <1>6, <1>7, <3>2, <3>3
  <2>2. \A b \in arcs : Checked(b)' <=> (Checked(b) \/ b = a)
    BY <1>1, <1>2, <1>3 DEF Checked
  <2>3. ASSUME NEW b \in arcs, Checked(b) PROVE ArcBound(b)'
    <3>1. ArcBound(b)
      BY <1>1, <2>3 DEF RoundOfBinding
    <3>2. BoundKept(b)
      BY <1>1, <2>1, <2>3 DEF BoundKept, NothingToBind
    <3> QED BY <2>1, <3>1, <3>2, ArcBoundKept
  <2>4. ASSUME NEW m, NEW w, Meant(m, w) PROVE Meant(m, w)'
    <3>1. \A b \in arcs : (ArcNet[b] = m /\ Checked(b)) => Checked(b)' /\ (b \in routed => b \in routed')
      BY <2>1, <2>2
    <3> QED BY <2>1, <2>4, <3>1, MeantKept
  <2>5. a \in arcs' /\ Checked(a)'
    BY <1>1, <1>4, <2>2
  <2>6. ArcSink[a] = SourceWire[net] => AtSource(net, ArcSink[a])
    BY DEF AtSource
  <2>7. ASSUME /\ UNCHANGED bookVars /\ a \notin routed
             /\ to_bind' = IF SourceWire[n] = ArcSink[a] /\ wire_to_net[ArcSink[a]] # n
                          THEN [root |-> ArcSink[a], pips |-> {}] ELSE NothingToBind
        PROVE  Good
    <3>1. a \notin routed' /\ net' = net
      BY <1>1, <2>7 DEF bookVars
    <3>2. wire_to_net[ArcSink[a]] = net => wires[net][ArcSink[a]] # Unbound
      BY <1>2, <1>4, RoutingAssumption DEF Routing, Binding, Consistent, BoundIsRecorded
    <3>3. CASE SourceWire[n] = ArcSink[a] /\ wire_to_net[ArcSink[a]] # n
      <4>1. to_bind'.root = ArcSink[a] /\ to_bind'.pips = {}
        BY <2>7, <3>3
      <4>2. Meant(net, to_bind.root)'
        BY <1>1, <1>2, <2>5, <3>3, <4>1 DEF Meant
      <4>3. ArcBound(a)'
        BY <1>2, <3>1, <4>1 DEF ArcBound
      <4> QED BY <2>6, <3>3, <4>1, <4>2, <4>3
    <3>4. CASE ~(SourceWire[n] = ArcSink[a] /\ wire_to_net[ArcSink[a]] # n)
      <4>1. to_bind'.root = NoWire /\ to_bind'.pips = {}
        BY <2>7, <3>4 DEF NothingToBind
      <4>2. ArcBound(a)'
        BY <1>1, <1>2, <3>1, <3>2, <3>4 DEF ArcBound
      <4> QED BY <4>1, <4>2
    <3> QED BY <3>3, <3>4
  <2>8. ASSUME /\ UNCHANGED bookVars /\ a \in routed /\ CanBind(a)
             /\ \E root \in Wires :
                   /\ root \in Trail(n, ArcSink[a]) /\ AtSource(n, root)
                   /\ to_bind' = [root |-> IF wire_to_net[root] = NoNet THEN root ELSE NoWire,
                                  pips |-> {p \in {nd_wires[n][w].pip : w \in body} :
                                              pip_to_net[p] = NoNet}]
        PROVE  Good
    <3>1. PICK root \in Wires :
             /\ root \in Trail(n, ArcSink[a]) /\ AtSource(n, root)
             /\ to_bind' = [root |-> IF wire_to_net[root] = NoNet THEN root ELSE NoWire,
                            pips |-> {p \in {nd_wires[n][w].pip : w \in body} :
                                        pip_to_net[p] = NoNet}]
      BY <2>8
    <3>2. /\ routed' = routed /\ nd_wires' = nd_wires /\ net' = net /\ a \in routed'
          /\ Body(n, ArcSink[a])' = body /\ Trail(n, ArcSink[a])' = Trail(n, ArcSink[a])
      BY <1>1, <1>2, <2>1, <2>8 DEF bookVars, RoutesKept
    <3>3. /\ to_bind'.root = IF wire_to_net[root] = NoNet THEN root ELSE NoWire
          /\ to_bind'.pips = {p \in {nd_wires[n][w].pip : w \in body} : pip_to_net[p] = NoNet}
      BY <3>1
    <3>4. \A w \in body : /\ w \in Wires /\ nd_wires[n][w].pip \in Pips
                          /\ PipDst[nd_wires[n][w].pip] = w
      BY <1>2, <2>8, BodyWire
    <3> HIDE DEF body
    <3>5. to_bind'.root # NoWire => AtSource(net, to_bind'.root) /\ Meant(net, to_bind.root)'
      <4>1. to_bind'.root # NoWire => to_bind'.root = root
        BY <3>3
      <4>2. to_bind'.root = root => Meant(net, to_bind.root)'
        BY <1>1, <1>2, <2>5, <3>1, <3>2 DEF Meant
      <4> QED BY <3>1, <4>1, <4>2
    <3>6. \A p \in to_bind'.pips :
             /\ p \in Pips
             /\ \E b \in routed' : /\ ArcNet[b] = net /\ Checked(b)'
                                   /\ PipDst[p] \in Body(net, ArcSink[b])'
                                   /\ nd_wires'[net][PipDst[p]].pip = p
      <4> SUFFICES ASSUME NEW p \in to_bind'.pips
                   PROVE  /\ p \in Pips
                          /\ PipDst[p] \in body /\ nd_wires'[net][PipDst[p]].pip = p
        BY <1>1, <1>2, <2>5, <3>2
      <4>1. PICK w \in body : p = nd_wires[n][w].pip
        BY <3>3
      <4> QED BY <3>2, <3>4, <4>1
    <3>7. RouteBound(a)'
      <4>1. ASSUME NEW w \in body
            PROVE  \/ wires'[n][w] # Unbound /\ wires'[n][w].pip = nd_wires'[n][w].pip
                   \/ nd_wires'[n][w].pip \in to_bind'.pips
        <5>1. CASE pip_to_net[nd_wires[n][w].pip] = NoNet
          BY <3>2, <3>3, <5>1
        <5>2. CASE pip_to_net[nd_wires[n][w].pip] # NoNet
          <6>1. wires[n][w] # Unbound /\ wires[n][w].pip = nd_wires[n][w].pip
            BY <1>2, <2>8, <5>2, PlannedOrHeld DEF body
          <6> QED BY <1>1, <3>2, <6>1
        <5> QED BY <5>1, <5>2
      <4>2. wires'[n][root] # Unbound \/ to_bind'.root = root
        <5>1. CASE wire_to_net[root] = NoNet
          BY <3>3, <5>1
        <5>2. CASE wire_to_net[root] # NoNet
          <6>1. wires[wire_to_net[root]][root] # Unbound /\ wire_to_net[root] \in Nets
            BY <5>2 DEF Routing, Binding, Consistent, BoundIsRecorded, ArchTypeOK
          <6>2. wire_to_net[root] = n
            BY <1>2, <1>4, <3>1, <6>1 DEF StartsFree
          <6> QED BY <1>1, <6>1, <6>2
        <5> QED BY <5>1, <5>2
      <4> QED BY <1>1, <1>2, <3>1, <3>2, <4>1, <4>2 DEF RouteBound, AtSource, IsConst
    <3>8. ArcBound(a)'
      BY <3>2, <3>7 DEF ArcBound
    <3> QED BY <3>5, <3>6, <3>8
  <2>9. ASSUME a \in routed /\ ~CanBind(a) /\ ripup_arc(a) /\ to_bind' = NothingToBind
        PROVE  Good
    <3>1. routed' = routed \ {a}
      BY <2>9 DEF ripup_arc
    <3>2. ArcSink[a] # SourceWire[net]
      <4> SUFFICES ASSUME ArcSink[a] = SourceWire[net] PROVE FALSE
        OBVIOUS
      <4>1. AtSource(net, ArcSink[a])
        BY <2>6
      <4>2. nd_wires[net] \in NetBooks
        BY <1>2, NetBooksOf DEF Routing
      <4>3. TrailIn(nd_wires[net], net, ArcSink[a]) \subseteq {ArcSink[a]}
        <5>1. \A w \in {ArcSink[a]} : ~EndsIn(nd_wires[net], net, w) =>
                 PipSrc[nd_wires[net][w].pip] \in {ArcSink[a]}
          BY <4>1 DEF EndsIn
        <5>2. {ArcSink[a]} \in SUBSET Wires
          BY <1>4
        <5> QED BY <1>4, <4>2, <5>1, <5>2, TrailIsClosed
      <4>4. Body(net, ArcSink[a]) = {}
        BY <4>1, <4>3, BodyOfBooks DEF BodyIn
      <4> QED BY <1>2, <2>9, <4>4 DEF CanBind
    <3>3. ArcBound(a)'
      BY <1>2, <3>1, <3>2 DEF ArcBound
    <3> QED BY <2>9, <3>3 DEF NothingToBind
  <2>10. Good
    BY <1>6, <1>7, <2>7, <2>8, <2>9
  <2>11. PlanMeant'
    <3>1. /\ to_unbind' = {} /\ (net' # NoNet => net' \notin nets_left')
          /\ arcs_left' \subseteq ArcsOf(net)'
      BY <1>1, <1>3 DEF RoundOfBinding, PlanMeant, ArcsOf
    <3>2. net' = net
      BY <1>1
    <3> QED BY <2>10, <3>1, <3>2 DEF PlanMeant, AtSource, IsConst
  <2>12. HeldMeant'
    <3> SUFFICES ASSUME NEW m \in Nets \ nets_left', NEW w \in Wires, wires'[m][w] # Unbound
                 PROVE  Strong(m, w)' \/ Meant(m, w)'
      BY DEF HeldMeant
    <3>1. Strong(m, w) \/ Meant(m, w)
      BY <1>1 DEF RoundOfBinding, HeldMeant
    <3>2. Strong(m, w) => Strong(m, w)'
      BY <1>1 DEF Strong
    <3> QED BY <2>4, <3>1, <3>2
  <2>13. \A b \in arcs' : Checked(b)' => ArcBound(b)'
    BY <1>1, <2>2, <2>3, <2>10
  <2> QED BY <1>7, <2>11, <2>12, <2>13 DEF RoundOfBinding
<1> QED BY <1>5, <1>6, <1>7

LEMMA StutterRound ==
    ASSUME Routing, DrivesItsWire, RoundOfBinding, UNCHANGED vars PROVE RoundOfBinding'
<1>1. /\ UNCHANGED <<wires, arcs, nd_wires, routed, failed_nets, pc>>
      /\ UNCHANGED <<nets_left, net, to_unbind, arcs_left, to_bind>>
  BY DEF vars, archVars, bookVars, queueVars, bindVars
<1>2. RoutesKept
  BY <1>1, SameBooksKept
<1>3. \A a \in arcs : Checked(a)' <=> Checked(a)
  BY <1>1 DEF Checked
<1> SUFFICES ASSUME pc \in {"bind", "done"}
             PROVE  PlanMeant' /\ HeldMeant' /\ \A a \in arcs : Checked(a)' => ArcBound(a)'
  BY <1>1 DEF RoundOfBinding
<1>4. PlanMeant /\ HeldMeant /\ \A a \in arcs : Checked(a) => ArcBound(a)
  BY DEF RoundOfBinding
<1>5. \A a \in arcs : Checked(a)' => ArcBound(a)'
  <2> SUFFICES ASSUME NEW a \in arcs, Checked(a) PROVE ArcBound(a)'
    BY <1>3
  <2>1. BoundKept(a)
    BY <1>1, SameBoundKept
  <2>2. ArcBound(a)
    BY <1>4
  <2> QED BY <1>2, <2>1, <2>2, ArcBoundKept
<1>6. \A m \in Nets, w \in Wires : Meant(m, w) => Meant(m, w)'
  BY <1>1, <1>2, <1>3, MeantKept
<1>7. PlanMeant'
  <2>1. to_bind.root # NoWire => AtSource(net, to_bind.root) /\ Meant(net, to_bind.root)'
    <3>1. to_bind.root # NoWire => net \in Nets /\ to_bind.root \in Wires
      BY DEF Routing, Binding, BindPlan, NothingToBind
    <3> QED BY <1>1, <1>4, <1>6, <3>1 DEF PlanMeant
  <2>2. ASSUME NEW q \in to_bind.pips
        PROVE  /\ q \in Pips
               /\ \E a \in routed : /\ ArcNet[a] = net /\ Checked(a)'
                                    /\ PipDst[q] \in Body(net, ArcSink[a])'
                                    /\ nd_wires'[net][PipDst[q]].pip = q
    <3>1. PICK a \in routed : /\ ArcNet[a] = net /\ Checked(a)
                              /\ PipDst[q] \in Body(net, ArcSink[a])
                              /\ nd_wires[net][PipDst[q]].pip = q
      BY <1>4, <2>2 DEF PlanMeant
    <3>2. Body(net, ArcSink[a])' = Body(net, ArcSink[a])
      BY <1>1, BodyOfBooks
    <3>3. a \in arcs
      BY DEF Routing, Routes
    <3> QED BY <1>1, <1>3, <1>4, <2>2, <3>1, <3>2, <3>3 DEF PlanMeant
  <2>3. /\ to_unbind' # {} => arcs_left' = ArcsOf(net)'
        /\ net' # NoNet => net' \notin nets_left'
        /\ arcs_left' \subseteq ArcsOf(net)'
    BY <1>1, <1>4 DEF PlanMeant, ArcsOf
  <2> QED BY <1>1, <2>1, <2>2, <2>3 DEF PlanMeant, AtSource, IsConst
<1>8. HeldMeant'
  <2> SUFFICES ASSUME NEW m \in Nets \ nets_left', NEW w \in Wires, wires'[m][w] # Unbound
               PROVE  Strong(m, w)' \/ (m = net' /\ w \in to_unbind') \/ Meant(m, w)'
    BY DEF HeldMeant
  <2>1. Strong(m, w) => Strong(m, w)'
    BY <1>1 DEF Strong
  <2> QED BY <1>1, <1>4, <1>6, <2>1 DEF HeldMeant
<1> QED BY <1>5, <1>7, <1>8

\* A round of binding begins with nothing bound yet.
LEMMA CongestionRound ==
    ASSUME Routing, RoundOfBinding, UpdateCongestion PROVE RoundOfBinding'
<1>1. /\ pc = "congestion" /\ pc' \in {"crashed", "iterate", "bind"}
      /\ pc' = "bind" => nets_left' = Nets
      /\ UNCHANGED <<arcs, net, to_unbind, arcs_left, to_bind>>
  BY DEF UpdateCongestion
<1>2. net = NoNet
  BY <1>1 DEF RoundOfBinding
<1>3. to_bind = NothingToBind /\ to_unbind = {} /\ arcs_left = {}
  BY <1>2 DEF Routing, Binding, BindPlan
<1>4. PlanMeant'
  BY <1>1, <1>2, <1>3 DEF PlanMeant, NothingToBind
<1>5. pc' = "bind" => HeldMeant'
  BY <1>1 DEF HeldMeant
<1>6. pc' = "bind" => \A a \in arcs' : ~Checked(a)'
  <2>1. \A a \in arcs : ArcNet[a] \in Nets
    BY Router2Assumption DEF Routing, Binding, BindPlan
  <2> QED BY <1>1, <2>1 DEF Checked
<1> QED BY <1>1, <1>2, <1>4, <1>5, <1>6 DEF RoundOfBinding

\* All other steps are outside of it.
LEMMA OutsideRound ==
    ASSUME SetupWires \/ (\E n \in Nets : ReserveWires(n)) \/ ReserveDone \/ DoRoute \/ RouteStep
    PROVE  /\ pc \notin {"bind", "crashed"} /\ pc' \notin {"bind", "done"}
           /\ UNCHANGED <<net, nets_left, to_unbind, arcs_left, to_bind>>
<1>1. CASE SetupWires
  BY <1>1 DEF SetupWires, bindVars
<1>2. CASE (\E n \in Nets : ReserveWires(n)) \/ ReserveDone
  BY <1>2 DEF ReserveWires, ReserveDone, bindVars
<1>3. CASE DoRoute \/ NextStage
  BY <1>3 DEF DoRoute, NextStage, bindVars
<1>4. CASE \E t \in Workers, n \in Nets : TakeNet(t, n)
  BY <1>4 DEF TakeNet, Active, bindVars
<1>5. CASE \E t \in Workers, a \in Arcs : KeepArc(t, a)
  BY <1>5 DEF KeepArc, Active, bindVars
<1>6. CASE \E t \in Workers, a \in Arcs : RipupArc(t, a)
  BY <1>6 DEF RipupArc, Active, bindVars
<1>7. CASE \E t \in Workers, a \in Arcs : RouteArc(t, a)
  BY <1>7 DEF RouteArc, Active, bindVars
<1>8. CASE \E t \in Workers, a \in Arcs : SinkDone(t, a)
  BY <1>8 DEF SinkDone, Active, bindVars
<1>9. CASE \E t \in Workers, a \in Arcs : RouteFails(t, a)
  BY <1>9 DEF RouteFails, Active, bindVars
<1>10. CASE \E t \in Workers : NetDone(t)
  BY <1>10 DEF NetDone, Active, bindVars
<1> QED BY <1>1, <1>2, <1>3, <1>4, <1>5, <1>6, <1>7, <1>8, <1>9, <1>10 DEF RouteStep

LEMMA StepRound ==
    ASSUME ConstantsStart, Routing, Routing', DrivesItsWire, StartsFree, RoundOfBinding, [Next]_vars
    PROVE  RoundOfBinding'
<1>1. CASE BindStep
  BY <1>1, BindNetRound, UnbindRound, CheckArcRound, BindRootRound, BindPipRound,
     NetBoundRound, AllBoundRound DEF BindStep
<1>2. CASE UpdateCongestion
  BY <1>2, CongestionRound
<1>3. CASE UNCHANGED vars
  BY <1>3, StutterRound
<1>4. CASE SetupWires \/ (\E n \in Nets : ReserveWires(n)) \/ ReserveDone \/ DoRoute \/ RouteStep
  BY <1>4, OutsideRound DEF RoundOfBinding
<1>5. CASE Returned
  BY <1>5, StutterRound DEF Returned
<1> QED BY <1>1, <1>2, <1>3, <1>4, <1>5 DEF Next

-----------------------------------------------------------------------------
(* What is bound when the router returns. *)

LEMMA ReachedIsLeast ==
    ASSUME NEW n, Roots(n) \subseteq Wires
    PROVE  /\ Roots(n) \subseteq Reached(n) /\ Reached(n) \subseteq Wires
           /\ \A u \in Reached(n) : Children(n, u) \subseteq Reached(n)
           /\ \A S \in SUBSET Wires :
                 (Roots(n) \subseteq S /\ \A u \in S : Children(n, u) \subseteq S)
                    => Reached(n) \subseteq S
<1>1. \A S \in SUBSET Wires :
         (Roots(n) \subseteq S /\ \A u \in S : Children(n, u) \subseteq S) => Reached(n) \subseteq S
  BY DEF Reached
<1>2. Roots(n) \subseteq Reached(n) /\ Reached(n) \subseteq Wires
  BY DEF Reached
<1>3. ASSUME NEW u \in Reached(n), NEW c \in Children(n, u) PROVE c \in Reached(n)
  <2>1. c \in Wires
    BY DEF Children, HeldBy
  <2>2. \A S \in SUBSET Wires :
           (Roots(n) \subseteq S /\ \A v \in S : Children(n, v) \subseteq S) => c \in S
    BY <1>1
  <2> QED BY <2>1, <2>2 DEF Reached
<1> QED BY <1>1, <1>2, <1>3

\* What is reached and is no root is reached from its parent.
LEMMA ParentReached ==
    ASSUME NEW n, Roots(n) \subseteq Wires, NEW c \in Reached(n), c \notin Roots(n)
    PROVE  PipSrc[wires[n][c].pip] \in Reached(n)
<1> SUFFICES ASSUME PipSrc[wires[n][c].pip] \notin Reached(n) PROVE FALSE
  OBVIOUS
<1> DEFINE S == Reached(n) \ {c}
<1>1. S \in SUBSET Wires /\ Roots(n) \subseteq S
  BY ReachedIsLeast
<1>2. ASSUME NEW u \in S PROVE Children(n, u) \subseteq S
  <2>1. Children(n, u) \subseteq Reached(n)
    BY ReachedIsLeast
  <2>2. c \notin Children(n, u)
    BY DEF Children
  <2> QED BY <2>1, <2>2
<1> HIDE DEF S
<1>3. Reached(n) \subseteq S
  BY <1>1, <1>2, ReachedIsLeast
<1> QED BY <1>3 DEF S

LEMMA HeldStarts ==
    ASSUME HeldRooted, NEW n \in Nets, NEW w \in HeldBy(n)
    PROVE  /\ wires[n][w].pip = NoPip => w \in Roots(n) /\ RouteRoot(n, w)
           /\ wires[n][w].pip # NoPip => w \notin Roots(n) /\ ~AtSource(n, w)
<1>1. w \in Wires /\ wires[n][w] # Unbound
  BY DEF HeldBy
<1>2. CASE wires[n][w].pip = NoPip
  BY <1>1, <1>2 DEF HeldRooted, Roots, RouteRoot
<1>3. CASE wires[n][w].pip # NoPip
  BY <1>1, <1>3 DEF HeldRooted, Roots, AtSource
<1> QED BY <1>2, <1>3

\* Strong wires lead back to a root.
LEMMA StrongReached ==
    ASSUME Routing, HeldRooted, NEW n \in Nets, Roots(n) \subseteq Wires
    PROVE  \A w \in Wires : Strong(n, w) => w \in Reached(n)
<1> DEFINE B == {w \in Wires : Strong(n, w) /\ w \notin Reached(n)}
<1> SUFFICES ASSUME B # {} PROVE FALSE
  OBVIOUS
<1>1. B \in (SUBSET Wires) \ {{}}
  OBVIOUS
<1>2. PICK w \in B : Strong(n, w) => (wires[n][w].pip = NoPip \/ PipSrc[wires[n][w].pip] \notin B)
  <2> HIDE DEF B
  <2> QED BY <1>1 DEF HeldRooted
<1>3. w \in HeldBy(n) /\ Strong(n, w) /\ w \in Wires /\ w \notin Reached(n)
  BY DEF Strong, HeldBy
<1>4. wires[n][w].pip # NoPip
  BY <1>3, HeldStarts, ReachedIsLeast
<1>5. Strong(n, PipSrc[wires[n][w].pip])
  BY <1>3, <1>4 DEF HeldRooted, HeldBy
<1>6. PipSrc[wires[n][w].pip] \in Wires
  <2>1. wires[n][w] \in PipMap
    BY <1>3 DEF Routing, Binding, ArchTypeOK, Strong
  <2> QED BY <1>4, <2>1, Router2Assumption DEF PipMap
<1>7. PipSrc[wires[n][w].pip] \in Reached(n)
  BY <1>2, <1>3, <1>4, <1>5, <1>6
<1>8. w \in Children(n, PipSrc[wires[n][w].pip])
  BY <1>3, <1>4 DEF Children
<1> QED BY <1>3, <1>7, <1>8, ReachedIsLeast

\* So does a route that is bound.
LEMMA RouteReached ==
    ASSUME Routing, HeldRooted, DrivesItsWire, NEW a \in routed, Roots(ArcNet[a]) \subseteq Wires,
           \A w \in Body(ArcNet[a], ArcSink[a]) :
               /\ wires[ArcNet[a]][w] # Unbound
               /\ wires[ArcNet[a]][w].pip = nd_wires[ArcNet[a]][w].pip,
           NEW root \in Trail(ArcNet[a], ArcSink[a]), AtSource(ArcNet[a], root),
           wires[ArcNet[a]][root] # Unbound
    PROVE  Trail(ArcNet[a], ArcSink[a]) \subseteq Reached(ArcNet[a])
<1> DEFINE n == ArcNet[a]
           d == ArcSink[a]
           b == nd_wires[n]
           T == TrailIn(b, n, d)
<1>1. n \in Nets /\ d \in Wires /\ b \in NetBooks /\ Trail(n, d) = T
  <2>1. n \in Nets /\ d \in Wires
    BY BodyWire
  <2> QED BY <2>1, NetBooksOf, TrailOfBooks DEF Routing
<1>2. \A w \in T : ~EndsIn(b, n, w) =>
         /\ w \in Wires /\ w \in HeldBy(n) /\ b[w].pip \in Pips
         /\ wires[n][w].pip = b[w].pip /\ PipSrc[b[w].pip] \in T
  <2> SUFFICES ASSUME NEW w \in T, ~EndsIn(b, n, w)
               PROVE  /\ w \in Wires /\ w \in HeldBy(n) /\ b[w].pip \in Pips
                      /\ wires[n][w].pip = b[w].pip /\ PipSrc[b[w].pip] \in T
    OBVIOUS
  <2>1. w \in Body(n, d)
    BY <1>1 DEF EndsIn, Body
  <2>2. w \in Wires /\ b[w].pip \in Pips
    BY <2>1, BodyWire
  <2>3. PipSrc[b[w].pip] \in T
    BY <1>1, TrailIsClosed
  <2> QED BY <2>1, <2>2, <2>3 DEF HeldBy
<1>3. root \in T /\ root \in Wires /\ T \subseteq Wires
  BY <1>1, TrailIsClosed
<1>4. root \in Reached(n)
  <2>1. root \in HeldBy(n)
    BY <1>3 DEF HeldBy
  <2>2. root \in Roots(n)
    BY <1>1, <2>1, HeldStarts
  <2> QED BY <2>2, ReachedIsLeast
<1> HIDE DEF n, d, b
<1>5. Roots(n) \subseteq Wires
  BY DEF n
<1>6. d \in Reached(n)
  <2> SUFFICES ASSUME d \notin Reached(n) PROVE FALSE
    OBVIOUS
  <2> DEFINE B == T \ Reached(n)
  <2>1. B \in SUBSET Wires /\ d \in B
    BY <1>1, <1>3, TrailIsClosed
  <2>2. ASSUME NEW w \in B, ~EndsIn(b, n, w) PROVE PipSrc[b[w].pip] \in B
    <3>1. w \in HeldBy(n) /\ wires[n][w].pip = b[w].pip /\ b[w].pip \in Pips /\ PipSrc[b[w].pip] \in T
      BY <1>2, <2>2
    <3>2. w \in Children(n, PipSrc[b[w].pip])
      BY <3>1, RoutingAssumption DEF Children
    <3>3. PipSrc[b[w].pip] \notin Reached(n)
      BY <1>5, <3>2, ReachedIsLeast
    <3> QED BY <3>1, <3>3
  <2> HIDE DEF B
  <2>3. T \subseteq B
    BY <1>1, <2>1, <2>2, TrailIsClosed
  <2> QED BY <1>3, <1>4, <2>3 DEF B
<1>7. T \subseteq Reached(n)
  <2> DEFINE R == T \cap Reached(n)
  <2>1. R \in SUBSET Wires /\ d \in R
    BY <1>1, <1>3, <1>6, TrailIsClosed
  <2>2. ASSUME NEW w \in R, ~EndsIn(b, n, w) PROVE PipSrc[b[w].pip] \in R
    <3>1. w \in HeldBy(n) /\ wires[n][w].pip = b[w].pip /\ b[w].pip \in Pips /\ PipSrc[b[w].pip] \in T
      BY <1>2, <2>2
    <3>2. w \notin Roots(n)
      BY <1>1, <3>1, HeldStarts, RoutingAssumption
    <3>3. PipSrc[b[w].pip] \in Reached(n)
      BY <1>5, <3>1, <3>2, ParentReached
    <3> QED BY <3>1, <3>3
  <2> HIDE DEF R
  <2>3. T \subseteq R
    BY <1>1, <2>1, <2>2, TrailIsClosed
  <2> QED BY <2>3 DEF R
<1> QED BY <1>1, <1>7 DEF n, d

\* At the end every arc has been looked at, and nothing is left to bind.
LEMMA DoneBound ==
    ASSUME Routing, RoundOfBinding, pc = "done"
    PROVE  /\ \A a \in routed :
                 /\ \A w \in Body(ArcNet[a], ArcSink[a]) :
                       /\ wires[ArcNet[a]][w] # Unbound
                       /\ wires[ArcNet[a]][w].pip = nd_wires[ArcNet[a]][w].pip
                 /\ \E root \in Trail(ArcNet[a], ArcSink[a]) :
                       AtSource(ArcNet[a], root) /\ wires[ArcNet[a]][root] # Unbound
           /\ \A a \in arcs \ routed :
                 ArcSink[a] = SourceWire[ArcNet[a]] => wires[ArcNet[a]][ArcSink[a]] # Unbound
           /\ \A n \in Nets, w \in Wires : wires[n][w] # Unbound =>
                 \/ Strong(n, w)
                 \/ \E a \in arcs : /\ ArcNet[a] = n
                                    /\ \/ a \in routed /\ w \in Trail(n, ArcSink[a])
                                       \/ w = ArcSink[a] /\ w = SourceWire[n]
<1>1. net = NoNet /\ nets_left = {}
  BY DEF RoundOfBinding
<1>2. to_bind = NothingToBind /\ to_unbind = {} /\ arcs_left = {}
  BY <1>1 DEF Routing, Binding, BindPlan
<1>3. \A a \in arcs : Checked(a)
  BY <1>1, <1>2 DEF Checked
<1>4. \A a \in arcs : a \in Arcs /\ ArcNet[a] \in Nets /\ ArcNet[a] # net
  BY <1>1, Router2Assumption, RoutingAssumption DEF Routing, Binding, BindPlan
<1>5. \A a \in arcs : ArcBound(a)
  BY <1>3 DEF RoundOfBinding
<1>6. \A a \in routed : a \in arcs /\ RouteBound(a)
  BY <1>5 DEF ArcBound, Routing, Routes
<1>7. \A a \in routed :
         /\ \A w \in Body(ArcNet[a], ArcSink[a]) :
               /\ wires[ArcNet[a]][w] # Unbound
               /\ wires[ArcNet[a]][w].pip = nd_wires[ArcNet[a]][w].pip
         /\ \E root \in Trail(ArcNet[a], ArcSink[a]) :
               AtSource(ArcNet[a], root) /\ wires[ArcNet[a]][root] # Unbound
  BY <1>4, <1>6 DEF RouteBound
<1>8. \A a \in arcs \ routed :
         ArcSink[a] = SourceWire[ArcNet[a]] => wires[ArcNet[a]][ArcSink[a]] # Unbound
  BY <1>4, <1>5 DEF ArcBound
<1>9. \A n \in Nets, w \in Wires : wires[n][w] # Unbound => Strong(n, w) \/ Meant(n, w)
  BY <1>1, <1>2 DEF RoundOfBinding, HeldMeant
<1> QED BY <1>7, <1>8, <1>9 DEF Meant

\* A net with strong wires has one where it may start.
LEMMA StrongStarts ==
    ASSUME Routing, HeldRooted, NEW n \in Nets, NEW w \in Wires, Strong(n, w)
    PROVE  \E v \in HeldBy(n) : RouteRoot(n, v)
<1> DEFINE W == {v \in Wires : Strong(n, v)}
<1>1. W \in (SUBSET Wires) \ {{}}
  OBVIOUS
<1> HIDE DEF W
<1>2. PICK v \in W : Strong(n, v) => (wires[n][v].pip = NoPip \/ PipSrc[wires[n][v].pip] \notin W)
  BY <1>1 DEF HeldRooted
<1>3. v \in Wires /\ Strong(n, v) /\ v \in HeldBy(n)
  BY DEF W, Strong, HeldBy
<1>4. CASE wires[n][v].pip = NoPip
  BY <1>3, <1>4, HeldStarts
<1>5. CASE wires[n][v].pip # NoPip
  <2>1. Strong(n, PipSrc[wires[n][v].pip])
    BY <1>3, <1>5 DEF HeldRooted, HeldBy
  <2>2. wires[n][v] \in PipMap
    BY <1>3 DEF Routing, Binding, ArchTypeOK, Strong
  <2>3. PipSrc[wires[n][v].pip] \in Wires
    BY <1>5, <2>2, Router2Assumption DEF PipMap
  <2> QED BY <1>2, <1>3, <1>5, <2>1, <2>3 DEF W
<1> QED BY <1>4, <1>5

\* A net without a start holds nothing.
LEMMA NoStartNothingHeld ==
    ASSUME Routing, HeldRooted, RoundOfBinding, pc = "done", NEW n \in Nets,
           ~IsConst(n), SourceWire[n] = NoWire
    PROVE  HeldBy(n) = {}
<1> SUFFICES ASSUME NEW w \in HeldBy(n) PROVE FALSE
  OBVIOUS
<1>1. \A v \in Wires : ~AtSource(n, v) /\ ~RouteRoot(n, v)
  BY RoutingAssumption DEF AtSource, RouteRoot
<1>2. w \in Wires /\ wires[n][w] # Unbound
  BY DEF HeldBy
<1>3. \A v \in Wires : ~Strong(n, v)
  BY <1>1, StrongStarts DEF HeldBy
<1>4. PICK a \in arcs : ArcNet[a] = n /\ (a \in routed \/ w = SourceWire[n])
  BY <1>2, <1>3, DoneBound
<1>5. a \in routed
  BY <1>2, <1>4, RoutingAssumption
<1>6. PICK root \in Trail(n, ArcSink[a]) : AtSource(n, root)
  BY <1>4, <1>5, DoneBound
<1>7. root \in Wires
  <2>1. ArcSink[a] \in Wires /\ nd_wires[n] \in NetBooks
    BY NetBooksOf, Router2Assumption DEF Routing, Binding, BindPlan
  <2> QED BY <1>6, <2>1, TrailIsClosed, TrailOfBooks
<1> QED BY <1>1, <1>6, <1>7

\* A net that has a start and an arc, or holds something, has its start bound.
LEMMA StartHeld ==
    ASSUME Routing, HeldRooted, DrivesItsWire, NetsCovered, RoundOfBinding, pc = "done",
           NEW n \in Nets, ~IsConst(n), SourceWire[n] # NoWire,
           ArcsOf(n) # {} \/ HeldBy(n) # {}
    PROVE  SourceWire[n] \in HeldBy(n)
<1>0. SourceWire[n] \in Wires
  BY Router2Assumption
<1>1. \A v \in Wires : AtSource(n, v) <=> v = SourceWire[n]
  BY DEF AtSource
<1>2. ASSUME NEW a \in routed, ArcNet[a] = n PROVE SourceWire[n] \in HeldBy(n)
  <2>1. PICK root \in Trail(n, ArcSink[a]) : AtSource(n, root) /\ wires[n][root] # Unbound
    BY <1>2, DoneBound
  <2>2. root \in Wires
    BY <1>2, <2>1, BodyWire
  <2> QED BY <1>1, <2>1, <2>2 DEF HeldBy
<1>3. ASSUME NEW a \in arcs, ArcNet[a] = n PROVE SourceWire[n] \in HeldBy(n)
  <2>1. ArcServed(a)
    BY <1>3 DEF NetsCovered, NetServed, ArcsOf, Driven
  <2>2. CASE SinkRouted(n, ArcSink[a])
    BY <1>2, <2>2 DEF SinkRouted
  <2>3. CASE ArcSink[a] = SourceWire[n] /\ a \notin routed
    BY <1>0, <1>3, <2>3, DoneBound DEF HeldBy
  <2> QED BY <1>2, <1>3, <2>1, <2>2, <2>3 DEF ArcServed
<1>4. CASE ArcsOf(n) # {}
  BY <1>3, <1>4 DEF ArcsOf
<1>5. CASE ArcsOf(n) = {} /\ HeldBy(n) # {}
  <2>1. PICK w \in HeldBy(n) : TRUE
    BY <1>5
  <2>2. Strong(n, w) /\ w \in Wires
    BY <1>5, DoneBound DEF HeldBy, ArcsOf
  <2>3. PICK v \in HeldBy(n) : RouteRoot(n, v)
    BY <2>2, StrongStarts
  <2> QED BY <2>3 DEF RouteRoot
<1> QED BY <1>4, <1>5

\* A net with a start is bound from it to its sinks and nowhere else, if nothing of
\* it that is strong is less than locked.
LEMMA StartedIsRouted ==
    ASSUME ConstantsStart, Routing, HeldRooted, DrivesItsWire, NetsCovered, RoundOfBinding,
           pc = "done", NEW n \in Nets, ArcsOf(n) # {} \/ HeldBy(n) # {},
           IsConst(n) \/ SourceWire[n] # NoWire, ArcsOf(n) # {} => SourceWire[n] # NoWire,
           \A w \in HeldBy(n) : Strong(n, w) => wires[n][w].strength >= STRENGTH_LOCKED
    PROVE  NetRouted(n, Sinks(n))
<1>1. ~IsConst(n) => SourceWire[n] \in HeldBy(n)
  BY StartHeld
<1>2. Roots(n) \subseteq HeldBy(n) /\ HeldBy(n) \subseteq Wires /\ Roots(n) \subseteq Wires
  BY <1>1 DEF Roots, HeldBy
<1>3. Reached(n) \subseteq HeldBy(n)
  <2>1. HeldBy(n) \in SUBSET Wires /\ \A u \in HeldBy(n) : Children(n, u) \subseteq HeldBy(n)
    BY DEF HeldBy, Children
  <2> QED BY <1>2, <2>1, ReachedIsLeast
<1>4. \A a \in arcs : a \in Arcs /\ ArcNet[a] \in Nets /\ ArcSink[a] \in Wires
  BY Router2Assumption DEF Routing, Binding, BindPlan
<1>5. ASSUME NEW a \in routed, ArcNet[a] = n
      PROVE  /\ Trail(n, ArcSink[a]) \subseteq Reached(n)
             /\ ArcSink[a] \in Trail(n, ArcSink[a])
  <2>1. /\ \A w \in Body(n, ArcSink[a]) :
              wires[n][w] # Unbound /\ wires[n][w].pip = nd_wires[n][w].pip
        /\ \E root \in Trail(n, ArcSink[a]) : AtSource(n, root) /\ wires[n][root] # Unbound
    BY <1>5, DoneBound
  <2>2. Trail(n, ArcSink[a]) \subseteq Reached(n)
    BY <1>2, <1>5, <2>1, RouteReached
  <2>3. ArcSink[a] \in Wires /\ nd_wires[n] \in NetBooks
    BY <1>5, BodyWire, NetBooksOf DEF Routing
  <2> QED BY <2>2, <2>3, TrailIsClosed, TrailOfBooks
<1>6. HeldBy(n) \subseteq Reached(n)
  <2> SUFFICES ASSUME NEW w \in HeldBy(n) PROVE w \in Reached(n)
    OBVIOUS
  <2>1. w \in Wires /\ wires[n][w] # Unbound
    BY DEF HeldBy
  <2>2. CASE Strong(n, w)
    BY <1>2, <2>1, <2>2, StrongReached
  <2>3. CASE \E a \in arcs : ArcNet[a] = n /\ a \in routed /\ w \in Trail(n, ArcSink[a])
    BY <1>5, <2>3
  <2>4. CASE w = SourceWire[n]
    <3>1. AtSource(n, w)
      BY <2>4 DEF AtSource
    <3>2. w \in Roots(n)
      BY <3>1, HeldStarts
    <3> QED BY <1>2, <3>2, ReachedIsLeast
  <2> QED BY <2>1, <2>2, <2>3, <2>4, DoneBound
<1>7. Sinks(n) = {} => \A w \in HeldBy(n) : wires[n][w].strength >= STRENGTH_LOCKED
  <2> SUFFICES ASSUME Sinks(n) = {}, NEW w \in HeldBy(n) PROVE Strong(n, w)
    OBVIOUS
  <2>1. \A a \in arcs : ArcNet[a] # n
    BY DEF Sinks, ArcsOf
  <2> QED BY <2>1, DoneBound DEF HeldBy
<1>8. Sinks(n) \subseteq HeldBy(n)
  <2> SUFFICES ASSUME NEW a \in arcs, ArcNet[a] = n PROVE ArcSink[a] \in HeldBy(n)
    BY DEF Sinks, ArcsOf
  <2>1. ArcServed(a)
    BY DEF NetsCovered, NetServed, ArcsOf, Driven
  <2>2. CASE SinkRouted(n, ArcSink[a])
    <3>1. PICK b \in routed : ArcNet[b] = n /\ ArcSink[b] = ArcSink[a]
      BY <2>2 DEF SinkRouted
    <3> QED BY <1>3, <1>5, <3>1
  <2>3. CASE ArcSink[a] = SourceWire[n]
    <3>1. ~IsConst(n)
      BY <1>4, <2>3, SinkAtSource DEF AtSource
    <3> QED BY <1>1, <2>3, <3>1
  <2> QED BY <2>1, <2>2, <2>3 DEF ArcServed
<1>9. \A u \in Reached(n) : Children(n, u) \cap Roots(n) = {}
  <2> SUFFICES ASSUME NEW u, NEW c \in Children(n, u) PROVE c \notin Roots(n)
    OBVIOUS
  <2>1. c \in HeldBy(n) /\ wires[n][c].pip # NoPip
    BY DEF Children
  <2> QED BY <2>1, HeldStarts
<1>10. \A u \in Reached(n) : \/ Children(n, u) # {}
                             \/ u \in Sinks(n)
                             \/ u \in HeldBy(n) /\ wires[n][u].strength >= STRENGTH_LOCKED
  <2> SUFFICES ASSUME NEW u \in HeldBy(n), ~Strong(n, u) PROVE Children(n, u) # {} \/ u \in Sinks(n)
    BY <1>3
  <2>1. u \in Wires /\ wires[n][u] # Unbound
    BY DEF HeldBy
  <2>2. PICK a \in arcs : /\ ArcNet[a] = n
                          /\ \/ a \in routed /\ u \in Trail(n, ArcSink[a])
                             \/ u = ArcSink[a]
    BY <2>1, DoneBound
  <2>3. ArcSink[a] \in Sinks(n)
    BY <2>2 DEF Sinks, ArcsOf
  <2>4. CASE a \in routed /\ u \in Trail(n, ArcSink[a]) /\ u # ArcSink[a]
    <3> DEFINE b == nd_wires[n]
    <3>1. ArcSink[a] \in Wires /\ b \in NetBooks
      BY <1>4, NetBooksOf DEF Routing
    <3> HIDE DEF b
    <3>2. PICK v \in TrailIn(b, n, ArcSink[a]) : ~EndsIn(b, n, v) /\ PipSrc[b[v].pip] = u
      <4>1. u \in TrailIn(b, n, ArcSink[a])
        BY <2>4, TrailOfBooks DEF b
      <4> QED BY <2>4, <3>1, <4>1, TrailStep
    <3>3. v \in Body(n, ArcSink[a])
      BY <3>2, BodyOfBooks DEF BodyIn, EndsIn, b
    <3>4. v \in Wires /\ wires[n][v] # Unbound /\ wires[n][v].pip = b[v].pip /\ b[v].pip \in Pips
      BY <2>2, <2>4, <3>3, BodyWire, DoneBound DEF b
    <3>5. v \in Children(n, u)
      BY <3>2, <3>4, RoutingAssumption DEF Children, HeldBy
    <3> QED BY <3>5
  <2> QED BY <2>2, <2>3, <2>4
<1>11. {w \in Wires : Children(n, w) # {}} \subseteq Reached(n)
  <2> SUFFICES ASSUME NEW w \in Wires, NEW c \in Children(n, w) PROVE w \in Reached(n)
    OBVIOUS
  <2>1. c \in HeldBy(n) /\ wires[n][c].pip # NoPip /\ PipSrc[wires[n][c].pip] = w
    BY DEF Children
  <2>2. c \notin Roots(n) /\ c \in Reached(n)
    BY <1>6, <2>1, HeldStarts
  <2> QED BY <1>2, <2>1, <2>2, ParentReached
<1>12. HeldBy(n) \cup {w \in Wires : Children(n, w) # {}} \subseteq Reached(n)
  BY <1>6, <1>11
<1> QED BY <1>1, <1>7, <1>8, <1>9, <1>10, <1>12 DEF NetRouted

LEMMA DoneMeaning ==
    ASSUME ConstantsStart, ConstantsDriven, Routing, HeldRooted, DrivesItsWire, NetsCovered,
           RoundOfBinding
    PROVE  DoneMeansRouted
<1> SUFFICES ASSUME pc = "done", NEW n \in Nets,
                    \A w \in HeldBy(n) : ~(/\ wires[n][w].strength > STRENGTH_STRONG
                                           /\ wires[n][w].strength < STRENGTH_LOCKED)
             PROVE  NetRouted(n, Sinks(n))
  BY DEF DoneMeansRouted, checkRoutedDesign
<1>1. \A w \in HeldBy(n) : Strong(n, w) => wires[n][w].strength >= STRENGTH_LOCKED
  <2> SUFFICES ASSUME NEW w \in HeldBy(n), Strong(n, w)
               PROVE  wires[n][w].strength >= STRENGTH_LOCKED
    OBVIOUS
  <2>1. wires[n][w] \in PipMap
    BY DEF Routing, Binding, ArchTypeOK, HeldBy
  <2>2. wires[n][w].strength \in Nat
    BY <2>1, Router2Assumption DEF PipMap
  <2> QED BY <2>2 DEF Strong, STRENGTH_STRONG, STRENGTH_LOCKED
<1>2. CASE ~IsConst(n) /\ SourceWire[n] = NoWire
  BY <1>2, NoStartNothingHeld DEF NetRouted
<1>3. CASE ArcsOf(n) = {} /\ HeldBy(n) = {}
  BY <1>3 DEF NetRouted, Sinks
<1>4. CASE /\ IsConst(n) \/ SourceWire[n] # NoWire
           /\ ArcsOf(n) # {} \/ HeldBy(n) # {}
  <2>1. ArcsOf(n) # {} => SourceWire[n] # NoWire
    <3>1. \A a \in ArcsOf(n) : a \in Arcs /\ ArcNet[a] = n
      BY DEF ArcsOf, Routing, Binding, BindPlan
    <3> QED BY <1>4, <3>1 DEF ConstantsDriven
  <2> QED BY <1>1, <1>4, <2>1, StartedIsRouted
<1> QED BY <1>2, <1>3, <1>4

\* What DoneMeansRouted needs to be inductive.
Finishing ==
    /\ Routing /\ DrivesItsWire
    /\ SetupRooted /\ SinksServed
    /\ NetsCovered /\ JobsCovered
    /\ HeldRooted /\ StartsFree /\ RoundOfBinding

LEMMA InitFinishing ==
    ASSUME \A d \in Designs : WellRooted(d.routing) /\ OwnStarts(d), Init
    PROVE  Finishing
BY InitRoutingState, InitServed, InitCovered, InitRound DEF Finishing

LEMMA StepFinishing ==
    ASSUME ConstantsStart, SinksEnd, Finishing, [Next]_vars PROVE Finishing'
<1> USE DEF Finishing
<1>1. Routing'
  BY StepRoutingState
<1>2. Books'
  BY <1>1 DEF Routing
<1>3. DrivesItsWire'
  BY <1>2, StepDrives
<1>4. SetupRooted' /\ SinksServed'
  BY <1>1, StepServed
<1>5. NetsCovered' /\ JobsCovered'
  BY <1>1, StepCovered
<1>6. HeldRooted' /\ StartsFree'
  BY StepHeldRooted, StepStarts
<1>7. RoundOfBinding'
  BY <1>1, StepRound
<1> QED BY <1>1, <1>3, <1>4, <1>5, <1>6, <1>7

\* When the router returns, checkRoutedDesign would find every net routed, but for
\* nets with wires bound more strongly than the router releases and less than the
\* check excuses: for every device, netlist and order of the steps, provided that no
\* pip leaves a sink, that nets do not meet where they start, and that the routing
\* given leads back to those starts.
THEOREM DoneIsRouted ==
    ASSUME ConstantsStart, ConstantsDriven, SinksEnd,
           \A d \in Designs : WellRooted(d.routing) /\ OwnStarts(d)
    PROVE  Spec => []DoneMeansRouted
<1>1. Init => Finishing
  BY InitFinishing
<1>2. Finishing /\ [Next]_vars => Finishing'
  BY StepFinishing
<1>3. Finishing => DoneMeansRouted
  BY DoneMeaning DEF Finishing
<1> QED BY <1>1, <1>2, <1>3, PTL DEF Spec

-----------------------------------------------------------------------------
(* No assertion fails. *)

\* A route leads to where its net starts.
Grounded ==
    pc # "setup" =>
        \A a \in routed : \E root \in Trail(ArcNet[a], ArcSink[a]) : AtSource(ArcNet[a], root)

\* What the books have without a pip is where the net starts.
BooksBare ==
    \A n \in Nets, w \in Wires :
        (nd_wires[n][w] # Unbound /\ nd_wires[n][w].pip = NoPip) => AtSource(n, w)

\* The pips of a route have switches of their own.
BodySwitches ==
    /\ pc = "setup" =>
          \A n \in Nets, v, w \in Wires :
              (/\ nd_wires[n][v] # Unbound /\ nd_wires[n][v].pip # NoPip
               /\ nd_wires[n][w] # Unbound /\ nd_wires[n][w].pip # NoPip
               /\ Switch[nd_wires[n][v].pip] = Switch[nd_wires[n][w].pip]) => v = w
    /\ pc # "setup" =>
          \A a \in routed : \A v, w \in Body(ArcNet[a], ArcSink[a]) :
              Switch[nd_wires[ArcNet[a]][v].pip] = Switch[nd_wires[ArcNet[a]][w].pip] => v = w

\* What a route's hops are.
LEMMA HopOfPath ==
    ASSUME NEW d, NEW path, LeadsTo(path, d), NEW i \in 1..Len(path)
    PROVE  (CHOOSE p \in {path[j] : j \in 1..Len(path)} : PipDst[p] = PipDst[path[i]]) = path[i]
<1> DEFINE q == CHOOSE p \in {path[j] : j \in 1..Len(path)} : PipDst[p] = PipDst[path[i]]
<1>1. q \in {path[j] : j \in 1..Len(path)} /\ PipDst[q] = PipDst[path[i]]
  OBVIOUS
<1>2. PICK j \in 1..Len(path) : q = path[j]
  BY <1>1
<1>3. j = i
  BY <1>1, <1>2 DEF LeadsTo
<1> QED BY <1>2, <1>3

\* A route meets no wire where its net starts before its end.
LEMMA HopsStartNot ==
    ASSUME ConstantsStart, NEW a \in Arcs, NEW path, LeadsTo(path, ArcSink[a]),
           RouteRoot(ArcNet[a], PipSrc[path[Len(path)]]),
           \A i \in 1..(Len(path) - 1) : ~RouteRoot(ArcNet[a], PipSrc[path[i]]),
           NEW i \in 1..Len(path)
    PROVE  ~AtSource(ArcNet[a], PipDst[path[i]])
<1> SUFFICES ASSUME AtSource(ArcNet[a], PipDst[path[i]]) PROVE FALSE
  OBVIOUS
<1>1. PipDst[path[i]] \in Wires /\ Len(path) \in Nat
  BY PathWires, RoutingAssumption
<1>2. RouteRoot(ArcNet[a], PipDst[path[i]])
  BY <1>1, StartIsRoot
<1>3. CASE i = 1
  <2>1. PipDst[path[i]] = ArcSink[a]
    BY <1>3 DEF LeadsTo
  <2>2. ~IsConst(ArcNet[a]) /\ ArcSink[a] = SourceWire[ArcNet[a]]
    BY <2>1, SinkAtSource
  <2> QED BY <2>1, <2>2 DEF RouteRoot, LeadsTo
<1>4. CASE i # 1
  <2>1. i - 1 \in 1..(Len(path) - 1) /\ (i - 1) + 1 = i
    BY <1>1, <1>4
  <2>2. PipDst[path[(i - 1) + 1]] = PipSrc[path[i - 1]]
    BY <2>1 DEF LeadsTo
  <2> QED BY <1>2, <2>1, <2>2
<1> QED BY <1>3, <1>4

LEMMA RouteAtSource ==
    ASSUME NEW n, NEW w, RouteRoot(n, w) PROVE AtSource(n, w)
BY DEF RouteRoot, AtSource

LEMMA SetupGrounds ==
    ASSUME Routing, Routing', SetupRooted, SetupWires PROVE Grounded'
<1>1. pc = "setup" /\ routed' = {a \in arcs : check_arc_routing(a)} /\ arcs' = arcs
  BY DEF SetupWires
<1>2. /\ \A n \in Nets, d \in Wires : Body(n, d)' = Body(n, d)
      /\ \A n \in Nets, w \in Wires : nd_wires[n][w] # Unbound =>
            nd_wires'[n][w].pip = nd_wires[n][w].pip
  BY SetupKeepsRoutes DEF Routing, Binding, BindPlan
<1>3. ASSUME NEW a \in routed'
      PROVE  \E root \in Trail(ArcNet[a], ArcSink[a])' : AtSource(ArcNet[a], root)
  <2> DEFINE n == ArcNet[a]
             d == ArcSink[a]
  <2>1. n \in Nets /\ d \in Wires
    BY <1>1, Router2Assumption DEF Routing, Binding, BindPlan
  <2>2. nd_wires[n] \in NetBooks /\ nd_wires'[n] \in NetBooks
    BY <2>1 DEF Routing, Books, NetBooks
  <2>3. CompleteIn(nd_wires[n], n, d)
    BY <1>1, BodyOfBooks DEF check_arc_routing
  <2>4. CompleteIn(nd_wires'[n], n, d)
    BY BodyOfBooks DEF Routing, Routes, RoutesComplete
  <2>5. BodyIn(nd_wires'[n], n, d) = BodyIn(nd_wires[n], n, d)
    BY <1>2, <2>1, BodyOfBooks
  <2>6. TrailIn(nd_wires[n], n, d) \subseteq Wires /\ d \in TrailIn(nd_wires[n], n, d)
    BY <2>1, <2>2, TrailIsClosed
  <2>7. ASSUME NEW w \in BodyIn(nd_wires[n], n, d)
        PROVE  /\ nd_wires'[n][w] # Unbound /\ nd_wires'[n][w].pip = nd_wires[n][w].pip
               /\ nd_wires[n][w] # Unbound /\ nd_wires[n][w].pip # NoPip
               /\ w \in TrailIn(nd_wires[n], n, d)
    <3>1. ~EndsIn(nd_wires[n], n, w) /\ ~EndsIn(nd_wires'[n], n, w)
      BY <2>3, <2>4, <2>5 DEF CompleteIn
    <3>2. w \in Wires /\ w \in TrailIn(nd_wires[n], n, d)
      BY <2>6 DEF BodyIn
    <3> QED BY <1>2, <2>1, <3>1, <3>2 DEF EndsIn
  <2> HIDE DEF n, d
  <2>8. TrailIn(nd_wires'[n], n, d) = TrailIn(nd_wires[n], n, d)
    BY <2>1, <2>2, <2>3, <2>7, TrailStays
  <2> DEFINE W == TrailIn(nd_wires[n], n, d)
  <2>9. W \in (SUBSET Wires) \ {{}}
    BY <2>6
  <2>10. PICK w \in W : nd_wires[n][w] # Unbound =>
                (nd_wires[n][w].pip = NoPip \/ PipSrc[nd_wires[n][w].pip] \notin W)
    BY <1>1, <2>1, <2>9 DEF SetupRooted
  <2>11. AtSource(n, w)
    <3> SUFFICES ASSUME ~AtSource(n, w) PROVE FALSE
      OBVIOUS
    <3>1. w \in BodyIn(nd_wires[n], n, d)
      BY DEF BodyIn
    <3>2. ~EndsIn(nd_wires[n], n, w)
      BY <2>3, <3>1 DEF CompleteIn
    <3>3. PipSrc[nd_wires[n][w].pip] \in W
      BY <2>1, <2>2, <3>2, TrailIsClosed
    <3> QED BY <2>7, <2>10, <3>1, <3>3
  <2> QED BY <2>8, <2>11, TrailOfBooks DEF n, d
<1> QED BY <1>3 DEF Grounded

\* The pip of a routed arc for a wire of its route.
LEMMA RoutedHop ==
    ASSUME NEW a, NEW path, NEW hops, ArcRouted(a, path, hops), NEW i \in 1..Len(path)
    PROVE  PipDst[path[i]] \in DOMAIN hops /\ hops[PipDst[path[i]]] = path[i]
<1> DEFINE w == PipDst[path[i]]
<1>1. /\ LeadsTo(path, ArcSink[a])
      /\ hops = [v \in {PipDst[path[j]] : j \in 1..Len(path)} |->
                   CHOOSE p \in {path[j] : j \in 1..Len(path)} : PipDst[p] = v]
  BY DEF ArcRouted
<1>2. w \in {PipDst[path[j]] : j \in 1..Len(path)}
  OBVIOUS
<1>3. (CHOOSE p \in {path[j] : j \in 1..Len(path)} : PipDst[p] = w) = path[i]
  BY <1>1, HopOfPath
<1> HIDE DEF w
<1>4. w \in DOMAIN hops /\ hops[w] = path[i]
  BY <1>1, <1>2, <1>3
<1> QED BY <1>4 DEF w

LEMMA RouteGrounds ==
    ASSUME ConstantsStart, Routing, Routing', Grounded, pc # "setup",
           NEW a \in arcs, a \notin routed, NEW path, NEW hops, ArcRouted(a, path, hops)
    PROVE  Grounded'
<1>1. /\ Body(ArcNet[a], ArcSink[a])' = DOMAIN hops
      /\ \A b \in routed : Body(ArcNet[b], ArcSink[b])' = Body(ArcNet[b], ArcSink[b])
      /\ \A b \in routed : \A w \in Body(ArcNet[b], ArcSink[b]) :
            nd_wires'[ArcNet[b]][w].pip = nd_wires[ArcNet[b]][w].pip
      /\ \A w \in DOMAIN hops : nd_wires'[ArcNet[a]][w].pip = hops[w]
  BY BindKeepsRoutes DEF Routing, Binding, BindPlan
<1>2. routed' = routed \cup {a}
  BY DEF ArcRouted
<1>3. ASSUME NEW b \in routed
      PROVE  \E root \in Trail(ArcNet[b], ArcSink[b])' : AtSource(ArcNet[b], root)
  <2>1. Trail(ArcNet[b], ArcSink[b])' = Trail(ArcNet[b], ArcSink[b])
    BY <1>1, <1>2, BodyKeepsTrail
  <2> QED BY <2>1 DEF Grounded
<1>4. \E root \in Trail(ArcNet[a], ArcSink[a])' : AtSource(ArcNet[a], root)
  <2> DEFINE n == ArcNet[a]
             d == ArcSink[a]
             k == Len(path)
             w == PipDst[path[k]]
  <2>1. n \in Nets /\ d \in Wires
    BY Router2Assumption DEF Routing, Binding, BindPlan
  <2>2. nd_wires'[n] \in NetBooks
    BY <2>1 DEF Routing, Books, NetBooks
  <2>3. LeadsTo(path, d) /\ RouteRoot(n, PipSrc[path[k]])
    BY DEF ArcRouted
  <2>4. k \in 1..k
    BY <2>3, PathWires
  <2>5. w \in DOMAIN hops /\ hops[w] = path[k]
    BY <2>4, RoutedHop
  <2>6. nd_wires'[n][w].pip = path[k]
    BY <1>1, <2>5
  <2>7. CompleteIn(nd_wires'[n], n, d) /\ w \in BodyIn(nd_wires'[n], n, d)
    BY <1>1, <1>2, <2>5, BodyOfBooks DEF Routing, Routes, RoutesComplete
  <2> HIDE DEF n, d
  <2>8. ~EndsIn(nd_wires'[n], n, w) /\ w \in TrailIn(nd_wires'[n], n, d)
    BY <2>7 DEF CompleteIn, BodyIn
  <2>9. PipSrc[path[k]] \in TrailIn(nd_wires'[n], n, d)
    <3>1. PipSrc[nd_wires'[n][w].pip] \in TrailIn(nd_wires'[n], n, d)
      BY <2>1, <2>2, <2>8, TrailIsClosed
    <3> QED BY <2>6, <3>1
  <2> QED BY <2>3, <2>9, RouteAtSource, TrailOfBooks DEF n, d
<1> QED BY <1>2, <1>3, <1>4 DEF Grounded

LEMMA StepGrounded ==
    ASSUME ConstantsStart, Routing, Routing', SetupRooted, Grounded, [Next]_vars
    PROVE  Grounded'
<1>1. CASE SetupWires
  BY <1>1, SetupGrounds
<1>2. CASE ~SetupWires /\ pc = "setup"
  <2>1. UNCHANGED vars
    BY <1>2, SetupFirst
  <2> QED BY <1>2, <2>1 DEF Grounded, vars
<1>3. CASE ~SetupWires /\ pc # "setup"
  <2>1. CASE \E t \in Workers, a \in arcs : RouteArc(t, a) /\ a \notin routed /\ ~UNCHANGED bookVars
    <3>1. PICK t \in Workers, a \in arcs : RouteArc(t, a) /\ a \notin routed /\ ~UNCHANGED bookVars
      BY <2>1
    <3>2. a \in Arcs
      BY DEF Routing, Binding, BindPlan
    <3>3. PICK path, hops : ArcRouted(a, path, hops)
      BY <3>1, <3>2, RouteArcRoutes
    <3> QED BY <1>3, <3>1, <3>3, RouteGrounds
  <2>2. CASE \E a \in routed : UnbindsRoute(a)
    <3>1. RoutesKept
      BY <2>2, UnboundKept
    <3> QED BY <1>3, <3>1 DEF RoutesKept, Grounded
  <2>3. CASE UNCHANGED bookVars
    <3>1. nd_wires' = nd_wires /\ routed' = routed
      BY <2>3 DEF bookVars
    <3>2. \A n, d : Trail(n, d)' = Trail(n, d)
      BY <3>1, TrailOfBooks
    <3> QED BY <1>3, <3>1, <3>2 DEF Grounded
  <2> QED BY <1>3, <2>1, <2>2, <2>3, BookChanges DEF Routing
<1> QED BY <1>1, <1>2, <1>3

LEMMA StepBare ==
    ASSUME ConstantsStart, Routing, Books', BooksBare, [Next]_vars PROVE BooksBare'
<1> SUFFICES ASSUME NEW n \in Nets, NEW w \in Wires, nd_wires'[n][w] # Unbound,
                    nd_wires'[n][w].pip = NoPip
             PROVE  AtSource(n, w)
  BY DEF BooksBare, AtSource, IsConst
<1>0. nd_wires \in [Nets -> [Wires -> IntEntry \cup {Unbound}]]
  BY DEF Routing, Books
<1>1. CASE nd_wires[n][w] # Unbound /\ nd_wires'[n][w].pip = nd_wires[n][w].pip
  BY <1>1 DEF BooksBare
<1>2. CASE SetupWires
  <2>1. nd_wires[n][w] # Unbound => nd_wires'[n][w].pip = nd_wires[n][w].pip
    BY <1>2, SetupKeepsRoutes DEF Routing, Binding, BindPlan
  <2>2. nd_wires[n][w] = Unbound => nd_wires'[n][w] = Unbound
    BY <1>2 DEF SetupWires
  <2> QED BY <1>1, <2>1, <2>2
<1>3. CASE \E t \in Workers, a \in arcs : RouteArc(t, a) /\ a \notin routed /\ ~UNCHANGED bookVars
  <2>1. PICK t \in Workers, a \in arcs : RouteArc(t, a) /\ ~UNCHANGED bookVars
    BY <1>3
  <2>2. a \in Arcs /\ ArcNet[a] \in Nets
    BY Router2Assumption DEF Routing, Binding, BindPlan
  <2>3. PICK path, hops : ArcRouted(a, path, hops)
    BY <2>1, <2>2, RouteArcRoutes
  <2>4. /\ LeadsTo(path, ArcSink[a]) /\ RouteRoot(ArcNet[a], PipSrc[path[Len(path)]])
        /\ DOMAIN hops = {PipDst[path[i]] : i \in 1..Len(path)}
        /\ BindRoute(ArcNet[a], PipSrc[path[Len(path)]], hops)
    BY <2>3 DEF ArcRouted
  <2>5. \A v \in DOMAIN hops : hops[v] \in Pips
    <3>1. hops = [v \in {PipDst[path[i]] : i \in 1..Len(path)} |->
                    CHOOSE p \in {path[i] : i \in 1..Len(path)} : PipDst[p] = v]
      BY <2>3 DEF ArcRouted
    <3>2. \A i \in 1..Len(path) : path[i] \in Pips
      BY <2>4, PathWires
    <3> QED BY <3>1, <3>2
  <2>6. AtSource(ArcNet[a], PipSrc[path[Len(path)]])
    BY <2>4, RouteAtSource
  <2>7. CASE n = ArcNet[a] /\ w \in DOMAIN hops
    <3>1. nd_wires'[n][w].pip = hops[w]
      BY <2>2, <2>4, <2>7, <1>0 DEF BindRoute
    <3> QED BY <2>5, <2>7, <3>1, RoutingAssumption
  <2>8. CASE n = ArcNet[a] /\ w = PipSrc[path[Len(path)]]
    BY <2>6, <2>8
  <2>9. CASE ~(n = ArcNet[a] /\ (w \in DOMAIN hops \/ w = PipSrc[path[Len(path)]]))
    <3>1. nd_wires'[n][w] = nd_wires[n][w]
      BY <1>0, <2>2, <2>4, <2>9 DEF BindRoute
    <3> QED BY <3>1 DEF BooksBare
  <2> QED BY <2>7, <2>8, <2>9
<1>4. CASE \E a \in routed : UnbindsRoute(a)
  <2>1. PICK a \in routed : UnbindsRoute(a)
    BY <1>4
  <2>2. ArcNet[a] \in Nets
    BY Router2Assumption DEF Routing, Binding, BindPlan, Routes
  <2>3. UnbindRoute(ArcNet[a], Body(ArcNet[a], ArcSink[a]))
    BY <2>1 DEF UnbindsRoute
  <2>4. \A v \in Body(ArcNet[a], ArcSink[a]) : nd_wires[ArcNet[a]][v] # Unbound
    BY DEF Routing, Routes, RoutesComplete, Complete, Ends
  <2> HIDE DEF Body
  <2>5. nd_wires[n][w] # Unbound /\ nd_wires'[n][w].pip = nd_wires[n][w].pip
    BY <2>2, <1>0, <2>3, <2>4 DEF UnbindRoute, IntEntry
  <2> QED BY <1>1, <2>5
<1>5. CASE UNCHANGED bookVars
  BY <1>5 DEF bookVars, BooksBare
<1> QED BY <1>2, <1>3, <1>4, <1>5, BookChanges DEF Routing

LEMMA StepSwitches ==
    ASSUME ConstantsStart, WaysFit, Routing, Routing', BodySwitches, [Next]_vars
    PROVE  BodySwitches'
<1>1. CASE SetupWires
  <2>1. pc = "setup" /\ pc' # "setup" /\ routed' = {a \in arcs : check_arc_routing(a)} /\ arcs' = arcs
    BY <1>1 DEF SetupWires
  <2>2. /\ \A n \in Nets, d \in Wires : Body(n, d)' = Body(n, d)
        /\ \A n \in Nets, w \in Wires : nd_wires[n][w] # Unbound =>
              nd_wires'[n][w].pip = nd_wires[n][w].pip
    BY <1>1, SetupKeepsRoutes DEF Routing, Binding, BindPlan
  <2>3. ASSUME NEW a \in routed', NEW v \in Body(ArcNet[a], ArcSink[a])',
               NEW w \in Body(ArcNet[a], ArcSink[a])',
               Switch[nd_wires'[ArcNet[a]][v].pip] = Switch[nd_wires'[ArcNet[a]][w].pip]
        PROVE  v = w
    <3>1. ArcNet[a] \in Nets /\ ArcSink[a] \in Wires
      BY <2>1, Router2Assumption DEF Routing, Binding, BindPlan
    <3>2. v \in Body(ArcNet[a], ArcSink[a]) /\ w \in Body(ArcNet[a], ArcSink[a])
      BY <2>2, <2>3, <3>1
    <3>3. Complete(ArcNet[a], ArcSink[a])
      BY <2>1 DEF check_arc_routing
    <3>4. ~Ends(ArcNet[a], v) /\ ~Ends(ArcNet[a], w)
      BY <3>2, <3>3 DEF Complete
    <3>5. v \in Wires /\ w \in Wires
      <4>1. nd_wires[ArcNet[a]] \in NetBooks
        BY <3>1 DEF Routing, Books, NetBooks
      <4> QED BY <3>1, <3>2, <4>1, TrailIsClosed, BodyOfBooks DEF BodyIn
    <3> QED BY <2>1, <2>2, <2>3, <3>1, <3>4, <3>5 DEF BodySwitches, Ends
  <2> QED BY <2>1, <2>3 DEF BodySwitches
<1>2. CASE ~SetupWires /\ pc = "setup"
  <2>1. UNCHANGED vars
    BY <1>2, SetupFirst
  <2>2. pc' = pc /\ nd_wires' = nd_wires
    BY <2>1 DEF vars, bookVars
  <2> QED BY <1>2, <2>2 DEF BodySwitches
<1>3. CASE ~SetupWires /\ pc # "setup"
  <2>0. pc' # "setup"
    BY <1>3, SetupEnds
  <2>1. CASE \E t \in Workers, a \in arcs : RouteArc(t, a) /\ a \notin routed /\ ~UNCHANGED bookVars
    <3>1. PICK t \in Workers, a \in arcs : RouteArc(t, a) /\ a \notin routed /\ ~UNCHANGED bookVars
      BY <2>1
    <3>2. a \in Arcs
      BY DEF Routing, Binding, BindPlan
    <3>0. PICK hops : \E path \in Ways(a) : ArcRouted(a, path, hops)
      BY <3>1, <3>2, RouteArcWay
    <3>3. PICK path \in Ways(a) : ArcRouted(a, path, hops)
      BY <3>0
    <3>4. /\ Body(ArcNet[a], ArcSink[a])' = DOMAIN hops
          /\ \A b \in routed : Body(ArcNet[b], ArcSink[b])' = Body(ArcNet[b], ArcSink[b])
          /\ \A b \in routed : \A w \in Body(ArcNet[b], ArcSink[b]) :
                nd_wires'[ArcNet[b]][w].pip = nd_wires[ArcNet[b]][w].pip
          /\ \A w \in DOMAIN hops : nd_wires'[ArcNet[a]][w].pip = hops[w]
      BY <3>1, <3>3, BindKeepsRoutes DEF Routing, Binding, BindPlan
    <3>5. routed' = routed \cup {a}
      BY <3>3 DEF ArcRouted
    <3>6. ASSUME NEW v \in DOMAIN hops, NEW w \in DOMAIN hops, Switch[hops[v]] = Switch[hops[w]]
          PROVE  v = w
      <4>1. hops = [x \in {PipDst[path[i]] : i \in 1..Len(path)} |->
                      CHOOSE p \in {path[i] : i \in 1..Len(path)} : PipDst[p] = x]
        BY <3>3 DEF ArcRouted
      <4>3. PICK i \in 1..Len(path) : v = PipDst[path[i]]
        BY <4>1
      <4>4. PICK j \in 1..Len(path) : w = PipDst[path[j]]
        BY <4>1
      <4>5. hops[v] = path[i] /\ hops[w] = path[j]
        BY <3>3, <4>3, <4>4, RoutedHop
      <4>6. \A x, y \in 1..Len(path) : Switch[path[x]] = Switch[path[y]] => path[x] = path[y]
        BY <3>2, <3>3 DEF WaysFit
      <4>7. path[i] = path[j]
        BY <3>6, <4>5, <4>6
      <4> QED BY <4>3, <4>4, <4>7
    <3>7. ASSUME NEW b \in routed', NEW v \in Body(ArcNet[b], ArcSink[b])',
                 NEW w \in Body(ArcNet[b], ArcSink[b])',
                 Switch[nd_wires'[ArcNet[b]][v].pip] = Switch[nd_wires'[ArcNet[b]][w].pip]
          PROVE  v = w
      <4>1. CASE b = a
        BY <3>4, <3>6, <3>7, <4>1
      <4>2. CASE b \in routed
        <5>1. v \in Body(ArcNet[b], ArcSink[b]) /\ w \in Body(ArcNet[b], ArcSink[b])
          BY <3>4, <3>7, <4>2
        <5> QED BY <1>3, <3>4, <3>7, <4>2, <5>1 DEF BodySwitches
      <4> QED BY <3>5, <3>7, <4>1, <4>2
    <3> QED BY <2>0, <3>7 DEF BodySwitches
  <2>2. CASE \E a \in routed : UnbindsRoute(a)
    <3>1. RoutesKept
      BY <2>2, UnboundKept
    <3>2. ASSUME NEW b \in routed', NEW v \in Body(ArcNet[b], ArcSink[b])',
                 NEW w \in Body(ArcNet[b], ArcSink[b])',
                 Switch[nd_wires'[ArcNet[b]][v].pip] = Switch[nd_wires'[ArcNet[b]][w].pip]
          PROVE  v = w
      <4>1. b \in routed /\ v \in Body(ArcNet[b], ArcSink[b]) /\ w \in Body(ArcNet[b], ArcSink[b])
        BY <3>1, <3>2 DEF RoutesKept
      <4> QED BY <1>3, <3>1, <3>2, <4>1 DEF RoutesKept, BodySwitches
    <3> QED BY <2>0, <3>2 DEF BodySwitches
  <2>3. CASE UNCHANGED bookVars
    <3>1. nd_wires' = nd_wires /\ routed' = routed
      BY <2>3 DEF bookVars
    <3>2. \A n, d : Body(n, d)' = Body(n, d)
      BY <3>1, BodyOfBooks
    <3> QED BY <1>3, <2>0, <3>1, <3>2 DEF BodySwitches
  <2> QED BY <1>3, <2>1, <2>2, <2>3, BookChanges DEF Routing
<1> QED BY <1>1, <1>2, <1>3

LEMMA InitGrounded ==
    ASSUME \A d \in Designs : WellRooted(d.routing), Init
    PROVE  Grounded /\ BooksBare /\ BodySwitches
<1>1. PICK d \in Designs : arcs = d.arcs /\ wires = d.routing
  BY DEF Init
<1>2. pc = "setup" /\ InitialRouting(wires) /\ SetupRooted
  BY <1>1, Router2InitialRouting, InitServed DEF Init
<1>3. \A n \in Nets, w \in Wires :
              /\ nd_wires[n][w] # Unbound <=> wires[n][w] # Unbound
              /\ nd_wires[n][w] # Unbound => nd_wires[n][w].pip = wires[n][w].pip
  BY InitBooksAre
<1>4. BooksBare
  BY <1>2 DEF SetupRooted, BooksBare
<1>5. BodySwitches
  BY <1>2, <1>3 DEF BodySwitches, InitialRouting
<1> QED BY <1>2, <1>4, <1>5 DEF Grounded

-----------------------------------------------------------------------------
\* What is about to be bound can be, unless the net has a wire that the router
\* could not release.
PipFree(p) == /\ \A m \in Nets : wires[m][PipDst[p]] = Unbound
              /\ switches_locked[Switch[p]] = NoWire

Releasable(n) == \A w \in Wires : ~Strong(n, w)

PlanFits ==
    pc = "bind" =>
        /\ to_bind.root # NoWire => \A m \in Nets : wires[m][to_bind.root] = Unbound
        /\ Releasable(net) =>
              /\ \A p \in to_bind.pips : PipFree(p)
              /\ \A p, q \in to_bind.pips : Switch[p] = Switch[q] => p = q

LEMMA NoPlanFits ==
    ASSUME to_bind' = NothingToBind \/ pc' # "bind" PROVE PlanFits'
<1>1. CASE to_bind' = NothingToBind
  <2>1. to_bind'.root = NoWire /\ to_bind'.pips = {}
    BY <1>1 DEF NothingToBind
  <2> QED BY <2>1 DEF PlanFits
<1> QED BY <1>1 DEF PlanFits

LEMMA FreeIsUnbound ==
    ASSUME Routing, NEW w \in Wires
    PROVE  wire_to_net[w] = NoNet <=> \A m \in Nets : wires[m][w] = Unbound
<1>1. wire_to_net[w] \in Nets \cup {NoNet} /\ NoNet \notin Nets
  BY RoutingAssumption DEF Routing, Binding, ArchTypeOK
<1> QED BY <1>1 DEF Routing, Binding, Consistent, RecordedIsBound, BoundIsRecorded

\* A wire with a pip of its net's route, of which the pip is not bound, is free.
LEMMA PlannedIsFree ==
    ASSUME Routing, DrivesItsWire, RoundOfBinding, pc = "bind", net \in Nets,
           to_unbind = {}, to_bind = NothingToBind, Releasable(net),
           NEW a \in routed, ArcNet[a] = net, CanBind(a),
           NEW w \in Body(net, ArcSink[a]),
           pip_to_net[nd_wires[net][w].pip] = NoNet
    PROVE  PipFree(nd_wires[net][w].pip)
<1> DEFINE p == nd_wires[net][w].pip
<1>1. w \in Wires /\ p \in Pips /\ PipDst[p] = w /\ ~AtSource(net, w)
  BY BodyWire
<1>2. net \notin nets_left
  BY RoutingAssumption DEF RoundOfBinding, PlanMeant
<1>3. checkWireAvail(w) \/ wire_to_net[w] = net
  BY DEF CanBind
<1>4. checkPipAvailForNet(p, net)
  BY RoutingAssumption DEF CanBind
<1> HIDE DEF p
<1>5. wires[net][w] = Unbound
  <2> SUFFICES ASSUME wires[net][w] # Unbound PROVE FALSE
    OBVIOUS
  <2>1. Meant(net, w)
    BY <1>1, <1>2 DEF RoundOfBinding, HeldMeant, Releasable
  <2>2. PICK b \in arcs : /\ ArcNet[b] = net /\ Checked(b)
                          /\ \/ b \in routed /\ w \in Trail(net, ArcSink[b])
                             \/ w = ArcSink[b] /\ w = SourceWire[net]
    BY <2>1 DEF Meant
  <2>3. b \in routed /\ w \in Body(net, ArcSink[b])
    BY <1>1, <2>2 DEF Body, AtSource
  <2>4. RouteBound(b)
    BY <2>2, <2>3 DEF RoundOfBinding, ArcBound
  <2>5. wires[net][w].pip = p
    BY <2>2, <2>3, <2>4 DEF RouteBound, NothingToBind, p
  <2>6. p # NoPip
    BY <1>1, RoutingAssumption
  <2>7. pip_to_net[p] = net
    BY <1>1, <2>5, <2>6 DEF Routing, Binding, Consistent, RecordedIsBound
  <2> QED BY <2>7, RoutingAssumption DEF p
<1>6. wire_to_net[w] # net
  BY <1>1, <1>5, RoutingAssumption DEF Routing, Binding, Consistent, BoundIsRecorded
<1>7. \A m \in Nets : wires[m][w] = Unbound
  BY <1>1, <1>3, <1>6, FreeIsUnbound DEF checkWireAvail
<1>8. switches_locked[Switch[p]] = NoWire
  BY <1>1, <1>4, <1>6 DEF checkPipAvailForNet
<1> QED BY <1>1, <1>7, <1>8 DEF PipFree, p

LEMMA CheckArcFits ==
    ASSUME Routing, DrivesItsWire, StartsFree, RoundOfBinding, BodySwitches,
           NEW a \in Arcs, CheckArc(a)
    PROVE  PlanFits'
<1> DEFINE body == Body(net, ArcSink[a])
<1>1. /\ pc = "bind" /\ to_unbind = {} /\ to_bind = NothingToBind /\ a \in arcs_left
      /\ UNCHANGED <<wires, switches_locked, net>>
  BY DEF CheckArc, archVars
<1>2. net \in Nets /\ ArcNet[a] = net
  BY <1>1, RoutingAssumption DEF Routing, Binding, BindPlan
<1>3. a \in arcs /\ ArcSink[a] \in Wires
  <2>1. ArcSink[a] \in Wires
    BY Router2Assumption
  <2>2. a \in ArcsOf(net)
    BY <1>1 DEF RoundOfBinding, PlanMeant
  <2> QED BY <1>1, <2>1, <2>2 DEF ArcsOf
<1>4. \/ pc' = "crashed" \/ to_bind' = NothingToBind
      \/ /\ SourceWire[net] = ArcSink[a] /\ wire_to_net[ArcSink[a]] # net
         /\ to_bind' = [root |-> ArcSink[a], pips |-> {}]
      \/ /\ a \in routed /\ CanBind(a)
         /\ \E root \in Wires :
               to_bind' = [root |-> IF wire_to_net[root] = NoNet THEN root ELSE NoWire,
                           pips |-> {p \in {nd_wires[net][w].pip : w \in body} :
                                       pip_to_net[p] = NoNet}]
  BY <1>1 DEF CheckArc
<1>5. CASE pc' = "crashed" \/ to_bind' = NothingToBind
  BY <1>5, NoPlanFits
<1>6. CASE /\ SourceWire[net] = ArcSink[a] /\ wire_to_net[ArcSink[a]] # net
           /\ to_bind' = [root |-> ArcSink[a], pips |-> {}]
  <2>1. to_bind'.root = ArcSink[a] /\ to_bind'.pips = {}
    BY <1>6
  <2>2. \A m \in Nets \ {net} : wires[m][ArcSink[a]] = Unbound
    BY <1>2, <1>3, <1>6 DEF StartsFree, AtSource
  <2>3. wires[net][ArcSink[a]] = Unbound
    BY <1>2, <1>3, <1>6 DEF Routing, Binding, Consistent, RecordedIsBound
  <2> QED BY <1>1, <2>1, <2>2, <2>3 DEF PlanFits
<1>7. CASE /\ a \in routed /\ CanBind(a)
           /\ \E root \in Wires :
                 to_bind' = [root |-> IF wire_to_net[root] = NoNet THEN root ELSE NoWire,
                             pips |-> {p \in {nd_wires[net][w].pip : w \in body} :
                                         pip_to_net[p] = NoNet}]
  <2>1. PICK root \in Wires :
           to_bind' = [root |-> IF wire_to_net[root] = NoNet THEN root ELSE NoWire,
                       pips |-> {p \in {nd_wires[net][w].pip : w \in body} :
                                   pip_to_net[p] = NoNet}]
    BY <1>7
  <2>2. /\ to_bind'.root = IF wire_to_net[root] = NoNet THEN root ELSE NoWire
        /\ to_bind'.pips = {p \in {nd_wires[net][w].pip : w \in body} : pip_to_net[p] = NoNet}
    BY <2>1
  <2>3. to_bind'.root # NoWire => \A m \in Nets : wires'[m][to_bind'.root] = Unbound
    BY <1>1, <2>2, FreeIsUnbound
  <2>4. \A p \in to_bind'.pips : \E w \in body : p = nd_wires[net][w].pip /\ pip_to_net[p] = NoNet
    BY <2>2
  <2> HIDE DEF body
  <2>5. Releasable(net)' => Releasable(net)
    BY <1>1 DEF Releasable, Strong
  <2>6. ASSUME Releasable(net), NEW p \in to_bind'.pips PROVE PipFree(p)'
    <3>1. PICK w \in body : p = nd_wires[net][w].pip /\ pip_to_net[p] = NoNet
      BY <2>4
    <3>2. PipFree(nd_wires[net][w].pip)
      BY <1>1, <1>2, <1>7, <2>6, <3>1, PlannedIsFree DEF body
    <3> QED BY <1>1, <3>1, <3>2 DEF PipFree
  <2>7. ASSUME NEW p \in to_bind'.pips, NEW q \in to_bind'.pips, Switch[p] = Switch[q] PROVE p = q
    <3>1. PICK v \in body : p = nd_wires[net][v].pip
      BY <2>4
    <3>2. PICK w \in body : q = nd_wires[net][w].pip
      BY <2>4
    <3>3. v = w
      BY <1>1, <1>2, <1>7, <2>7, <3>1, <3>2 DEF BodySwitches, body
    <3> QED BY <3>1, <3>2, <3>3
  <2> QED BY <2>3, <2>5, <2>6, <2>7 DEF PlanFits
<1> QED BY <1>4, <1>5, <1>6, <1>7

LEMMA BindRootFits ==
    ASSUME Routing, RoundOfBinding, PlanFits, BindRoot PROVE PlanFits'
<1>1. /\ pc = "bind" /\ to_bind.root # NoWire /\ net' = net
      /\ to_bind' = [to_bind EXCEPT !.root = NoWire]
      /\ \/ bindWire(to_bind.root, net, STRENGTH_WEAK)
         \/ pc' = "crashed"
  BY DEF BindRoot
<1>2. CASE pc' = "crashed"
  BY <1>2, NoPlanFits
<1>3. CASE bindWire(to_bind.root, net, STRENGTH_WEAK)
  <2>1. to_bind'.root = NoWire /\ to_bind'.pips = to_bind.pips
    BY <1>1 DEF Routing, Binding, BindPlan
  <2>2. to_bind # NothingToBind
    BY <1>1 DEF NothingToBind
  <2>3. net \in Nets
    BY <2>2 DEF Routing, Binding, BindPlan
  <2>4. /\ wires' = [wires EXCEPT ![net][to_bind.root] = [pip |-> NoPip, strength |-> STRENGTH_WEAK]]
        /\ switches_locked' = switches_locked
    BY <1>3 DEF bindWire
  <2>5. wires \in [Nets -> [Wires -> PipMap \cup {Unbound}]]
    BY WiresType
  <2>6. Releasable(net)' => Releasable(net)
    <3>1. \A w \in Wires : Strong(net, w)' <=> Strong(net, w)
      <4>1. BindStep
        BY DEF BindStep
      <4>2. [Next]_vars
        BY <4>1 DEF Next
      <4> QED BY <1>1, <2>3, <4>2, StrongSame DEF Strong
    <3> QED BY <3>1 DEF Releasable
  <2>7. ASSUME Releasable(net), NEW p \in to_bind.pips PROVE PipFree(p)'
    <3>1. PipFree(p)
      BY <1>1, <2>7 DEF PlanFits
    <3>2. AtSource(net, to_bind.root) /\ p \in Pips
      BY <1>1 DEF RoundOfBinding, PlanMeant
    <3>3. PipDst[p] # to_bind.root
      BY <1>1, <3>2, PlannedPip
    <3>4. \A m \in Nets : wires'[m][PipDst[p]] = wires[m][PipDst[p]]
      BY <2>4, <2>5, <3>3
    <3> QED BY <2>4, <3>1, <3>4 DEF PipFree
  <2> QED BY <1>1, <2>1, <2>6, <2>7 DEF PlanFits
<1> QED BY <1>1, <1>2, <1>3

LEMMA BindPipFits ==
    ASSUME Routing, RoundOfBinding, PlanFits, NEW q \in Pips, BindPip(q) PROVE PlanFits'
<1>1. /\ pc = "bind" /\ to_bind.root = NoWire /\ q \in to_bind.pips /\ net' = net
      /\ to_bind' = [to_bind EXCEPT !.pips = @ \ {q}]
      /\ \/ bindPip(q, net, STRENGTH_WEAK)
         \/ pc' = "crashed"
  BY DEF BindPip
<1>2. CASE pc' = "crashed"
  BY <1>2, NoPlanFits
<1>3. CASE bindPip(q, net, STRENGTH_WEAK)
  <2>1. to_bind'.root = NoWire /\ to_bind'.pips = to_bind.pips \ {q}
    BY <1>1 DEF Routing, Binding, BindPlan
  <2>2. to_bind # NothingToBind
    BY <1>1 DEF NothingToBind
  <2>3. net \in Nets
    BY <2>2 DEF Routing, Binding, BindPlan
  <2>4. /\ wires' = [wires EXCEPT ![net][PipDst[q]] = [pip |-> q, strength |-> STRENGTH_WEAK]]
        /\ switches_locked' = [switches_locked EXCEPT ![Switch[q]] = PipDst[q]]
    BY <1>3 DEF bindPip
  <2>5. /\ wires \in [Nets -> [Wires -> PipMap \cup {Unbound}]]
        /\ switches_locked \in [Switches -> Wires \cup {NoWire}]
    BY WiresType DEF Routing, Binding, ArchTypeOK
  <2>6. Releasable(net)' => Releasable(net)
    <3>1. \A w \in Wires : Strong(net, w)' <=> Strong(net, w)
      <4>1. BindStep
        BY DEF BindStep
      <4>2. [Next]_vars
        BY <4>1 DEF Next
      <4> QED BY <1>1, <2>3, <4>2, StrongSame DEF Strong
    <3> QED BY <3>1 DEF Releasable
  <2>7. ASSUME Releasable(net), NEW p \in to_bind.pips \ {q} PROVE PipFree(p)'
    <3>1. PipFree(p) /\ Switch[p] # Switch[q]
      BY <1>1, <2>7 DEF PlanFits
    <3>2. p \in Pips
      BY <1>1 DEF RoundOfBinding, PlanMeant
    <3>3. nd_wires[net][PipDst[p]].pip = p /\ nd_wires[net][PipDst[q]].pip = q
      BY <1>1, <3>2, PlannedPip
    <3>4. PipDst[p] # PipDst[q]
      BY <2>7, <3>3
    <3>5. \A m \in Nets : wires'[m][PipDst[p]] = wires[m][PipDst[p]]
      BY <2>4, <2>5, <3>4
    <3>6. switches_locked'[Switch[p]] = switches_locked[Switch[p]]
      BY <2>4, <2>5, <3>1, <3>2, RoutingAssumption
    <3> QED BY <3>1, <3>5, <3>6 DEF PipFree
  <2> QED BY <1>1, <2>1, <2>6, <2>7 DEF PlanFits
<1> QED BY <1>1, <1>2, <1>3

LEMMA StepPlanFits ==
    ASSUME Routing, DrivesItsWire, StartsFree, RoundOfBinding, BodySwitches, PlanFits, [Next]_vars
    PROVE  PlanFits'
<1> USE DEF Routing, Binding, BindPlan
<1>1. CASE \E n \in Nets : BindNet(n)
  BY <1>1, NoPlanFits, RoutingAssumption DEF BindNet
<1>2. CASE \E w \in Wires : UnbindOld(w)
  BY <1>2, NoPlanFits DEF UnbindOld
<1>3. CASE \E a \in Arcs : CheckArc(a)
  BY <1>3, CheckArcFits
<1>4. CASE BindRoot
  BY <1>4, BindRootFits
<1>5. CASE \E p \in Pips : BindPip(p)
  BY <1>5, BindPipFits
<1>6. CASE NetBound
  BY <1>6, NoPlanFits DEF NetBound
<1>7. CASE AllBound
  BY <1>7, NoPlanFits DEF AllBound
<1>8. CASE UpdateCongestion
  <2>1. net = NoNet /\ to_bind' = to_bind
    BY <1>8 DEF UpdateCongestion, RoundOfBinding
  <2> QED BY <2>1, NoPlanFits
<1>9. CASE UNCHANGED vars
  BY <1>9 DEF vars, archVars, bindVars, PlanFits, Releasable, Strong, PipFree
<1>10. CASE SetupWires \/ (\E n \in Nets : ReserveWires(n)) \/ ReserveDone \/ DoRoute \/ RouteStep
  BY <1>10, OutsideRound, NoPlanFits
<1> QED BY <1>1, <1>2, <1>3, <1>4, <1>5, <1>6, <1>7, <1>8, <1>9, <1>10 DEF Next, BindStep, Returned

-----------------------------------------------------------------------------
\* What keeps the router from throwing.
Sound ==
    /\ Finishing /\ ResourceBooks
    /\ Grounded /\ BooksBare /\ BodySwitches /\ PlanFits

\* The hops of a route that the search tested, and those it found in the tree.
LEMMA PathTested ==
    ASSUME NEW t, NEW a, NEW tree, NEW path \in PathsFor(t, a, tree), NEW i \in 1..Len(path)
    PROVE  \/ PipUsable(t, ArcNet[a], path[i])
           \/ /\ PipDst[path[i]] \in tree
              /\ nd_wires[ArcNet[a]][PipDst[path[i]]].pip = path[i]
<1> DEFINE reused == {j \in 1..Len(path) : \A m \in j..Len(path) :
                         /\ PipDst[path[m]] \in tree
                         /\ nd_wires[ArcNet[a]][PipDst[path[m]]].pip = path[m]}
<1>1. \A j \in (1..Len(path)) \ reused : PipUsable(t, ArcNet[a], path[j])
  BY DEF PathsFor
<1>2. CASE i \in reused
  <2>1. i \in i..Len(path)
    OBVIOUS
  <2> QED BY <1>2, <2>1
<1>3. CASE i \notin reused
  BY <1>1, <1>3
<1> QED BY <1>2, <1>3

\* The assertions of bind_pip_internal hold for a route that the search returns.
LEMMA PathFits ==
    ASSUME ConstantsStart, WaysFit, Routing, ResourceBooks, BooksBare,
           NEW t \in Workers, NEW a \in Arcs, NEW path \in PathsFor(t, a, Tree(ArcNet[a]))
    PROVE  RouteFits(ArcNet[a],
               [w \in {PipDst[path[i]] : i \in 1..Len(path)} |->
                   CHOOSE p \in {path[i] : i \in 1..Len(path)} : PipDst[p] = w])
<1> DEFINE n == ArcNet[a]
           hops == [w \in {PipDst[path[i]] : i \in 1..Len(path)} |->
                       CHOOSE p \in {path[i] : i \in 1..Len(path)} : PipDst[p] = w]
<1>1. n \in Nets
  BY Router2Assumption
<1>2. /\ LeadsTo(path, ArcSink[a]) /\ RouteRoot(n, PipSrc[path[Len(path)]])
      /\ \A i \in 1..(Len(path) - 1) : ~RouteRoot(n, PipSrc[path[i]])
  BY PathFound
<1>3. path \in Ways(a)
  BY DEF PathsFor, Ways
<1>4. \A w \in DOMAIN hops : \E i \in 1..Len(path) : w = PipDst[path[i]] /\ hops[w] = path[i]
  <2>1. ASSUME NEW w \in DOMAIN hops
        PROVE  \E i \in 1..Len(path) : w = PipDst[path[i]] /\ hops[w] = path[i]
    <3>1. PICK i \in 1..Len(path) : w = PipDst[path[i]]
      OBVIOUS
    <3>2. (CHOOSE p \in {path[j] : j \in 1..Len(path)} : PipDst[p] = PipDst[path[i]]) = path[i]
      BY <1>2, HopOfPath
    <3> QED BY <3>1, <3>2
  <2> QED BY <2>1
<1> HIDE DEF hops
<1>5. ASSUME NEW i \in 1..Len(path)
      PROVE  /\ path[i] \in Pips /\ PipDst[path[i]] \in Wires
             /\ ~AtSource(n, PipDst[path[i]])
             /\ nd_wires[n][PipDst[path[i]]] # Unbound =>
                    nd_wires[n][PipDst[path[i]]].pip = path[i]
             /\ (Resource[path[i]] \in Resources /\ nd_res[n][Resource[path[i]]] # NoUse) =>
                    nd_res[n][Resource[path[i]]].value = Value[path[i]]
  <2> DEFINE p == path[i]
             w == PipDst[p]
  <2>1. p \in Pips
    BY <1>2, PathWires
  <2>2. w \in Wires
    BY <2>1, RoutingAssumption
  <2>3. ~AtSource(n, w)
    BY <1>2, HopsStartNot
  <2> HIDE DEF p, w
  <2>4. CASE PipUsable(t, n, p)
    <3>1. nd_wires[n][w] # Unbound => nd_wires[n][w].pip = p
      <4>1. nd_wires[n][w] # Unbound => nd_wires[n][w].pip \in {p, NoPip}
        BY <2>4 DEF PipUsable, w
      <4>2. nd_wires[n][w] # Unbound => nd_wires[n][w].pip # NoPip
        BY <1>1, <2>2, <2>3 DEF BooksBare
      <4> QED BY <4>1, <4>2
    <3>2. (Resource[p] \in Resources /\ nd_res[n][Resource[p]] # NoUse) =>
              nd_res[n][Resource[p]].value = Value[p]
      BY <2>4, Router2Assumption DEF PipUsable
    <3> QED BY <2>1, <2>2, <2>3, <3>1, <3>2 DEF p, w
  <2>5. CASE w \in Tree(n) /\ nd_wires[n][w].pip = p
    <3>1. nd_wires[n][w] # Unbound /\ nd_wires[n][w].count > 0
      BY <2>5 DEF Tree
    <3>2. nd_wires[n][w].count = Cardinality(Served(n, w))
      BY <1>1, <2>2, <2>3, <3>1 DEF Routing, Routes, RoutesCounted
    <3>3. Served(n, w) # {}
      <4> SUFFICES ASSUME Served(n, w) = {} PROVE FALSE
        OBVIOUS
      <4>1. Cardinality(Served(n, w)) = 0
        BY FS_EmptySet
      <4>2. nd_wires[n][w].count = 0
        BY <3>2, <4>1
      <4> QED BY <3>1, <4>2
    <3>4. PICK b \in routed : ArcNet[b] = n /\ w \in Body(n, ArcSink[b])
      BY <3>3 DEF Served
    <3>5. <<b, w>> \in Uses
      BY <3>4, UsesAre
    <3>6. PipOf(<<b, w>>) = p /\ ArcNet[<<b, w>>[1]] = n
      BY <2>5, <3>4 DEF PipOf
    <3>7. Resource[p] \in Resources => nd_res[n][Resource[p]].value = Value[p]
      <4>1. \A u \in Uses : Resource[PipOf(u)] \in Resources =>
                nd_res[ArcNet[u[1]]][Resource[PipOf(u)]].value = Value[PipOf(u)]
        BY DEF ResourceBooks, UsesEntered
      <4> HIDE DEF n
      <4> QED BY <3>5, <3>6, <4>1
    <3> QED BY <2>1, <2>2, <2>3, <2>5, <3>7 DEF p, w
  <2> QED BY <2>4, <2>5, PathTested DEF p, w
<1>6. ASSUME NEW w \in DOMAIN hops, nd_wires[n][w] # Unbound
      PROVE  nd_wires[n][w].pip = hops[w]
  BY <1>4, <1>5, <1>6
<1>7. ASSUME NEW r \in Resources, NEW v \in DOMAIN hops, NEW w \in DOMAIN hops,
             Resource[hops[v]] = r, Resource[hops[w]] = r
      PROVE  /\ Value[hops[v]] = Value[hops[w]]
             /\ nd_res[n][r] # NoUse => nd_res[n][r].value = Value[hops[v]]
  <2>1. PICK i \in 1..Len(path) : hops[v] = path[i]
    BY <1>4
  <2>2. PICK j \in 1..Len(path) : hops[w] = path[j]
    BY <1>4
  <2>3. \A x, y \in 1..Len(path) : (Resource[path[x]] = Resource[path[y]] /\ Resource[path[x]] # NoResource)
                                      => Value[path[x]] = Value[path[y]]
    BY <1>3 DEF WaysFit
  <2>4. r # NoResource
    BY Router2Assumption
  <2>5. Value[hops[v]] = Value[hops[w]]
    BY <1>7, <2>1, <2>2, <2>3, <2>4
  <2> QED BY <1>5, <1>7, <2>1, <2>5
<1>8. RouteFits(n, hops)
  BY <1>6, <1>7 DEF RouteFits, UsesOf
<1> QED BY <1>8 DEF hops

\* The walks of update_route_delays end at the source.
LEMMA DelaysFit ==
    ASSUME Routing, NetsCovered, Grounded, pc = "congestion" PROVE ~DelaysThrow
<1> SUFFICES ASSUME NEW a \in arcs, ~IsConst(ArcNet[a]), Driven(ArcNet[a]),
                    SourceWire[ArcNet[a]] \notin Trail(ArcNet[a], ArcSink[a])
             PROVE  FALSE
  BY DEF DelaysThrow
<1> DEFINE n == ArcNet[a]
           d == ArcSink[a]
<1>1. n \in Nets /\ d \in Wires
  BY Router2Assumption DEF Routing, Binding, BindPlan
<1>2. ArcServed(a)
  BY <1>1 DEF NetsCovered, NetServed, ArcsOf
<1>3. d \in Trail(n, d)
  <2>1. nd_wires[n] \in NetBooks
    BY <1>1 DEF Routing, Books, NetBooks
  <2> QED BY <1>1, <2>1, TrailIsClosed, TrailOfBooks
<1>4. SinkRouted(n, d)
  BY <1>2, <1>3 DEF ArcServed
<1>5. PICK b \in routed : ArcNet[b] = n /\ ArcSink[b] = d
  BY <1>4 DEF SinkRouted
<1>6. PICK root \in Trail(n, d) : AtSource(n, root)
  BY <1>5 DEF Grounded
<1> QED BY <1>6 DEF AtSource

\* The steps that can throw.
LEMMA ThrowingSteps ==
    ASSUME [Next]_vars, pc # "crashed", pc' = "crashed"
    PROVE  \/ \E n \in Nets : ReserveWires(n)
           \/ \E t \in Workers, a \in Arcs : RipupArc(t, a) \/ RouteArc(t, a)
           \/ UpdateCongestion
           \/ \E a \in Arcs : CheckArc(a)
           \/ BindRoot
           \/ \E p \in Pips : BindPip(p)
<1>1. ~SetupWires /\ ~ReserveDone /\ ~DoRoute /\ ~NextStage
  BY DEF SetupWires, ReserveDone, DoRoute, NextStage
<1>2. ~(\E t \in Workers, n \in Nets : TakeNet(t, n)) /\ ~(\E t \in Workers, a \in Arcs : KeepArc(t, a))
  BY DEF TakeNet, KeepArc
<1>3. ~(\E t \in Workers, a \in Arcs : SinkDone(t, a)) /\ ~(\E t \in Workers, a \in Arcs : RouteFails(t, a))
  BY DEF SinkDone, RouteFails
<1>4. ~(\E t \in Workers : NetDone(t)) /\ ~(\E n \in Nets : BindNet(n)) /\ ~(\E w \in Wires : UnbindOld(w))
  BY DEF NetDone, BindNet, UnbindOld
<1>5. ~NetBound /\ ~AllBound /\ ~Returned /\ ~UNCHANGED vars
  BY DEF NetBound, AllBound, Returned, vars
<1> QED BY <1>1, <1>2, <1>3, <1>4, <1>5 DEF Next, RouteStep, BindStep

\* Past the sink every wire of a sink chain is open to the net: the walk can only be
\* stopped at the sink.
LEMMA ChainStopsAtSink ==
    ASSUME arcs \subseteq Arcs, NEW n \in Nets, NEW w \in SinkChain(n), OthersWire(n, w)
    PROVE  \E a \in ArcsOf(n) \ pre_routed : w = ArcSink[a]
<1> DEFINE blind == Undriveable(n)
           Left(u) == {p \in Pips : PipDst[p] = u /\ PipSrc[p] \notin blind}
           step == [u \in Wires |->
                       IF u # SourceWire[n] /\ Cardinality(Left(u)) = 1
                       THEN {PipSrc[p] : p \in Left(u)} ELSE {}]
           open == {u \in Wires : ~OthersWire(n, u)}
<1>1. PICK a \in ArcsOf(n) \ pre_routed : w \in Chain(ArcSink[a], step)
  BY DEF SinkChain
<1>2. ArcSink[a] \in Wires
  BY Router2Assumption DEF ArcsOf
<1>3. \A u \in Wires : {PipSrc[p] : p \in Left(u)} \subseteq open
  BY Router2Assumption, UndriveableIsLeast
<1>4. /\ step \in [Wires -> SUBSET Wires]
      /\ \A u \in Wires : step[u] \subseteq open
  <2> HIDE DEF Left
  <2>1. \A u \in Wires : {PipSrc[p] : p \in Left(u)} \in SUBSET Wires
    BY <1>3
  <2> HIDE DEF open
  <2> QED BY <1>3, <2>1
<1> DEFINE C == open \cup {ArcSink[a]}
<1>5. C \in SUBSET Wires /\ ArcSink[a] \in C /\ \A u \in C : step[u] \subseteq C
  <2> HIDE DEF step
  <2> QED BY <1>2, <1>4
<1> HIDE DEF step, C
<1>6. w \in C
  BY <1>1, <1>2, <1>4, <1>5, ChainIsLeast
<1> QED BY <1>1, <1>6 DEF C

\* While the nets claim wires no arc has been routed anew and no net is in hand.
Unstarted ==
    pc \in {"setup", "reserve"} => routed = pre_routed /\ Claiming

LEMMA StepUnstarted ==
    ASSUME Unstarted, [Next]_vars PROVE Unstarted'
<1> SUFFICES ASSUME pc' \in {"setup", "reserve"} PROVE (routed = pre_routed /\ Claiming)'
  BY DEF Unstarted
<1>1. pc \in {"setup", "reserve"}
  BY BeforeRouting
<1>2. CASE UNCHANGED vars
  BY <1>1, <1>2 DEF vars, bookVars, jobVars, bindVars, Unstarted, Claiming
<1>3. CASE SetupWires
  BY <1>1, <1>3 DEF SetupWires, jobVars, bindVars, Unstarted, Claiming
<1>4. CASE \E n \in Nets : ReserveWires(n)
  BY <1>1, <1>4 DEF ReserveWires, bookVars, jobVars, bindVars, Unstarted, Claiming
<1>5. CASE ReserveDone \/ DoRoute \/ UpdateCongestion
  BY <1>5 DEF ReserveDone, DoRoute, UpdateCongestion
<1>6. CASE RouteStep
  BY <1>1, <1>6 DEF RouteStep, NextStage, TakeNet, KeepArc, RipupArc, RouteArc, SinkDone,
                    RouteFails, NetDone, Active
<1>7. CASE BindStep
  BY <1>1, <1>7 DEF BindStep, BindNet, UnbindOld, CheckArc, BindRoot, BindPip, NetBound, AllBound
<1>8. CASE Returned
  BY <1>1, <1>8 DEF Returned
<1> QED BY <1>2, <1>3, <1>4, <1>5, <1>6, <1>7, <1>8 DEF Next

\* The claim of a net throws at a sink that is closed to all nets.
LEMMA ClaimThrows ==
    ASSUME Unstarted, arcs \subseteq Arcs, NEW n \in Nets, ReserveWires(n), pc' = "crashed"
    PROVE  (Claiming /\ \E a \in arcs \ routed : reserved[ArcSink[a]] = Unavailable)'
<1>1. /\ pc = "reserve"
      /\ UNCHANGED <<arcs, routed, pre_routed, reserved, job, net>>
      /\ \E w \in Claim(n) : OthersWire(n, w) /\ reserved[w] = Unavailable
  <2> DEFINE taken == {w \in Claim(n) : OthersWire(n, w)}
  <2>1. pc = "reserve" /\ UNCHANGED <<arcs, bookVars, jobVars, bindVars>>
    BY DEF ReserveWires
  <2>2. /\ taken # {} /\ UNCHANGED reserved
        /\ \E w \in IF SourceWire[n] \in taken \cap DriverChain(n)
                     THEN {SourceWire[n]} ELSE taken :
              pc' = IF reserved[w] = Unavailable THEN "crashed" ELSE "failed"
    BY <2>1 DEF ReserveWires
  <2>3. PICK w \in taken : reserved[w] = Unavailable
    <3> HIDE DEF taken
    <3> QED BY <2>2
  <2> QED BY <2>1, <2>2, <2>3 DEF bookVars, jobVars, bindVars
<1>2. PICK w \in Claim(n) : OthersWire(n, w) /\ reserved[w] = Unavailable
  BY <1>1
<1>3. w \in SinkChain(n)
  BY <1>2 DEF Claim, DriverChain
<1>4. PICK a \in ArcsOf(n) \ pre_routed : w = ArcSink[a]
  BY <1>2, <1>3, ChainStopsAtSink
<1>5. routed = pre_routed /\ Claiming
  BY <1>1 DEF Unstarted
<1> QED BY <1>1, <1>2, <1>4, <1>5 DEF Claiming, ArcsOf

LEMMA OnlyStrongThrows ==
    ASSUME ConstantsStart, WaysFit, Sound, [Next]_vars, pc # "crashed", pc' = "crashed",
           ~\E n \in Nets : ReserveWires(n)
    PROVE  \E n \in Nets \cap {net'}, w \in Wires : Strong(n, w)'
<1> USE DEF Sound, Finishing
<1>1. CASE \E t \in Workers, a \in Arcs : RipupArc(t, a)
  BY <1>1 DEF RipupArc, Active, RipupThrows, Routing, Routes, RoutesComplete
<1>2. CASE \E t \in Workers, a \in Arcs : RouteArc(t, a)
  <2>1. PICK t \in Workers, a \in Arcs : RouteArc(t, a)
    BY <1>2
  <2>2. PICK path \in PathsFor(t, a, Tree(ArcNet[a])) :
           ~RouteFits(ArcNet[a],
               [w \in {PipDst[path[i]] : i \in 1..Len(path)} |->
                   CHOOSE p \in {path[i] : i \in 1..Len(path)} : PipDst[p] = w])
    BY <2>1 DEF RouteArc
  <2> QED BY <2>2, PathFits
<1>3. CASE UpdateCongestion
  BY <1>3, DelaysFit DEF UpdateCongestion
<1>4. CASE \E a \in Arcs : CheckArc(a)
  <2>1. PICK a \in Arcs : CheckArc(a)
    BY <1>4
  <2>2. pc = "bind" /\ a \in arcs_left
    BY <2>1 DEF CheckArc
  <2>3. a \in routed /\ ~Complete(net, ArcSink[a])
    BY <2>1, <2>2 DEF CheckArc
  <2>4. ArcNet[a] = net
    BY <2>2 DEF Routing, Binding, BindPlan
  <2> QED BY <2>3, <2>4 DEF Routing, Routes, RoutesComplete
<1>5. CASE BindRoot
  <2>1. pc = "bind" /\ to_bind.root # NoWire /\ ~checkWireAvail(to_bind.root)
    BY <1>5 DEF BindRoot
  <2>2. to_bind.root \in Wires
    BY <2>1 DEF Routing, Binding, BindPlan
  <2> QED BY <2>1, <2>2, FreeIsUnbound DEF PlanFits, checkWireAvail
<1>6. CASE \E p \in Pips : BindPip(p)
  <2>1. PICK p \in Pips : BindPip(p)
    BY <1>6
  <2>2. /\ pc = "bind" /\ p \in to_bind.pips
        /\ ~(checkWireAvail(PipDst[p]) /\ switches_locked[Switch[p]] = NoWire)
        /\ UNCHANGED <<wires, net>>
    BY <2>1 DEF BindPip, archVars
  <2>3. net \in Nets
    <3>1. to_bind # NothingToBind
      BY <2>2 DEF NothingToBind
    <3> QED BY <3>1 DEF Routing, Binding, BindPlan
  <2>4. PipDst[p] \in Wires
    BY RoutingAssumption
  <2>5. ~Releasable(net)
    BY <2>2, <2>4, FreeIsUnbound DEF PlanFits, PipFree, checkWireAvail
  <2>6. PICK w \in Wires : Strong(net, w)
    BY <2>5 DEF Releasable
  <2>7. Strong(net, w)'
    BY <2>2, <2>6 DEF Strong
  <2> QED BY <2>2, <2>3, <2>7
<1> QED BY <1>1, <1>2, <1>3, <1>4, <1>5, <1>6, ThrowingSteps

\* Once it has thrown the router takes no step.
LEMMA ThrownIsOver ==
    ASSUME [Next]_vars, pc = "crashed" PROVE UNCHANGED vars
<1>1. ~SetupWires /\ ~(\E n \in Nets : ReserveWires(n)) /\ ~ReserveDone /\ ~DoRoute /\ ~NextStage
  BY DEF SetupWires, ReserveWires, ReserveDone, DoRoute, NextStage
<1>2. ~(\E t \in Workers, n \in Nets : TakeNet(t, n)) /\ ~(\E t \in Workers, a \in Arcs : KeepArc(t, a))
  BY DEF TakeNet, KeepArc, Active
<1>3. ~(\E t \in Workers, a \in Arcs : RipupArc(t, a)) /\ ~(\E t \in Workers, a \in Arcs : RouteArc(t, a))
  BY DEF RipupArc, RouteArc, Active
<1>4. ~(\E t \in Workers, a \in Arcs : SinkDone(t, a)) /\ ~(\E t \in Workers, a \in Arcs : RouteFails(t, a))
  BY DEF SinkDone, RouteFails, Active
<1>5. ~(\E t \in Workers : NetDone(t)) /\ ~(\E n \in Nets : BindNet(n)) /\ ~(\E w \in Wires : UnbindOld(w))
  BY DEF NetDone, BindNet, UnbindOld, Active
<1>6. ~NetBound /\ ~AllBound /\ ~BindRoot /\ ~(\E p \in Pips : BindPip(p)) /\ ~UpdateCongestion
  BY DEF NetBound, AllBound, BindRoot, BindPip, UpdateCongestion
<1>7. ~(\E a \in Arcs : CheckArc(a))
  BY DEF CheckArc
<1> QED BY <1>1, <1>2, <1>3, <1>4, <1>5, <1>6, <1>7 DEF Next, RouteStep, BindStep, Returned

LEMMA StepNoAssertion ==
    ASSUME ConstantsStart, WaysFit, Sound, Unstarted, NoAssertionFails, [Next]_vars
    PROVE  NoAssertionFails'
<1>1. CASE pc = "crashed"
  <2>1. UNCHANGED <<pc, wires, net, job, arcs, routed, reserved>>
    BY <1>1, ThrownIsOver DEF vars, archVars, bookVars, jobVars, bindVars
  <2> QED BY <2>1 DEF NoAssertionFails, Claiming
<1>2. ASSUME pc # "crashed", pc' = "crashed", NEW n \in Nets, ReserveWires(n)
      PROVE  NoAssertionFails'
  <2>1. arcs \subseteq Arcs
    BY DEF Sound, Finishing, Routing, Binding, BindPlan
  <2> QED BY <1>2, <2>1, ClaimThrows DEF NoAssertionFails
<1>3. CASE pc # "crashed" /\ pc' = "crashed" /\ ~\E n \in Nets : ReserveWires(n)
  <2>1. PICK n \in Nets \cap {net'}, w \in Wires : Strong(n, w)'
    BY <1>3, OnlyStrongThrows
  <2>2. wires'[n][w] # Unbound /\ wires'[n][w].strength > STRENGTH_STRONG
    BY <2>1 DEF Strong
  <2> QED BY <2>1, <2>2 DEF NoAssertionFails
<1>4. CASE pc' # "crashed"
  BY <1>4 DEF NoAssertionFails
<1> QED BY <1>1, <1>2, <1>3, <1>4

LEMMA InitSound ==
    ASSUME \A d \in Designs : /\ OneValue(d.arcs, d.routing)
                              /\ WellRooted(d.routing) /\ OwnStarts(d),
           Init
    PROVE  Sound /\ Unstarted /\ NoAssertionFails
<1>1. Finishing
  BY InitFinishing
<1>2. ResourceBooks
  BY InitResources
<1>3. Grounded /\ BooksBare /\ BodySwitches
  BY InitGrounded
<1>4. PlanFits /\ NoAssertionFails
  BY DEF Init, PlanFits, NoAssertionFails
<1>5. Unstarted
  BY DEF Init, Unstarted, Claiming, Idle
<1> QED BY <1>1, <1>2, <1>3, <1>4, <1>5 DEF Sound

LEMMA StepSound ==
    ASSUME ConstantsStart, SinksEnd, WaysFit, Sound, [Next]_vars PROVE Sound'
<1> USE DEF Sound
<1>1. Finishing'
  BY StepFinishing
<1>2. Routing /\ Routing' /\ Books' /\ SetupRooted /\ DrivesItsWire /\ StartsFree /\ RoundOfBinding
  BY <1>1 DEF Finishing, Routing
<1>3. ResourceBooks'
  BY <1>2, StepResources
<1>4. Grounded'
  BY <1>2, StepGrounded
<1>5. BooksBare'
  BY <1>2, StepBare
<1>6. BodySwitches'
  BY <1>2, StepSwitches
<1>7. PlanFits'
  BY <1>2, StepPlanFits
<1> QED BY <1>1, <1>3, <1>4, <1>5, <1>6, <1>7

\* No assertion, lookup or internal error of the router throws, and no call of the
\* architecture fails that binds what was planned, but for a sink that is closed to
\* all nets when wires are claimed, and for a net with a wire bound more strongly than
\* the router releases when it is bound: for every device, netlist and order of the
\* steps, provided that the ways to the sinks agree with themselves, that no pip
\* leaves a sink, that nets do not meet where they start, and that the routing given
\* leads back to those starts with one value of each resource.
THEOREM NothingThrows ==
    ASSUME ConstantsStart, SinksEnd, WaysFit,
           \A d \in Designs : /\ OneValue(d.arcs, d.routing)
                              /\ WellRooted(d.routing) /\ OwnStarts(d)
    PROVE  Spec => []NoAssertionFails
<1> DEFINE Inv == Sound /\ Unstarted /\ NoAssertionFails
<1>1. Init => Inv
  BY InitSound
<1>2. Inv /\ [Next]_vars => Inv'
  BY StepSound, StepUnstarted, StepNoAssertion
<1>3. Inv => NoAssertionFails
  OBVIOUS
<1> QED BY <1>1, <1>2, <1>3, PTL DEF Spec
=============================================================================

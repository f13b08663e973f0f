------------------------- MODULE Ice40Routing_proofs -------------------------
(***************************************************************************)
(* The iCE40 binding tables and switch locks stay consistent for any       *)
(* device, any number of nets and every client, and implement the          *)
(* single-owner map of RouteMap.                                           *)
(***************************************************************************)
EXTENDS RoutedDesign, FiniteSetTheorems, TLAPS

-----------------------------------------------------------------------------
(* Types. *)

LEMMA ArchStepTypes == ASSUME ArchTypeOK, ArchNext PROVE ArchTypeOK'
<1> USE RoutingAssumption
<1>1. CASE \E w \in Wires, n \in Nets, s \in Strengths : bindWire(w, n, s)
  <2>1. PICK w \in Wires, n \in Nets, s \in Strengths : bindWire(w, n, s)
    BY <1>1
  <2>2. [pip |-> NoPip, strength |-> s] \in PipMap
    BY DEF PipMap
  <2> QED BY <2>1, <2>2 DEF ArchTypeOK, bindWire
<1>2. CASE \E w \in Wires : unbindWire(w)
  <2>1. PICK w \in Wires : unbindWire(w)
    BY <1>2
  <2>2. wire_to_net[w] \in Nets
    BY <2>1 DEF ArchTypeOK, unbindWire
  <2>3. wires[wire_to_net[w]][w].pip \in Pips \cup {NoPip}
    BY <2>1, <2>2 DEF ArchTypeOK, unbindWire, PipMap
  <2> QED BY <2>1, <2>2, <2>3 DEF ArchTypeOK, unbindWire
<1>3. CASE \E p \in Pips, n \in Nets, s \in Strengths : bindPip(p, n, s)
  <2>1. PICK p \in Pips, n \in Nets, s \in Strengths : bindPip(p, n, s)
    BY <1>3
  <2>2. [pip |-> p, strength |-> s] \in PipMap /\ PipDst[p] \in Wires
    BY DEF PipMap
  <2> QED BY <2>1, <2>2 DEF ArchTypeOK, bindPip
<1>4. CASE \E p \in Pips : unbindPip(p)
  <2>1. PICK p \in Pips : unbindPip(p)
    BY <1>4
  <2>2. pip_to_net[p] \in Nets /\ PipDst[p] \in Wires
    BY <2>1 DEF ArchTypeOK, unbindPip
  <2> QED BY <2>1, <2>2 DEF ArchTypeOK, unbindPip
<1> QED BY <1>1, <1>2, <1>3, <1>4 DEF ArchNext

\* The tables of ice40/arch.h keep their types under every call.
THEOREM ArchTypeCorrect == ArchSpec => []ArchTypeOK
<1>1. ArchInit => ArchTypeOK
  BY RoutingAssumption DEF ArchInit, ArchTypeOK
<1>2. ArchTypeOK /\ [ArchNext]_archVars => ArchTypeOK'
  BY ArchStepTypes DEF archVars, ArchTypeOK
<1> QED BY <1>1, <1>2, PTL DEF ArchSpec

-----------------------------------------------------------------------------
(* Consistency.  The five parts are inductive together: releasing a wire    *)
(* also unlocks the switch of the pip it names, and only OnePipPerSwitch    *)
(* says that no other pip relied on that lock.                              *)

LEMMA BindWireConsistent ==
    ASSUME ArchTypeOK, Consistent,
           NEW w \in Wires, NEW n \in Nets, NEW s \in Strengths,
           bindWire(w, n, s)
    PROVE  RecordedIsBound' /\ BoundIsRecorded' /\ PipDrivesItsWire'
           /\ LockedSwitchIsUsed'
<1> USE RoutingAssumption
<1> DEFINE b == [pip |-> NoPip, strength |-> s]
<1>1. b \in PipMap /\ b # Unbound /\ b.pip = NoPip
  BY DEF PipMap
<1>2. \A m \in Nets : wires[m][w] = Unbound
  BY DEF Consistent, RecordedIsBound, bindWire, checkWireAvail, ArchTypeOK
<1>3. \A m \in Nets, v \in Wires :
         wires'[m][v] = IF m = n /\ v = w THEN b ELSE wires[m][v]
  BY DEF ArchTypeOK, bindWire
<1>4. \A v \in Wires : wire_to_net'[v] = IF v = w THEN n ELSE wire_to_net[v]
  BY DEF ArchTypeOK, bindWire
<1>5. pip_to_net' = pip_to_net /\ switches_locked' = switches_locked
  BY DEF bindWire
<1> HIDE DEF b
<1>6. RecordedIsBound'
  BY <1>1, <1>2, <1>3, <1>4, <1>5 DEF Consistent, RecordedIsBound
<1>7. BoundIsRecorded'
  <2> SUFFICES ASSUME NEW v \in Wires, wire_to_net'[v] # NoNet
               PROVE  wires'[wire_to_net'[v]][v] # Unbound
    BY DEF BoundIsRecorded
  <2>1. CASE v = w
    BY <2>1, <1>1, <1>3, <1>4
  <2>2. CASE v # w
    BY <2>2, <1>3, <1>4 DEF Consistent, BoundIsRecorded, ArchTypeOK
  <2> QED BY <2>1, <2>2
<1>8. PipDrivesItsWire'
  <2> SUFFICES ASSUME NEW p \in Pips, pip_to_net[p] # NoNet
               PROVE  /\ wires'[pip_to_net[p]][PipDst[p]] # Unbound
                      /\ wires'[pip_to_net[p]][PipDst[p]].pip = p
                      /\ switches_locked[Switch[p]] = PipDst[p]
    BY <1>5 DEF PipDrivesItsWire
  <2>1. pip_to_net[p] \in Nets /\ PipDst[p] \in Wires
    BY DEF ArchTypeOK
  <2>2. /\ wires[pip_to_net[p]][PipDst[p]] # Unbound
        /\ wires[pip_to_net[p]][PipDst[p]].pip = p
        /\ switches_locked[Switch[p]] = PipDst[p]
    BY DEF Consistent, PipDrivesItsWire
  <2>3. PipDst[p] # w
    BY <2>1, <2>2, <1>2
  <2> QED BY <1>3, <2>1, <2>2, <2>3
<1>9. LockedSwitchIsUsed'
  BY <1>5 DEF Consistent, LockedSwitchIsUsed
<1> QED BY <1>6, <1>7, <1>8, <1>9

LEMMA BindPipConsistent ==
    ASSUME ArchTypeOK, Consistent,
           NEW p \in Pips, NEW n \in Nets, NEW s \in Strengths,
           bindPip(p, n, s)
    PROVE  RecordedIsBound' /\ BoundIsRecorded' /\ PipDrivesItsWire'
           /\ LockedSwitchIsUsed'
<1> USE RoutingAssumption
<1> DEFINE w == PipDst[p]
           b == [pip |-> p, strength |-> s]
<1>1. b \in PipMap /\ b # Unbound /\ b.pip = p /\ w \in Wires
  BY DEF PipMap
<1>2. \A m \in Nets : wires[m][w] = Unbound
  BY <1>1 DEF Consistent, RecordedIsBound, bindPip, checkWireAvail, ArchTypeOK
<1>3. \A m \in Nets, v \in Wires :
         wires'[m][v] = IF m = n /\ v = w THEN b ELSE wires[m][v]
  BY <1>1 DEF ArchTypeOK, bindPip
<1>4. \A v \in Wires : wire_to_net'[v] = IF v = w THEN n ELSE wire_to_net[v]
  BY <1>1 DEF ArchTypeOK, bindPip
<1>5. \A q \in Pips : pip_to_net'[q] = IF q = p THEN n ELSE pip_to_net[q]
  BY DEF ArchTypeOK, bindPip
<1>6. \A t \in Switches : switches_locked'[t] =
         IF t = Switch[p] THEN w ELSE switches_locked[t]
  BY DEF ArchTypeOK, bindPip
<1>7. pip_to_net[p] = NoNet /\ switches_locked[Switch[p]] = NoWire
  BY DEF bindPip
<1>8. w = PipDst[p]
  OBVIOUS
<1> HIDE DEF b, w
<1>9. RecordedIsBound'
  <2> SUFFICES ASSUME NEW m \in Nets, NEW v \in Wires, wires'[m][v] # Unbound
               PROVE  /\ wire_to_net'[v] = m
                      /\ wires'[m][v].pip # NoPip =>
                            /\ PipDst[wires'[m][v].pip] = v
                            /\ pip_to_net'[wires'[m][v].pip] = m
    BY DEF RecordedIsBound
  <2>1. CASE m = n /\ v = w
    BY <2>1, <1>1, <1>3, <1>4, <1>5, <1>8
  <2>2. CASE ~(m = n /\ v = w)
    <3>1. wires'[m][v] = wires[m][v] /\ v # w
      BY <2>2, <1>2, <1>3
    <3>2. /\ wire_to_net[v] = m
          /\ wires[m][v].pip # NoPip => /\ PipDst[wires[m][v].pip] = v
                                        /\ pip_to_net[wires[m][v].pip] = m
      BY <3>1 DEF Consistent, RecordedIsBound
    <3>3. wires[m][v].pip \in Pips \cup {NoPip}
      BY <3>1 DEF ArchTypeOK, PipMap
    <3> QED BY <3>1, <3>2, <3>3, <1>4, <1>5, <1>7
  <2> QED BY <2>1, <2>2
<1>10. BoundIsRecorded'
  <2> SUFFICES ASSUME NEW v \in Wires, wire_to_net'[v] # NoNet
               PROVE  wires'[wire_to_net'[v]][v] # Unbound
    BY DEF BoundIsRecorded
  <2>1. CASE v = w
    BY <2>1, <1>1, <1>3, <1>4
  <2>2. CASE v # w
    BY <2>2, <1>3, <1>4 DEF Consistent, BoundIsRecorded, ArchTypeOK
  <2> QED BY <2>1, <2>2
<1>11. PipDrivesItsWire'
  <2> SUFFICES ASSUME NEW q \in Pips, pip_to_net'[q] # NoNet
               PROVE  /\ wires'[pip_to_net'[q]][PipDst[q]] # Unbound
                      /\ wires'[pip_to_net'[q]][PipDst[q]].pip = q
                      /\ switches_locked'[Switch[q]] = PipDst[q]
    BY DEF PipDrivesItsWire
  <2>1. CASE q = p
    BY <2>1, <1>1, <1>3, <1>5, <1>6, <1>8
  <2>2. CASE q # p
    <3>1. pip_to_net'[q] = pip_to_net[q] /\ pip_to_net[q] \in Nets
      BY <2>2, <1>5 DEF ArchTypeOK
    <3>2. /\ wires[pip_to_net[q]][PipDst[q]] # Unbound
          /\ wires[pip_to_net[q]][PipDst[q]].pip = q
          /\ switches_locked[Switch[q]] = PipDst[q]
      BY <3>1 DEF Consistent, PipDrivesItsWire
    <3>3. PipDst[q] # w /\ PipDst[q] \in Wires
      BY <3>1, <3>2, <1>2
    <3>4. Switch[q] # Switch[p]
      BY <3>2, <3>3, <1>7
    <3> QED BY <1>3, <1>6, <3>1, <3>2, <3>3, <3>4
  <2> QED BY <2>1, <2>2
<1>12. LockedSwitchIsUsed'
  <2> SUFFICES ASSUME NEW t \in Switches, switches_locked'[t] # NoWire
               PROVE  \E q \in Pips : Switch[q] = t /\ pip_to_net'[q] # NoNet
    BY DEF LockedSwitchIsUsed
  <2>1. CASE t = Switch[p]
    BY <2>1, <1>5
  <2>2. CASE t # Switch[p]
    <3>1. PICK q \in Pips : Switch[q] = t /\ pip_to_net[q] # NoNet
      BY <2>2, <1>6 DEF Consistent, LockedSwitchIsUsed
    <3> QED BY <3>1, <2>2, <1>5
  <2> QED BY <2>1, <2>2
<1> QED BY <1>9, <1>10, <1>11, <1>12

LEMMA UnbindWireConsistent ==
    ASSUME ArchTypeOK, Consistent, NEW w \in Wires, unbindWire(w)
    PROVE  RecordedIsBound' /\ BoundIsRecorded' /\ PipDrivesItsWire'
           /\ LockedSwitchIsUsed'
<1> USE RoutingAssumption
<1> DEFINE n == wire_to_net[w]
           d == wires[n][w].pip
<1>1. n \in Nets /\ wires[n][w] # Unbound
  BY DEF unbindWire, ArchTypeOK
<1>2. d \in Pips \cup {NoPip}
  BY <1>1 DEF ArchTypeOK, PipMap
<1>3. \A m \in Nets, v \in Wires :
         wires'[m][v] = IF m = n /\ v = w THEN Unbound ELSE wires[m][v]
  BY <1>1 DEF ArchTypeOK, unbindWire
<1>4. \A v \in Wires : wire_to_net'[v] = IF v = w THEN NoNet ELSE wire_to_net[v]
  BY DEF ArchTypeOK, unbindWire
<1>5. \A q \in Pips : pip_to_net'[q] = IF q = d THEN NoNet ELSE pip_to_net[q]
  BY <1>2 DEF ArchTypeOK, unbindWire
<1>6. \A t \in Switches : switches_locked'[t] =
         IF d # NoPip /\ t = Switch[d] THEN NoWire ELSE switches_locked[t]
  BY <1>2 DEF ArchTypeOK, unbindWire
<1>7. d # NoPip => PipDst[d] = w /\ pip_to_net[d] = n
  BY <1>1 DEF Consistent, RecordedIsBound
<1>8. \A m \in Nets : wires[m][w] # Unbound => m = n
  BY DEF Consistent, RecordedIsBound
<1>9. d = wires[n][w].pip /\ n = wire_to_net[w]
  OBVIOUS
<1> HIDE DEF n, d
<1>10. RecordedIsBound'
  <2> SUFFICES ASSUME NEW m \in Nets, NEW v \in Wires, wires'[m][v] # Unbound
               PROVE  /\ wire_to_net'[v] = m
                      /\ wires'[m][v].pip # NoPip =>
                            /\ PipDst[wires'[m][v].pip] = v
                            /\ pip_to_net'[wires'[m][v].pip] = m
    BY DEF RecordedIsBound
  <2>1. wires'[m][v] = wires[m][v] /\ v # w
    BY <1>3, <1>8
  <2>2. /\ wire_to_net[v] = m
        /\ wires[m][v].pip # NoPip => /\ PipDst[wires[m][v].pip] = v
                                      /\ pip_to_net[wires[m][v].pip] = m
    BY <2>1 DEF Consistent, RecordedIsBound
  <2>3. wires[m][v].pip \in Pips \cup {NoPip}
    BY <2>1 DEF ArchTypeOK, PipMap
  <2>4. wires[m][v].pip # NoPip => wires[m][v].pip # d
    BY <2>1, <2>2, <1>7
  <2> QED BY <2>1, <2>2, <2>3, <2>4, <1>4, <1>5
<1>11. BoundIsRecorded'
  <2> SUFFICES ASSUME NEW v \in Wires, wire_to_net'[v] # NoNet
               PROVE  wires'[wire_to_net'[v]][v] # Unbound
    BY DEF BoundIsRecorded
  <2>1. v # w /\ wire_to_net'[v] = wire_to_net[v]
    BY <1>4
  <2> QED BY <2>1, <1>3 DEF Consistent, BoundIsRecorded, ArchTypeOK
<1>12. PipDrivesItsWire'
  <2> SUFFICES ASSUME NEW q \in Pips, pip_to_net'[q] # NoNet
               PROVE  /\ wires'[pip_to_net'[q]][PipDst[q]] # Unbound
                      /\ wires'[pip_to_net'[q]][PipDst[q]].pip = q
                      /\ switches_locked'[Switch[q]] = PipDst[q]
    BY DEF PipDrivesItsWire
  <2>1. q # d /\ pip_to_net'[q] = pip_to_net[q] /\ pip_to_net[q] \in Nets
    BY <1>5 DEF ArchTypeOK
  <2>2. /\ wires[pip_to_net[q]][PipDst[q]] # Unbound
        /\ wires[pip_to_net[q]][PipDst[q]].pip = q
        /\ switches_locked[Switch[q]] = PipDst[q]
    BY <2>1 DEF Consistent, PipDrivesItsWire
  <2>3. PipDst[q] # w /\ PipDst[q] \in Wires
    BY <2>1, <2>2, <1>8, <1>9
  <2>4. d # NoPip => Switch[q] # Switch[d]
    BY <2>1, <1>1, <1>2, <1>7 DEF Consistent, OnePipPerSwitch
  <2> QED BY <1>3, <1>6, <2>1, <2>2, <2>3, <2>4
<1>13. LockedSwitchIsUsed'
  <2> SUFFICES ASSUME NEW t \in Switches, switches_locked'[t] # NoWire
               PROVE  \E q \in Pips : Switch[q] = t /\ pip_to_net'[q] # NoNet
    BY DEF LockedSwitchIsUsed
  <2>1. PICK q \in Pips : Switch[q] = t /\ pip_to_net[q] # NoNet
    BY <1>6 DEF Consistent, LockedSwitchIsUsed
  <2>2. q # d
    BY <2>1, <1>6
  <2> QED BY <2>1, <2>2, <1>5
<1> QED BY <1>10, <1>11, <1>12, <1>13

\* unbindPip does what unbindWire does to the wire the pip drives.
LEMMA UnbindPipIsUnbindWire ==
    ASSUME ArchTypeOK, Consistent, NEW p \in Pips, unbindPip(p)
    PROVE  unbindWire(PipDst[p])
<1> USE RoutingAssumption
<1>1. pip_to_net[p] \in Nets /\ PipDst[p] \in Wires /\ p # NoPip
  BY DEF unbindPip, ArchTypeOK
<1>2. /\ wires[pip_to_net[p]][PipDst[p]] # Unbound
      /\ wires[pip_to_net[p]][PipDst[p]].pip = p
  BY <1>1 DEF Consistent, PipDrivesItsWire
<1>3. wire_to_net[PipDst[p]] = pip_to_net[p]
  BY <1>1, <1>2 DEF Consistent, RecordedIsBound
<1> QED BY <1>1, <1>2, <1>3 DEF unbindPip, unbindWire

\* Every call of the architecture keeps its tables consistent; the router's
\* theorem rests on this lemma too.
LEMMA ArchStepConsistent ==
    ASSUME ArchTypeOK, Consistent, ArchNext PROVE Consistent'
<1>1. RecordedIsBound' /\ BoundIsRecorded' /\ PipDrivesItsWire' /\ LockedSwitchIsUsed'
  <2>1. CASE \E w \in Wires, n \in Nets, s \in Strengths : bindWire(w, n, s)
    BY <2>1, BindWireConsistent
  <2>2. CASE \E w \in Wires : unbindWire(w)
    BY <2>2, UnbindWireConsistent
  <2>3. CASE \E p \in Pips, n \in Nets, s \in Strengths : bindPip(p, n, s)
    BY <2>3, BindPipConsistent
  <2>4. CASE \E p \in Pips : unbindPip(p)
    <3>1. PICK p \in Pips : unbindPip(p)
      BY <2>4
    <3>2. unbindWire(PipDst[p]) /\ PipDst[p] \in Wires
      BY <3>1, UnbindPipIsUnbindWire, RoutingAssumption
    <3> QED BY <3>2, UnbindWireConsistent
  <2> QED BY <2>1, <2>2, <2>3, <2>4 DEF ArchNext
<1>2. ArchTypeOK'
  BY ArchStepTypes
<1>3. OnePipPerSwitch'    \* two pips of one switch drive one wire, which has one pip
  <2> SUFFICES ASSUME NEW p \in Pips, NEW q \in Pips, Switch[p] = Switch[q],
                      pip_to_net'[p] # NoNet, pip_to_net'[q] # NoNet
               PROVE  p = q
    BY DEF OnePipPerSwitch
  <2>1. PipDst[p] = PipDst[q] /\ PipDst[p] \in Wires
    BY <1>1, RoutingAssumption DEF PipDrivesItsWire
  <2>2. pip_to_net'[p] \in Nets /\ pip_to_net'[q] \in Nets
    BY <1>2 DEF ArchTypeOK
  <2>3. /\ pip_to_net'[p] = wire_to_net'[PipDst[p]]
        /\ pip_to_net'[q] = wire_to_net'[PipDst[q]]
    BY <1>1, <2>1, <2>2 DEF PipDrivesItsWire, RecordedIsBound
  <2> QED BY <1>1, <2>1, <2>3 DEF PipDrivesItsWire
<1> QED BY <1>1, <1>3 DEF Consistent

\* The tables of ice40/arch.h agree in every reachable state, whatever the
\* clients call.
THEOREM ArchStaysConsistent == ArchSpec => []Consistent
<1>1. ArchInit => Consistent
  BY RoutingAssumption
  DEF ArchInit, Consistent, RecordedIsBound, BoundIsRecorded, PipDrivesItsWire,
      LockedSwitchIsUsed, OnePipPerSwitch
<1>2. ArchTypeOK /\ Consistent /\ [ArchNext]_archVars => Consistent'
  <2> SUFFICES ASSUME ArchTypeOK, Consistent, [ArchNext]_archVars PROVE Consistent'
    OBVIOUS
  <2>1. CASE ArchNext
    BY <2>1, ArchStepConsistent
  <2>2. CASE UNCHANGED archVars
    BY <2>2 DEF archVars, Consistent, RecordedIsBound, BoundIsRecorded,
                PipDrivesItsWire, LockedSwitchIsUsed, OnePipPerSwitch
  <2> QED BY <2>1, <2>2
<1> QED BY <1>1, <1>2, ArchTypeCorrect, PTL DEF ArchSpec

\* A switch is never asked for two settings: what the bitstream writer assumes.
THEOREM SwitchesAreExclusive == ArchSpec => []OnePipPerSwitch
<1>1. Consistent => OnePipPerSwitch
  BY DEF Consistent
<1> QED BY <1>1, ArchStaysConsistent, PTL

-----------------------------------------------------------------------------
(* Refinement of the single-owner map. *)

LEMMA ViewOfABoundWire ==
    ASSUME ArchTypeOK, Consistent, NEW w \in Wires
    PROVE  /\ routeView[w] = Free <=> wire_to_net[w] = NoNet
           /\ wire_to_net[w] # NoNet => routeView[w] \in Abstract!Binding
<1> USE RoutingAssumption
<1>1. CASE wire_to_net[w] = NoNet
  BY <1>1 DEF routeView
<1>2. CASE wire_to_net[w] # NoNet
  <2> DEFINE n == wire_to_net[w]
  <2>1. n \in Nets /\ wires[n][w] \in PipMap
    BY <1>2 DEF ArchTypeOK, Consistent, BoundIsRecorded
  <2>2. routeView[w] = [net |-> n, pip |-> wires[n][w].pip,
                        strength |-> wires[n][w].strength]
    BY <1>2 DEF routeView
  <2>3. routeView[w] \in Abstract!Binding
    BY <2>1, <2>2 DEF PipMap, Abstract!Binding
  <2> QED BY <1>2, <2>3 DEF Abstract!Binding
<1> QED BY <1>1, <1>2

LEMMA BindWireClaims ==
    ASSUME ArchTypeOK, Consistent,
           NEW w \in Wires, NEW n \in Nets, NEW s \in Strengths,
           bindWire(w, n, s)
    PROVE  \E b \in Abstract!Binding : Abstract!Claim(w, b)
<1> USE RoutingAssumption
<1> DEFINE b == [net |-> n, pip |-> NoPip, strength |-> s]
<1>1. b \in Abstract!Binding
  BY DEF Abstract!Binding
<1>2. routeView[w] = Free
  BY DEF routeView, bindWire, checkWireAvail
<1>3. routeView' = [routeView EXCEPT ![w] = b]
  <2>1. \A v \in Wires : routeView'[v] = IF v = w THEN b ELSE routeView[v]
    BY DEF routeView, bindWire, ArchTypeOK
  <2> QED BY <2>1 DEF routeView
<1>4. Abstract!Claim(w, b)
  BY <1>2, <1>3 DEF Abstract!Claim
<1> QED BY <1>1, <1>4

LEMMA BindPipClaims ==
    ASSUME ArchTypeOK, Consistent,
           NEW p \in Pips, NEW n \in Nets, NEW s \in Strengths,
           bindPip(p, n, s)
    PROVE  \E b \in Abstract!Binding : Abstract!Claim(PipDst[p], b)
<1> USE RoutingAssumption
<1> DEFINE b == [net |-> n, pip |-> p, strength |-> s]
           w == PipDst[p]
<1>1. b \in Abstract!Binding /\ w \in Wires
  BY DEF Abstract!Binding
<1>2. routeView[w] = Free
  BY <1>1 DEF routeView, bindPip, checkWireAvail
<1>3. routeView' = [routeView EXCEPT ![w] = b]
  <2>1. \A v \in Wires : routeView'[v] = IF v = w THEN b ELSE routeView[v]
    BY DEF routeView, bindPip, ArchTypeOK
  <2>2. DOMAIN routeView = Wires /\ routeView = [v \in Wires |-> routeView[v]]
    BY DEF routeView
  <2>3. routeView' = [v \in Wires |-> routeView'[v]]
    BY DEF routeView
  <2> HIDE DEF b, w
  <2> QED BY ONLY <1>1, <2>1, <2>2, <2>3
<1>4. Abstract!Claim(w, b)
  BY <1>2, <1>3 DEF Abstract!Claim
<1> QED BY <1>1, <1>4

LEMMA UnbindWireReleases ==
    ASSUME ArchTypeOK, Consistent, NEW w \in Wires, unbindWire(w)
    PROVE  Abstract!Release(w)
<1> USE RoutingAssumption
<1>1. wire_to_net[w] \in Nets
  BY DEF unbindWire, ArchTypeOK
<1>2. routeView[w] # Free
  BY <1>1, ViewOfABoundWire
<1>3. \A v \in Wires : routeView'[v] = IF v = w THEN Free ELSE routeView[v]
  <2> SUFFICES ASSUME NEW v \in Wires
               PROVE  routeView'[v] = IF v = w THEN Free ELSE routeView[v]
    OBVIOUS
  <2>1. CASE v = w
    BY <2>1 DEF routeView, unbindWire, ArchTypeOK
  <2>2. CASE v # w
    <3>1. wire_to_net'[v] = wire_to_net[v]
      BY <2>2 DEF unbindWire, ArchTypeOK
    <3>2. wire_to_net[v] # NoNet =>
             wires'[wire_to_net[v]][v] = wires[wire_to_net[v]][v]
      BY <1>1, <2>2 DEF unbindWire, ArchTypeOK
    <3> QED BY <2>2, <3>1, <3>2 DEF routeView
  <2> QED BY <2>1, <2>2
<1>4. routeView' = [routeView EXCEPT ![w] = Free]
  BY <1>3 DEF routeView
<1> QED BY <1>2, <1>4 DEF Abstract!Release

\* The four tables of the iCE40 architecture implement the single-owner map:
\* whatever clients call, a wire is claimed when free and released by its owner.
THEOREM ArchImplementsRouteMap == ArchSpec => AbstractSpec
<1> USE RoutingAssumption
<1>1. ArchInit => Abstract!Init
  BY DEF ArchInit, Abstract!Init, routeView
<1>2. ArchTypeOK /\ Consistent /\ [ArchNext]_archVars => [Abstract!Next]_routeView
  <2> SUFFICES ASSUME ArchTypeOK, Consistent, [ArchNext]_archVars
               PROVE  [Abstract!Next]_routeView
    OBVIOUS
  <2>1. CASE \E w \in Wires, n \in Nets, s \in Strengths : bindWire(w, n, s)
    BY <2>1, BindWireClaims DEF Abstract!Next
  <2>2. CASE \E w \in Wires : unbindWire(w)
    BY <2>2, UnbindWireReleases DEF Abstract!Next
  <2>3. CASE \E p \in Pips, n \in Nets, s \in Strengths : bindPip(p, n, s)
    BY <2>3, BindPipClaims DEF Abstract!Next
  <2>4. CASE \E p \in Pips : unbindPip(p)
    <3>1. PICK p \in Pips : unbindPip(p)
      BY <2>4
    <3>2. unbindWire(PipDst[p]) /\ PipDst[p] \in Wires
      BY <3>1, UnbindPipIsUnbindWire
    <3> QED BY <3>2, UnbindWireReleases DEF Abstract!Next
  <2>5. CASE UNCHANGED archVars
    BY <2>5 DEF archVars, routeView
  <2> QED BY <2>1, <2>2, <2>3, <2>4, <2>5 DEF ArchNext
<1> QED BY <1>1, <1>2, ArchTypeCorrect, ArchStaysConsistent, PTL
        DEF ArchSpec, AbstractSpec, Abstract!Spec

-----------------------------------------------------------------------------
(* The tables that InitTables makes of the routing a router is given.       *)

\* The owner InitTables gives a wire is the one net that lists it.
LEMMA InitOwner ==
    ASSUME wires \in [Nets -> [Wires -> PipMap \cup {Unbound}]],
           InitialRouting(wires), InitTables
    PROVE  /\ \A w \in Wires : wire_to_net[w] # NoNet =>
                 /\ wire_to_net[w] \in Nets
                 /\ wires[wire_to_net[w]][w] # Unbound
           /\ \A n \in Nets, w \in Wires :
                 wires[n][w] # Unbound => wire_to_net[w] = n
<1> USE RoutingAssumption
<1>3. ASSUME NEW w \in Wires
      PROVE  wire_to_net[w] = IF \E n \in Nets : wires[n][w] # Unbound
                              THEN CHOOSE n \in Nets : wires[n][w] # Unbound
                              ELSE NoNet
  BY DEF InitTables
<1>4. ASSUME NEW w \in Wires, wire_to_net[w] # NoNet
      PROVE  wire_to_net[w] \in Nets /\ wires[wire_to_net[w]][w] # Unbound
  BY <1>3, <1>4
<1>5. ASSUME NEW n \in Nets, NEW w \in Wires, wires[n][w] # Unbound
      PROVE  wire_to_net[w] = n
  <2>1. wire_to_net[w] \in Nets /\ wires[wire_to_net[w]][w] # Unbound
    BY <1>3, <1>5
  <2>2. \A m, k \in Nets, v \in Wires :
           wires[m][v] # Unbound /\ wires[k][v] # Unbound => m = k
    BY DEF InitialRouting
  <2> QED BY <1>5, <2>1, <2>2
<1> QED BY <1>4, <1>5

\* The same for pips and switches.
LEMMA InitPips ==
    ASSUME wires \in [Nets -> [Wires -> PipMap \cup {Unbound}]],
           InitialRouting(wires), InitTables
    PROVE  /\ \A p \in Pips : pip_to_net[p] # NoNet =>
                 /\ pip_to_net[p] \in Nets
                 /\ pip_to_net[p] = wire_to_net[PipDst[p]]
                 /\ wires[pip_to_net[p]][PipDst[p]] # Unbound
                 /\ wires[pip_to_net[p]][PipDst[p]].pip = p
           /\ \A n \in Nets, w \in Wires :
                 (wires[n][w] # Unbound /\ wires[n][w].pip # NoPip) =>
                    /\ PipDst[wires[n][w].pip] = w
                    /\ pip_to_net[wires[n][w].pip] = n
<1> USE RoutingAssumption
<1>1. ASSUME NEW p \in Pips
      PROVE  pip_to_net[p] = IF \E n \in Nets : /\ wires[n][PipDst[p]] # Unbound
                                                /\ wires[n][PipDst[p]].pip = p
                             THEN wire_to_net[PipDst[p]] ELSE NoNet
  BY DEF InitTables
<1>2. \A p \in Pips : PipDst[p] \in Wires
  OBVIOUS
<1>3. ASSUME NEW p \in Pips, pip_to_net[p] # NoNet
      PROVE  /\ pip_to_net[p] \in Nets
             /\ pip_to_net[p] = wire_to_net[PipDst[p]]
             /\ wires[pip_to_net[p]][PipDst[p]] # Unbound
             /\ wires[pip_to_net[p]][PipDst[p]].pip = p
  <2>1. PICK n \in Nets : /\ wires[n][PipDst[p]] # Unbound
                          /\ wires[n][PipDst[p]].pip = p
    BY <1>1, <1>3
  <2>2. wire_to_net[PipDst[p]] = n
    BY <1>2, <2>1, InitOwner
  <2>3. pip_to_net[p] = n
    BY <1>1, <2>1, <2>2
  <2> QED BY <2>1, <2>2, <2>3
<1>4. ASSUME NEW n \in Nets, NEW w \in Wires,
             wires[n][w] # Unbound, wires[n][w].pip # NoPip
      PROVE  PipDst[wires[n][w].pip] = w /\ pip_to_net[wires[n][w].pip] = n
  <2>2. PipDst[wires[n][w].pip] = w
    BY <1>4 DEF InitialRouting
  <2>3. wires[n][w].pip \in Pips
    BY <1>4, InitOwner DEF PipMap
  <2>4. wire_to_net[w] = n
    BY <1>4, InitOwner
  <2> QED BY <1>1, <1>4, <2>2, <2>3, <2>4
<1> QED BY <1>3, <1>4

LEMMA InitSwitches ==
    ASSUME wires \in [Nets -> [Wires -> PipMap \cup {Unbound}]],
           InitialRouting(wires), InitTables
    PROVE  /\ \A t \in Switches : switches_locked[t] # NoWire =>
                 \E p \in Pips : /\ Switch[p] = t /\ pip_to_net[p] # NoNet
                                  /\ switches_locked[t] = PipDst[p]
           /\ \A p \in Pips : pip_to_net[p] # NoNet =>
                 switches_locked[Switch[p]] = PipDst[p]
           /\ OnePipPerSwitch
<1> USE RoutingAssumption
<1>1. ASSUME NEW t \in Switches
      PROVE  switches_locked[t] =
               IF \E p \in Pips : Switch[p] = t /\ pip_to_net[p] # NoNet
               THEN PipDst[CHOOSE p \in Pips : Switch[p] = t /\ pip_to_net[p] # NoNet]
               ELSE NoWire
  BY DEF InitTables
<1>2. ASSUME NEW t \in Switches,
             \E p \in Pips : Switch[p] = t /\ pip_to_net[p] # NoNet
      PROVE  \E p \in Pips : /\ Switch[p] = t /\ pip_to_net[p] # NoNet
                              /\ switches_locked[t] = PipDst[p]
  BY <1>1, <1>2
<1>3. OnePipPerSwitch
  <2> SUFFICES ASSUME NEW p \in Pips, NEW q \in Pips, Switch[p] = Switch[q],
                      pip_to_net[p] # NoNet, pip_to_net[q] # NoNet
               PROVE  p = q
    BY DEF OnePipPerSwitch
  <2> DEFINE m == pip_to_net[p]
             n == pip_to_net[q]
             v == PipDst[p]
             w == PipDst[q]
  <2>1. /\ m \in Nets /\ wires[m][v] # Unbound /\ wires[m][v].pip = p
        /\ n \in Nets /\ wires[n][w] # Unbound /\ wires[n][w].pip = q
        /\ m = wire_to_net[v] /\ n = wire_to_net[w]
    BY InitPips
  <2>2. v \in Wires /\ w \in Wires
    OBVIOUS
  <2> HIDE DEF m, n, v, w
  <2>3. p # NoPip /\ q # NoPip
    OBVIOUS
  <2>4. v = w
    BY <2>1, <2>2, <2>3 DEF InitialRouting
  <2> QED BY <2>1, <2>4
<1>4. ASSUME NEW p \in Pips, pip_to_net[p] # NoNet
      PROVE  switches_locked[Switch[p]] = PipDst[p]
  <2>1. Switch[p] \in Switches
    OBVIOUS
  <2>2. PICK q \in Pips : /\ Switch[q] = Switch[p] /\ pip_to_net[q] # NoNet
                          /\ switches_locked[Switch[p]] = PipDst[q]
    BY <1>2, <1>4, <2>1
  <2>3. q = p
    BY <1>3, <1>4, <2>2 DEF OnePipPerSwitch
  <2> QED BY <2>2, <2>3
<1> QED BY <1>1, <1>2, <1>3, <1>4

\* What the routers find when they are called.
LEMMA InitTablesConsistent ==
    ASSUME wires \in [Nets -> [Wires -> PipMap \cup {Unbound}]],
           InitialRouting(wires), InitTables
    PROVE  ArchTypeOK /\ Consistent
<1> USE RoutingAssumption
<1>1. wire_to_net \in [Wires -> Nets \cup {NoNet}]
  BY InitOwner DEF InitTables
<1>2. pip_to_net \in [Pips -> Nets \cup {NoNet}]
  BY InitPips DEF InitTables
<1>3. switches_locked \in [Switches -> Wires \cup {NoWire}]
  <2>1. \A t \in Switches : switches_locked[t] \in Wires \cup {NoWire}
    BY InitSwitches
  <2>2. switches_locked = [t \in Switches |-> switches_locked[t]]
    BY DEF InitTables
  <2> QED BY <2>1, <2>2
<1>4. ArchTypeOK
  BY <1>1, <1>2, <1>3 DEF ArchTypeOK
<1>5. RecordedIsBound /\ BoundIsRecorded
  BY InitOwner, InitPips DEF RecordedIsBound, BoundIsRecorded
<1>6. PipDrivesItsWire /\ LockedSwitchIsUsed /\ OnePipPerSwitch
  BY InitPips, InitSwitches DEF PipDrivesItsWire, LockedSwitchIsUsed
<1> QED BY <1>4, <1>5, <1>6 DEF Consistent

-----------------------------------------------------------------------------
(* Paths. *)

\* A set of positions has a last one.
LEMMA LastIndex ==
    ASSUME NEW k \in Nat, NEW T \in SUBSET (1..k), T # {}
    PROVE  \E i \in T : \A j \in T : j <= i
<1> DEFINE S == 1..k
           From(i) == {j \in T : j >= i}
           Tails == {From(i) : i \in T}
<1>0. IsFiniteSet(S)
  <2>1. 1 \in Int /\ k \in Int
    OBVIOUS
  <2> QED BY <2>1, FS_Interval
<1>1. Tails # {} /\ Tails \subseteq SUBSET S
  OBVIOUS
<1>2. IsWellFoundedOn(StrictSubsetOrdering(S), SUBSET S)
  <2>1. FiniteSubsetsOf(S) = SUBSET S
    <3> HIDE DEF S
    <3> QED BY <1>0, FS_FiniteSubsetsOfFinite
  <2> QED BY <2>1, FS_StrictSubsetOrderingWellFounded
<1>3. PICK U \in Tails : \A V \in Tails : ~(<<V, U>> \in StrictSubsetOrdering(S))
  <2> HIDE DEF Tails, S
  <2> QED BY <1>1, <1>2, WFMin
<1>4. PICK i \in T : U = From(i)
  OBVIOUS
<1>5. ASSUME NEW j \in T, ~(j <= i) PROVE FALSE
  <2>1. j \in Nat /\ i \in Nat /\ j > i
    BY <1>5
  <2>2. (\A l \in T : l >= j => l >= i) /\ i >= i /\ ~(i >= j)
    BY <2>1
  <2>3. From(j) \in SUBSET From(i) /\ i \in From(i) /\ i \notin From(j)
    BY <2>1, <2>2
  <2>4. From(i) \in SUBSET S /\ From(j) \in Tails
    OBVIOUS
  <2> HIDE DEF From, S, Tails
  <2>5. <<From(j), U>> \in StrictSubsetOrdering(S)
    BY <1>4, <2>3, <2>4 DEF StrictSubsetOrdering
  <2> QED BY <1>3, <2>4, <2>5
<1> QED BY <1>5
=============================================================================

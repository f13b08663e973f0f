--------------------------- MODULE BaseArch_proofs ---------------------------
(***************************************************************************)
(* The binding tables of base_arch.h stay consistent for any device and    *)
(* any number of nets, as long as clients test availability before they    *)
(* bind; and they implement the single-owner map of RouteMap.              *)
(***************************************************************************)
EXTENDS BaseArch, TLAPS

-----------------------------------------------------------------------------
(* Each primitive keeps the tables' types. *)

LEMMA PrimitiveTypes ==
    ASSUME TypeOK,
           \/ \E w \in Wires, n \in Nets, s \in Strengths : BindWire(w, n, s)
           \/ \E w \in Wires : UnbindWire(w)
           \/ \E p \in Pips, n \in Nets, s \in Strengths : BindPip(p, n, s)
           \/ \E p \in Pips, n \in Nets : BindPipThrows(p, n)
           \/ \E p \in Pips : UnbindPip(p)
    PROVE  /\ base_wire2net' \in [Wires -> Nets \cup {NoNet}]
           /\ base_pip2net' \in [Pips -> Nets \cup {NoNet}]
           /\ wires' \in [Nets -> [Wires -> PipMap \cup {Unbound}]]
<1> USE BaseArchAssumption
<1>1. CASE \E w \in Wires, n \in Nets, s \in Strengths : BindWire(w, n, s)
  <2>1. PICK w \in Wires, n \in Nets, s \in Strengths : BindWire(w, n, s)
    BY <1>1
  <2>2. [pip |-> NoPip, strength |-> s] \in PipMap
    BY DEF PipMap
  <2> QED BY <2>1, <2>2 DEF TypeOK, BindWire
<1>2. CASE \E w \in Wires : UnbindWire(w)
  <2>1. PICK w \in Wires : UnbindWire(w)
    BY <1>2
  <2>2. base_wire2net[w] \in Nets
    BY <2>1 DEF TypeOK, UnbindWire
  <2>3. wires[base_wire2net[w]][w].pip \in Pips \cup {NoPip}
    BY <2>1, <2>2 DEF TypeOK, UnbindWire, PipMap
  <2>4. base_wire2net' \in [Wires -> Nets \cup {NoNet}]
    BY <2>1 DEF TypeOK, UnbindWire
  <2>5. base_pip2net' \in [Pips -> Nets \cup {NoNet}]
    BY <2>1, <2>3 DEF TypeOK, UnbindWire
  <2>6. wires' \in [Nets -> [Wires -> PipMap \cup {Unbound}]]
    BY <2>1, <2>2 DEF TypeOK, UnbindWire
  <2> QED BY <2>4, <2>5, <2>6
<1>3. CASE \E p \in Pips, n \in Nets, s \in Strengths : BindPip(p, n, s)
  <2>1. PICK p \in Pips, n \in Nets, s \in Strengths : BindPip(p, n, s)
    BY <1>3
  <2>2. [pip |-> p, strength |-> s] \in PipMap
    BY DEF PipMap
  <2>3. PipDst[p] \in Wires
    OBVIOUS
  <2> QED BY <2>1, <2>2, <2>3 DEF TypeOK, BindPip
<1>4. CASE \E p \in Pips, n \in Nets : BindPipThrows(p, n)
  BY <1>4 DEF TypeOK, BindPipThrows
<1>5. CASE \E p \in Pips : UnbindPip(p)
  <2>1. PICK p \in Pips : UnbindPip(p)
    BY <1>5
  <2>2. base_pip2net[p] \in Nets /\ PipDst[p] \in Wires
    BY <2>1 DEF TypeOK, UnbindPip, checkPipAvail
  <2> QED BY <2>1, <2>2 DEF TypeOK, UnbindPip
<1> QED BY <1>1, <1>2, <1>3, <1>4, <1>5

\* Type correctness for every client, also after an assertion has thrown half
\* way through bindPip.
THEOREM TypeCorrectThrows == SpecThrows => []TypeOK
<1>1. Init => TypeOK
  BY BaseArchAssumption DEF Init, TypeOK
<1>2. TypeOK /\ [NextThrows]_vars => TypeOK'
  <2> SUFFICES ASSUME TypeOK, [NextThrows]_vars PROVE TypeOK'
    OBVIOUS
  <2>1. CASE \E w \in Wires, n \in Nets, s \in Strengths : bindWire(w, n, s)
    BY <2>1, PrimitiveTypes DEF bindWire, TypeOK
  <2>2. CASE \E w \in Wires : unbindWire(w)
    BY <2>2, PrimitiveTypes DEF unbindWire, TypeOK
  <2>3. CASE \E p \in Pips, n \in Nets, s \in Strengths : bindPip(p, n, s)
    BY <2>3, PrimitiveTypes DEF bindPip, TypeOK
  <2>4. CASE \E p \in Pips, n \in Nets : bindPipThrows(p, n)
    BY <2>4, PrimitiveTypes DEF bindPipThrows, TypeOK
  <2>5. CASE \E p \in Pips : unbindPip(p)
    BY <2>5, PrimitiveTypes DEF unbindPip, TypeOK
  <2>6. CASE \E n \in Nets : ripupNet(n)
    BY <2>6 DEF ripupNet, TypeOK
  <2>7. CASE \E n \in Nets : lockNetRouting(n)
    <3>1. PICK n \in Nets : lockNetRouting(n)
      BY <2>7
    <3>2. ASSUME NEW w \in Wires, wires[n][w] # Unbound
          PROVE  [wires[n][w] EXCEPT !.strength = UserStrength] \in PipMap
      BY <3>2, BaseArchAssumption DEF TypeOK, PipMap
    <3> QED BY <3>1, <3>2 DEF lockNetRouting, TypeOK
  <2>8. CASE ripupNetStep
    <3>1. PICK w \in to_unbind : UnbindWire(w) /\ to_unbind' = to_unbind \ {w}
      BY <2>8 DEF ripupNetStep
    <3>2. w \in Wires
      BY <3>1 DEF TypeOK
    <3> QED BY <3>1, <3>2, PrimitiveTypes DEF TypeOK
  <2>9. CASE ripupNetThrows
    BY <2>9 DEF ripupNetThrows, TypeOK
  <2>10. CASE UNCHANGED vars
    BY <2>10 DEF vars, TypeOK
  <2> QED
    BY <2>1, <2>2, <2>3, <2>4, <2>5, <2>6, <2>7, <2>8, <2>9, <2>10
    DEF Next, NextThrows
<1> QED BY <1>1, <1>2, PTL DEF SpecThrows

\* Type correctness of the specification.
THEOREM TypeCorrect == Spec => []TypeOK
<1>1. [Next]_vars => [NextThrows]_vars
  BY DEF NextThrows
<1> QED BY <1>1, TypeCorrectThrows, PTL DEF Spec, SpecThrows

-----------------------------------------------------------------------------
(* Consistency.  The three conjuncts of Consistent are inductive together: *)
(* RecordedIsBound alone is not, because releasing a wire also releases    *)
(* the pip it names, and only PipDrivesItsWire says that pip is nobody     *)
(* else's.                                                                 *)

LEMMA BindWireConsistent ==
    ASSUME TypeOK, Consistent,
           NEW w \in Wires, NEW n \in Nets, NEW s \in Strengths,
           BindWire(w, n, s)
    PROVE  Consistent'
<1> USE BaseArchAssumption
<1> DEFINE b == [pip |-> NoPip, strength |-> s]
<1>1. b \in PipMap /\ b # Unbound
  BY DEF PipMap
<1>2. \A m \in Nets : wires[m][w] = Unbound
  BY DEF Consistent, RecordedIsBound, BindWire, checkWireAvail, TypeOK
<1>3. \A m \in Nets, v \in Wires :
         wires'[m][v] = IF m = n /\ v = w THEN b ELSE wires[m][v]
  BY DEF TypeOK, BindWire
<1>4. \A v \in Wires :
         base_wire2net'[v] = IF v = w THEN n ELSE base_wire2net[v]
  BY DEF TypeOK, BindWire
<1>5. base_pip2net' = base_pip2net
  BY DEF BindWire
<1> HIDE DEF b
<1>6. RecordedIsBound'
  <2>1. b.pip = NoPip
    BY DEF b
  <2> QED BY <1>2, <1>3, <1>4, <1>5, <2>1 DEF Consistent, RecordedIsBound
<1>7. BoundIsRecorded'
  <2> SUFFICES ASSUME NEW v \in Wires, base_wire2net'[v] # NoNet
               PROVE  wires'[base_wire2net'[v]][v] # Unbound
    BY DEF BoundIsRecorded
  <2>1. CASE v = w
    BY <2>1, <1>1, <1>3, <1>4
  <2>2. CASE v # w
    BY <2>2, <1>3, <1>4 DEF Consistent, BoundIsRecorded, TypeOK
  <2> QED BY <2>1, <2>2
<1>8. PipDrivesItsWire'
  <2> SUFFICES ASSUME NEW p \in Pips, base_pip2net[p] # NoNet
               PROVE  /\ wires'[base_pip2net[p]][PipDst[p]] # Unbound
                      /\ wires'[base_pip2net[p]][PipDst[p]].pip = p
    BY <1>5 DEF PipDrivesItsWire
  <2>1. base_pip2net[p] \in Nets /\ PipDst[p] \in Wires
    BY DEF TypeOK
  <2>2. /\ wires[base_pip2net[p]][PipDst[p]] # Unbound
        /\ wires[base_pip2net[p]][PipDst[p]].pip = p
    BY DEF Consistent, PipDrivesItsWire
  <2>3. PipDst[p] # w
    BY <2>1, <2>2, <1>2
  <2> QED BY <1>3, <2>1, <2>2, <2>3
<1> QED BY <1>6, <1>7, <1>8 DEF Consistent

LEMMA BindPipConsistent ==
    ASSUME TypeOK, Consistent,
           NEW p \in Pips, NEW n \in Nets, NEW s \in Strengths,
           BindPip(p, n, s)
    PROVE  Consistent'
<1> USE BaseArchAssumption
<1> DEFINE w == PipDst[p]
           b == [pip |-> p, strength |-> s]
<1>1. b \in PipMap /\ b # Unbound /\ b.pip = p /\ w \in Wires
  BY DEF PipMap
<1>2. \A m \in Nets : wires[m][w] = Unbound
  BY <1>1 DEF Consistent, RecordedIsBound, BindPip, checkWireAvail, TypeOK
<1>3. \A m \in Nets, v \in Wires :
         wires'[m][v] = IF m = n /\ v = w THEN b ELSE wires[m][v]
  BY <1>1 DEF TypeOK, BindPip
<1>4. \A v \in Wires :
         base_wire2net'[v] = IF v = w THEN n ELSE base_wire2net[v]
  BY <1>1 DEF TypeOK, BindPip
<1>5. \A q \in Pips :
         base_pip2net'[q] = IF q = p THEN n ELSE base_pip2net[q]
  BY DEF TypeOK, BindPip
<1>6. base_pip2net[p] = NoNet
  BY DEF BindPip, checkPipAvail
<1>7. w = PipDst[p]
  OBVIOUS
<1> HIDE DEF b, w
<1>8. RecordedIsBound'
  <2> SUFFICES ASSUME NEW m \in Nets, NEW v \in Wires, wires'[m][v] # Unbound
               PROVE  /\ base_wire2net'[v] = m
                      /\ wires'[m][v].pip # NoPip =>
                            /\ PipDst[wires'[m][v].pip] = v
                            /\ base_pip2net'[wires'[m][v].pip] = m
    BY DEF RecordedIsBound
  <2>1. CASE m = n /\ v = w
    BY <2>1, <1>1, <1>3, <1>4, <1>5, <1>7
  <2>2. CASE ~(m = n /\ v = w)
    <3>1. wires'[m][v] = wires[m][v] /\ v # w
      BY <2>2, <1>2, <1>3
    <3>2. /\ base_wire2net[v] = m
          /\ wires[m][v].pip # NoPip => /\ PipDst[wires[m][v].pip] = v
                                        /\ base_pip2net[wires[m][v].pip] = m
      BY <3>1 DEF Consistent, RecordedIsBound
    <3>3. wires[m][v].pip \in Pips \cup {NoPip}
      BY <3>1 DEF TypeOK, PipMap
    <3> QED BY <3>1, <3>2, <3>3, <1>4, <1>5, <1>6
  <2> QED BY <2>1, <2>2
<1>9. BoundIsRecorded'
  <2> SUFFICES ASSUME NEW v \in Wires, base_wire2net'[v] # NoNet
               PROVE  wires'[base_wire2net'[v]][v] # Unbound
    BY DEF BoundIsRecorded
  <2>1. CASE v = w
    BY <2>1, <1>1, <1>3, <1>4
  <2>2. CASE v # w
    BY <2>2, <1>3, <1>4 DEF Consistent, BoundIsRecorded, TypeOK
  <2> QED BY <2>1, <2>2
<1>10. PipDrivesItsWire'
  <2> SUFFICES ASSUME NEW q \in Pips, base_pip2net'[q] # NoNet
               PROVE  /\ wires'[base_pip2net'[q]][PipDst[q]] # Unbound
                      /\ wires'[base_pip2net'[q]][PipDst[q]].pip = q
    BY DEF PipDrivesItsWire
  <2>1. CASE q = p
    BY <2>1, <1>1, <1>3, <1>5, <1>7
  <2>2. CASE q # p
    <3>1. base_pip2net'[q] = base_pip2net[q] /\ base_pip2net[q] \in Nets
      BY <2>2, <1>5 DEF TypeOK
    <3>2. /\ wires[base_pip2net[q]][PipDst[q]] # Unbound
          /\ wires[base_pip2net[q]][PipDst[q]].pip = q
      BY <3>1 DEF Consistent, PipDrivesItsWire
    <3>3. PipDst[q] # w /\ PipDst[q] \in Wires
      BY <3>1, <3>2, <1>2
    <3> QED BY <1>3, <3>1, <3>2, <3>3
  <2> QED BY <2>1, <2>2
<1> QED BY <1>8, <1>9, <1>10 DEF Consistent

LEMMA UnbindWireConsistent ==
    ASSUME TypeOK, Consistent, NEW w \in Wires, UnbindWire(w)
    PROVE  Consistent'
<1> USE BaseArchAssumption
<1> DEFINE n == base_wire2net[w]
           d == wires[n][w].pip
<1>1. n \in Nets /\ wires[n][w] # Unbound
  BY DEF UnbindWire, TypeOK
<1>2. d \in Pips \cup {NoPip}
  BY <1>1 DEF TypeOK, PipMap
<1>3. \A m \in Nets, v \in Wires :
         wires'[m][v] = IF m = n /\ v = w THEN Unbound ELSE wires[m][v]
  BY <1>1 DEF TypeOK, UnbindWire
<1>4. \A v \in Wires :
         base_wire2net'[v] = IF v = w THEN NoNet ELSE base_wire2net[v]
  BY DEF TypeOK, UnbindWire
<1>5. \A q \in Pips :
         base_pip2net'[q] = IF q = d THEN NoNet ELSE base_pip2net[q]
  BY <1>2 DEF TypeOK, UnbindWire
<1>6. d # NoPip => PipDst[d] = w /\ base_pip2net[d] = n
  BY <1>1 DEF Consistent, RecordedIsBound
<1>7. \A m \in Nets : wires[m][w] # Unbound => m = n
  BY DEF Consistent, RecordedIsBound
<1>8. d = wires[n][w].pip /\ n = base_wire2net[w]
  OBVIOUS
<1> HIDE DEF n, d
<1>9. RecordedIsBound'
  <2> SUFFICES ASSUME NEW m \in Nets, NEW v \in Wires, wires'[m][v] # Unbound
               PROVE  /\ base_wire2net'[v] = m
                      /\ wires'[m][v].pip # NoPip =>
                            /\ PipDst[wires'[m][v].pip] = v
                            /\ base_pip2net'[wires'[m][v].pip] = m
    BY DEF RecordedIsBound
  <2>1. wires'[m][v] = wires[m][v] /\ v # w
    BY <1>3, <1>7
  <2>2. /\ base_wire2net[v] = m
        /\ wires[m][v].pip # NoPip => /\ PipDst[wires[m][v].pip] = v
                                      /\ base_pip2net[wires[m][v].pip] = m
    BY <2>1 DEF Consistent, RecordedIsBound
  <2>3. wires[m][v].pip \in Pips \cup {NoPip}
    BY <2>1 DEF TypeOK, PipMap
  <2>4. wires[m][v].pip # NoPip => wires[m][v].pip # d
    BY <2>1, <2>2, <1>6
  <2> QED BY <2>1, <2>2, <2>3, <2>4, <1>4, <1>5
<1>10. BoundIsRecorded'
  <2> SUFFICES ASSUME NEW v \in Wires, base_wire2net'[v] # NoNet
               PROVE  wires'[base_wire2net'[v]][v] # Unbound
    BY DEF BoundIsRecorded
  <2>1. v # w /\ base_wire2net'[v] = base_wire2net[v]
    BY <1>4
  <2> QED BY <2>1, <1>3 DEF Consistent, BoundIsRecorded, TypeOK
<1>11. PipDrivesItsWire'
  <2> SUFFICES ASSUME NEW q \in Pips, base_pip2net'[q] # NoNet
               PROVE  /\ wires'[base_pip2net'[q]][PipDst[q]] # Unbound
                      /\ wires'[base_pip2net'[q]][PipDst[q]].pip = q
    BY DEF PipDrivesItsWire
  <2>1. q # d /\ base_pip2net'[q] = base_pip2net[q] /\ base_pip2net[q] \in Nets
    BY <1>5 DEF TypeOK
  <2>2. /\ wires[base_pip2net[q]][PipDst[q]] # Unbound
        /\ wires[base_pip2net[q]][PipDst[q]].pip = q
    BY <2>1 DEF Consistent, PipDrivesItsWire
  <2>3. PipDst[q] # w /\ PipDst[q] \in Wires
    BY <2>1, <2>2, <1>7, <1>8
  <2> QED BY <1>3, <2>1, <2>2, <2>3
<1> QED BY <1>9, <1>10, <1>11 DEF Consistent

\* Under consistency unbindPip does exactly what unbindWire does to the wire
\* the pip drives: the two release operations agree.
LEMMA UnbindPipIsUnbindWire ==
    ASSUME TypeOK, Consistent, NEW p \in Pips, UnbindPip(p)
    PROVE  UnbindWire(PipDst[p])
<1> USE BaseArchAssumption
<1>1. base_pip2net[p] \in Nets /\ PipDst[p] \in Wires
  BY DEF UnbindPip, checkPipAvail, TypeOK
<1>2. /\ wires[base_pip2net[p]][PipDst[p]] # Unbound
      /\ wires[base_pip2net[p]][PipDst[p]].pip = p
  BY <1>1 DEF Consistent, PipDrivesItsWire
<1>3. base_wire2net[PipDst[p]] = base_pip2net[p]
  BY <1>1, <1>2 DEF Consistent, RecordedIsBound
<1> QED BY <1>1, <1>2, <1>3 DEF UnbindPip, UnbindWire, checkPipAvail

\* Re-labelling the strengths of one net moves nothing.
LEMMA LockKeepsWires ==
    ASSUME TypeOK, NEW n \in Nets, lockNetRouting(n)
    PROVE  \A m \in Nets, w \in Wires :
              /\ (wires'[m][w] = Unbound) <=> (wires[m][w] = Unbound)
              /\ wires[m][w] # Unbound => wires'[m][w].pip = wires[m][w].pip
<1> USE BaseArchAssumption
<1> SUFFICES ASSUME NEW m \in Nets, NEW w \in Wires
             PROVE  /\ (wires'[m][w] = Unbound) <=> (wires[m][w] = Unbound)
                    /\ wires[m][w] # Unbound =>
                          wires'[m][w].pip = wires[m][w].pip
  OBVIOUS
<1>1. CASE m # n
  BY <1>1 DEF lockNetRouting, TypeOK
<1>2. CASE m = n
  <2>1. wires'[m][w] = IF wires[n][w] = Unbound THEN Unbound
                       ELSE [wires[n][w] EXCEPT !.strength = UserStrength]
    BY <1>2 DEF lockNetRouting, TypeOK
  <2>2. CASE wires[n][w] = Unbound
    BY <1>2, <2>1, <2>2
  <2>3. CASE wires[n][w] # Unbound
    <3>1. wires[n][w] \in PipMap
      BY <2>3 DEF TypeOK
    <3>2. /\ [wires[n][w] EXCEPT !.strength = UserStrength] \in PipMap
          /\ [wires[n][w] EXCEPT !.strength = UserStrength].pip = wires[n][w].pip
      BY <3>1 DEF PipMap
    <3>3. Unbound \notin PipMap
      BY DEF PipMap
    <3> QED BY <1>2, <2>1, <2>3, <3>2, <3>3
  <2> QED BY <2>2, <2>3
<1> QED BY <1>1, <1>2

\* The main safety theorem: with clients that test availability, the tables
\* agree in every reachable state, between the iterations of ripupNet too.
THEOREM StaysConsistent == Spec => []Consistent
<1>1. Init => Consistent
  BY BaseArchAssumption
  DEF Init, Consistent, RecordedIsBound, BoundIsRecorded, PipDrivesItsWire
<1>2. TypeOK /\ Consistent /\ [Next]_vars => Consistent'
  <2> SUFFICES ASSUME TypeOK, Consistent, [Next]_vars PROVE Consistent'
    OBVIOUS
  <2>1. CASE \E w \in Wires, n \in Nets, s \in Strengths : bindWire(w, n, s)
    BY <2>1, BindWireConsistent DEF bindWire
  <2>2. CASE \E w \in Wires : unbindWire(w)
    BY <2>2, UnbindWireConsistent DEF unbindWire
  <2>3. CASE \E p \in Pips, n \in Nets, s \in Strengths : bindPip(p, n, s)
    BY <2>3, BindPipConsistent DEF bindPip
  <2>5. CASE \E p \in Pips : unbindPip(p)
    <3>1. PICK p \in Pips : UnbindPip(p)
      BY <2>5 DEF unbindPip
    <3>2. UnbindWire(PipDst[p]) /\ PipDst[p] \in Wires
      BY <3>1, UnbindPipIsUnbindWire, BaseArchAssumption
    <3> QED BY <3>2, UnbindWireConsistent
  <2>6. CASE \E n \in Nets : ripupNet(n)
    BY <2>6 DEF ripupNet, Consistent, RecordedIsBound, BoundIsRecorded,
                PipDrivesItsWire
  <2>7. CASE \E n \in Nets : lockNetRouting(n)
    <3>1. PICK n \in Nets : lockNetRouting(n)
      BY <2>7
    <3>2. base_wire2net' = base_wire2net /\ base_pip2net' = base_pip2net
      BY <3>1 DEF lockNetRouting
    <3>3. \A m \in Nets, w \in Wires :
              /\ (wires'[m][w] = Unbound) <=> (wires[m][w] = Unbound)
              /\ wires[m][w] # Unbound => wires'[m][w].pip = wires[m][w].pip
      BY <3>1, LockKeepsWires
    <3>4. RecordedIsBound'
      BY <3>2, <3>3 DEF Consistent, RecordedIsBound
    <3>5. BoundIsRecorded'
      BY <3>2, <3>3 DEF Consistent, BoundIsRecorded, TypeOK
    <3>6. PipDrivesItsWire'
      BY <3>2, <3>3, BaseArchAssumption DEF Consistent, PipDrivesItsWire, TypeOK
    <3> QED BY <3>4, <3>5, <3>6 DEF Consistent
  <2>8. CASE ripupNetStep
    <3>1. PICK w \in to_unbind : UnbindWire(w)
      BY <2>8 DEF ripupNetStep
    <3>2. w \in Wires
      BY <3>1 DEF TypeOK
    <3> QED BY <3>1, <3>2, UnbindWireConsistent
  <2>10. CASE UNCHANGED vars
    BY <2>10 DEF vars, Consistent, RecordedIsBound, BoundIsRecorded,
                 PipDrivesItsWire
  <2> QED
    BY <2>1, <2>2, <2>3, <2>5, <2>6, <2>7, <2>8, <2>10 DEF Next
<1> QED BY <1>1, <1>2, TypeCorrect, PTL DEF Spec

\* Context::check() finds nothing to report about the routing tables.
THEOREM ContextCheckPasses ==
    Spec => [](RecordedIsBound /\ BoundIsRecorded)
<1>1. Consistent => RecordedIsBound /\ BoundIsRecorded
  BY DEF Consistent
<1> QED BY <1>1, StaysConsistent, PTL

\* No pip is ever lost to the routers.
THEOREM NoPipIsLost == Spec => []PipDrivesItsWire
<1>1. Consistent => PipDrivesItsWire
  BY DEF Consistent
<1> QED BY <1>1, StaysConsistent, PTL

-----------------------------------------------------------------------------
(* Whatever clients do, also after an assertion has thrown half way through *)
(* bindPip, a bound wire is listed by the net that holds it.                *)

LEMMA UnbindKeepsRecords ==
    ASSUME TypeOK, BoundIsRecorded, NEW w \in Wires, UnbindWire(w)
    PROVE  BoundIsRecorded'
<1> SUFFICES ASSUME NEW v \in Wires, base_wire2net'[v] # NoNet
             PROVE  wires'[base_wire2net'[v]][v] # Unbound
  BY DEF BoundIsRecorded
<1>1. v # w /\ base_wire2net'[v] = base_wire2net[v]
  BY DEF UnbindWire, TypeOK
<1>2. base_wire2net[v] \in Nets /\ base_wire2net[w] \in Nets
  BY <1>1 DEF UnbindWire, TypeOK
<1>3. wires'[base_wire2net[v]][v] = wires[base_wire2net[v]][v]
  BY <1>1, <1>2 DEF UnbindWire, TypeOK
<1> QED BY <1>1, <1>3 DEF BoundIsRecorded

THEOREM BoundIsAlwaysRecorded == SpecThrows => []BoundIsRecorded
<1> USE BaseArchAssumption
<1>1. Init => BoundIsRecorded
  BY DEF Init, BoundIsRecorded
<1>2. TypeOK /\ BoundIsRecorded /\ [NextThrows]_vars => BoundIsRecorded'
  <2> SUFFICES ASSUME TypeOK, BoundIsRecorded, [NextThrows]_vars
               PROVE  BoundIsRecorded'
    OBVIOUS
  <2>1. ASSUME NEW w \in Wires, NEW n \in Nets, NEW s \in Strengths,
               BindWire(w, n, s)
        PROVE  BoundIsRecorded'
    <3>1. [pip |-> NoPip, strength |-> s] # Unbound
      OBVIOUS
    <3> QED BY <2>1, <3>1 DEF BindWire, BoundIsRecorded, TypeOK
  <2>2. ASSUME NEW p \in Pips, NEW n \in Nets, NEW s \in Strengths,
               BindPip(p, n, s)
        PROVE  BoundIsRecorded'
    <3>1. [pip |-> p, strength |-> s] # Unbound /\ PipDst[p] \in Wires
      OBVIOUS
    <3> QED BY <2>2, <3>1 DEF BindPip, BoundIsRecorded, TypeOK
  <2>3. ASSUME NEW p \in Pips, UnbindPip(p)
        PROVE  BoundIsRecorded'
    <3>1. base_pip2net[p] \in Nets /\ PipDst[p] \in Wires
      BY <2>3 DEF UnbindPip, checkPipAvail, TypeOK
    <3> SUFFICES ASSUME NEW v \in Wires, base_wire2net'[v] # NoNet
                 PROVE  wires'[base_wire2net'[v]][v] # Unbound
      BY DEF BoundIsRecorded
    <3>2. v # PipDst[p] /\ base_wire2net'[v] = base_wire2net[v]
      BY <2>3, <3>1 DEF UnbindPip, TypeOK
    <3>3. base_wire2net[v] \in Nets
      BY <3>2 DEF TypeOK
    <3>4. wires'[base_wire2net[v]][v] = wires[base_wire2net[v]][v]
      BY <2>3, <3>1, <3>2, <3>3 DEF UnbindPip, TypeOK
    <3> QED BY <3>2, <3>4 DEF BoundIsRecorded
  <2>4. ASSUME UNCHANGED <<base_wire2net, wires>>
        PROVE  BoundIsRecorded'
    BY <2>4 DEF BoundIsRecorded
  <2>5. CASE \E n \in Nets : lockNetRouting(n)
    <3>1. PICK n \in Nets : lockNetRouting(n)
      BY <2>5
    <3>2. base_wire2net' = base_wire2net
      BY <3>1 DEF lockNetRouting
    <3> QED BY <3>1, <3>2, LockKeepsWires DEF BoundIsRecorded, TypeOK
  <2>6. CASE ripupNetStep
    <3>1. PICK w \in to_unbind : UnbindWire(w)
      BY <2>6 DEF ripupNetStep
    <3> QED BY <3>1, UnbindKeepsRecords DEF TypeOK
  <2>7. CASE \E w \in Wires : unbindWire(w)
    BY <2>7, UnbindKeepsRecords DEF unbindWire
  <2>8. CASE \E w \in Wires, n \in Nets, s \in Strengths : bindWire(w, n, s)
    BY <2>8, <2>1 DEF bindWire
  <2>9. CASE \E p \in Pips, n \in Nets, s \in Strengths : bindPip(p, n, s)
    BY <2>9, <2>2 DEF bindPip
  <2>10. CASE \E p \in Pips : unbindPip(p)
    BY <2>10, <2>3 DEF unbindPip
  <2>11. CASE \E p \in Pips, n \in Nets : bindPipThrows(p, n)
    BY <2>11, <2>4 DEF bindPipThrows, BindPipThrows
  <2>12. CASE (\E n \in Nets : ripupNet(n)) \/ ripupNetThrows \/ UNCHANGED vars
    BY <2>12, <2>4 DEF ripupNet, ripupNetThrows, vars
  <2> QED
    BY <2>5, <2>6, <2>7, <2>8, <2>9, <2>10, <2>11, <2>12 DEF Next, NextThrows
<1> QED BY <1>1, <1>2, TypeCorrectThrows, PTL DEF SpecThrows

-----------------------------------------------------------------------------
(* Refinement of the single-owner map. *)

LEMMA ViewOfABoundWire ==
    ASSUME TypeOK, Consistent, NEW w \in Wires
    PROVE  /\ routeView[w] = Free <=> base_wire2net[w] = NoNet
           /\ base_wire2net[w] # NoNet => routeView[w] \in Abstract!Binding
<1> USE BaseArchAssumption
<1>1. CASE base_wire2net[w] = NoNet
  BY <1>1 DEF routeView
<1>2. CASE base_wire2net[w] # NoNet
  <2> DEFINE n == base_wire2net[w]
  <2>1. n \in Nets /\ wires[n][w] \in PipMap
    BY <1>2 DEF TypeOK, Consistent, BoundIsRecorded
  <2>2. routeView[w] = [net |-> n, pip |-> wires[n][w].pip,
                        strength |-> wires[n][w].strength]
    BY <1>2 DEF routeView
  <2>3. routeView[w] \in Abstract!Binding
    BY <2>1, <2>2 DEF PipMap, Abstract!Binding
  <2> QED BY <1>2, <2>3 DEF Abstract!Binding
<1> QED BY <1>1, <1>2

LEMMA BindWireClaims ==
    ASSUME TypeOK, Consistent,
           NEW w \in Wires, NEW n \in Nets, NEW s \in Strengths,
           BindWire(w, n, s)
    PROVE  \E b \in Abstract!Binding : Abstract!Claim(w, b)
<1> USE BaseArchAssumption
<1> DEFINE b == [net |-> n, pip |-> NoPip, strength |-> s]
<1>1. b \in Abstract!Binding
  BY DEF Abstract!Binding
<1>2. routeView[w] = Free
  BY DEF routeView, BindWire, checkWireAvail
<1>3. routeView' = [routeView EXCEPT ![w] = b]
  <2>1. \A v \in Wires : routeView'[v] = IF v = w THEN b ELSE routeView[v]
    BY DEF routeView, BindWire, TypeOK
  <2> QED BY <2>1 DEF routeView
<1>4. Abstract!Claim(w, b)
  BY <1>2, <1>3 DEF Abstract!Claim
<1> QED BY <1>1, <1>4

LEMMA BindPipClaims ==
    ASSUME TypeOK, Consistent,
           NEW p \in Pips, NEW n \in Nets, NEW s \in Strengths,
           BindPip(p, n, s)
    PROVE  \E b \in Abstract!Binding : Abstract!Claim(PipDst[p], b)
<1> USE BaseArchAssumption
<1> DEFINE b == [net |-> n, pip |-> p, strength |-> s]
           w == PipDst[p]
<1>1. b \in Abstract!Binding /\ w \in Wires
  BY DEF Abstract!Binding
<1>2. routeView[w] = Free
  BY <1>1 DEF routeView, BindPip, checkWireAvail
<1>3. routeView' = [routeView EXCEPT ![w] = b]
  <2>1. \A v \in Wires : routeView'[v] = IF v = w THEN b ELSE routeView[v]
    BY DEF routeView, BindPip, TypeOK
  <2>2. DOMAIN routeView = Wires /\ routeView = [v \in Wires |-> routeView[v]]
    BY DEF routeView
  <2>3. routeView' = [v \in Wires |-> routeView'[v]]
    BY DEF routeView
  <2> HIDE DEF b, w
  <2> QED BY ONLY <1>1, <2>1, <2>2, <2>3
<1>4. Abstract!Claim(w, b)
  BY <1>2, <1>3 DEF Abstract!Claim
<1> QED BY <1>1, <1>4

LEMMA UnbindWireReleases ==
    ASSUME TypeOK, Consistent, NEW w \in Wires, UnbindWire(w)
    PROVE  Abstract!Release(w)
<1> USE BaseArchAssumption
<1>1. base_wire2net[w] \in Nets
  BY DEF UnbindWire, TypeOK
<1>2. routeView[w] # Free
  BY <1>1, ViewOfABoundWire
<1>3. \A v \in Wires : routeView'[v] = IF v = w THEN Free ELSE routeView[v]
  <2> SUFFICES ASSUME NEW v \in Wires
               PROVE  routeView'[v] = IF v = w THEN Free ELSE routeView[v]
    OBVIOUS
  <2>1. CASE v = w
    BY <2>1 DEF routeView, UnbindWire, TypeOK
  <2>2. CASE v # w
    <3>1. base_wire2net'[v] = base_wire2net[v]
      BY <2>2 DEF UnbindWire, TypeOK
    <3>2. base_wire2net[v] # NoNet =>
             wires'[base_wire2net[v]][v] = wires[base_wire2net[v]][v]
      BY <1>1, <2>2 DEF UnbindWire, TypeOK
    <3> QED BY <2>2, <3>1, <3>2 DEF routeView
  <2> QED BY <2>1, <2>2
<1>4. routeView' = [routeView EXCEPT ![w] = Free]
  BY <1>3 DEF routeView
<1> QED BY <1>2, <1>4 DEF Abstract!Release

LEMMA LockNetLocks ==
    ASSUME TypeOK, Consistent, NEW n \in Nets, lockNetRouting(n)
    PROVE  Abstract!Lock(n)
<1> USE BaseArchAssumption
<1>1. base_wire2net' = base_wire2net
  BY DEF lockNetRouting
<1>2. ASSUME NEW w \in Wires
      PROVE  routeView'[w] = IF routeView[w] # Free /\ routeView[w].net = n
                             THEN [routeView[w] EXCEPT !.strength = UserStrength]
                             ELSE routeView[w]
  <2>1. CASE base_wire2net[w] = NoNet
    BY <2>1, <1>1 DEF routeView
  <2>2. CASE base_wire2net[w] # NoNet /\ base_wire2net[w] # n
    <3>1. wires'[base_wire2net[w]][w] = wires[base_wire2net[w]][w]
      BY <2>2 DEF lockNetRouting, TypeOK
    <3> QED BY <2>2, <3>1, <1>1 DEF routeView
  <2>3. CASE base_wire2net[w] = n /\ n # NoNet
    <3>1. wires[n][w] \in PipMap /\ wires[n][w] # Unbound
      BY <2>3 DEF TypeOK, Consistent, BoundIsRecorded
    <3>2. wires'[n][w] = [wires[n][w] EXCEPT !.strength = UserStrength]
      BY <3>1 DEF lockNetRouting, TypeOK
    <3>3. /\ wires'[n][w].pip = wires[n][w].pip
          /\ wires'[n][w].strength = UserStrength
      BY <3>1, <3>2 DEF PipMap
    <3>4. routeView[w] = [net |-> n, pip |-> wires[n][w].pip,
                          strength |-> wires[n][w].strength]
      BY <2>3 DEF routeView
    <3>5. routeView'[w] = [net |-> n, pip |-> wires[n][w].pip,
                           strength |-> UserStrength]
      BY <2>3, <3>3, <1>1 DEF routeView
    <3>6. routeView[w] # Free
      BY <2>3, ViewOfABoundWire
    <3> QED BY <3>4, <3>5, <3>6
  <2> QED BY <2>1, <2>2, <2>3
<1>3. routeView' =
        [w \in Wires |-> IF routeView[w] # Free /\ routeView[w].net = n
                         THEN [routeView[w] EXCEPT !.strength = UserStrength]
                         ELSE routeView[w]]
  BY <1>2 DEF routeView
<1> QED BY <1>3 DEF Abstract!Lock

\* The tables of base_arch.h implement the single-owner map: every call maps to
\* one claim, release or lock, and the start of ripupNet to no change.
THEOREM ImplementsRouteMap == Spec => AbstractSpec
<1> USE BaseArchAssumption
<1>1. Init => Abstract!Init
  BY DEF Init, Abstract!Init, routeView
<1>2. TypeOK /\ Consistent /\ [Next]_vars => [Abstract!Next]_routeView
  <2> SUFFICES ASSUME TypeOK, Consistent, [Next]_vars
               PROVE  [Abstract!Next]_routeView
    OBVIOUS
  <2>1. CASE \E w \in Wires, n \in Nets, s \in Strengths : bindWire(w, n, s)
    BY <2>1, BindWireClaims DEF bindWire, Abstract!Next
  <2>2. CASE \E w \in Wires : unbindWire(w)
    BY <2>2, UnbindWireReleases DEF unbindWire, Abstract!Next
  <2>3. CASE \E p \in Pips, n \in Nets, s \in Strengths : bindPip(p, n, s)
    BY <2>3, BindPipClaims DEF bindPip, Abstract!Next
  <2>5. CASE \E p \in Pips : unbindPip(p)
    <3>1. PICK p \in Pips : UnbindPip(p)
      BY <2>5 DEF unbindPip
    <3>2. UnbindWire(PipDst[p]) /\ PipDst[p] \in Wires
      BY <3>1, UnbindPipIsUnbindWire
    <3> QED BY <3>2, UnbindWireReleases DEF Abstract!Next
  <2>6. CASE \E n \in Nets : lockNetRouting(n)
    BY <2>6, LockNetLocks DEF Abstract!Next
  <2>7. CASE ripupNetStep
    <3>1. PICK w \in to_unbind : UnbindWire(w)
      BY <2>7 DEF ripupNetStep
    <3> QED BY <3>1, UnbindWireReleases DEF TypeOK, Abstract!Next
  <2>8. CASE (\E n \in Nets : ripupNet(n)) \/ UNCHANGED vars
    BY <2>8 DEF ripupNet, vars, routeView
  <2> QED BY <2>1, <2>2, <2>3, <2>5, <2>6, <2>7, <2>8 DEF Next
<1> QED BY <1>1, <1>2, TypeCorrect, StaysConsistent, PTL
        DEF Spec, AbstractSpec, Abstract!Spec
=============================================================================

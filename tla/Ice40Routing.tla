---------------------------- MODULE Ice40Routing ----------------------------
(***************************************************************************)
(* The wire and pip binding of the iCE40 architecture (ice40/arch.h).      *)
(* Several pips are settings of one configuration switch, so at most one   *)
(* of them can be on: switches_locked names the wire a switch drives.      *)
(* With one pip per switch this is the binding of the generic architecture *)
(* (generic/arch.cc), where a pip conflicts only with itself.              *)
(*                                                                         *)
(* All assertions of a call come before its assignments, so a call that    *)
(* throws changes nothing and is a stutter.                                *)
(***************************************************************************)
EXTENDS FiniteSets

CONSTANTS Wires, Pips, Nets, PipDst, Switches, Switch, Strengths,
          UserStrength, NoPip, NoNet, NoWire, Unbound, Free,
          HardUnavail   \* pips the placement rules out (ice40_pip_hard_unavail)

ASSUME RoutingAssumption ==
    /\ PipDst \in [Pips -> Wires]
    /\ Switch \in [Pips -> Switches]
    /\ HardUnavail \subseteq Pips
    /\ NoPip \notin Pips
    /\ NoNet \notin Nets
    /\ NoWire \notin Wires
    /\ Unbound \notin [pip : Pips \cup {NoPip}, strength : Strengths]
    /\ Free \notin [net : Nets, pip : Pips \cup {NoPip}, strength : Strengths]

PipMap == [pip : Pips \cup {NoPip}, strength : Strengths]

VARIABLES wire_to_net, pip_to_net, switches_locked, wires

archVars == <<wire_to_net, pip_to_net, switches_locked, wires>>

ArchTypeOK ==
    /\ wire_to_net \in [Wires -> Nets \cup {NoNet}]
    /\ pip_to_net \in [Pips -> Nets \cup {NoNet}]
    /\ switches_locked \in [Switches -> Wires \cup {NoWire}]
    /\ wires \in [Nets -> [Wires -> PipMap \cup {Unbound}]]

ArchInit ==
    /\ wire_to_net = [w \in Wires |-> NoNet]
    /\ pip_to_net = [p \in Pips |-> NoNet]
    /\ switches_locked = [s \in Switches |-> NoWire]
    /\ wires = [n \in Nets |-> [w \in Wires |-> Unbound]]

checkWireAvail(w) == wire_to_net[w] = NoNet

checkPipAvail(p) == p \notin HardUnavail /\ switches_locked[Switch[p]] = NoWire

getConflictingPipWire(p) ==
    IF p \in HardUnavail THEN NoWire ELSE switches_locked[Switch[p]]

\* What the routers ask before they plan a pip: the switch may already be set,
\* if the wire it drives is the one this pip drives and belongs to the net.
checkPipAvailForNet(p, n) ==
    /\ p \notin HardUnavail
    /\ LET w == switches_locked[Switch[p]] IN
       w = NoWire \/ (w = PipDst[p] /\ wire_to_net[w] = n)

\* Seeded fault: the entry keeps the strength it was created with.
bindWireNoStrength(w, n, s) ==
    /\ checkWireAvail(w)
    /\ wire_to_net' = [wire_to_net EXCEPT ![w] = n]
    /\ wires' = [wires EXCEPT ![n][w] = [pip |-> NoPip, strength |-> 0]]
    /\ UNCHANGED <<pip_to_net, switches_locked>>

bindWire(w, n, s) ==
    /\ checkWireAvail(w)
    /\ wire_to_net' = [wire_to_net EXCEPT ![w] = n]
    /\ wires' = [wires EXCEPT ![n][w] = [pip |-> NoPip, strength |-> s]]
    /\ UNCHANGED <<pip_to_net, switches_locked>>

\* Seeded fault: the switch stays locked by a wire that is gone.
unbindWireKeepsSwitch(w) ==
    LET n == wire_to_net[w]
        p == wires[n][w].pip IN
    /\ n # NoNet
    /\ wires[n][w] # Unbound
    /\ pip_to_net' = IF p = NoPip THEN pip_to_net
                     ELSE [pip_to_net EXCEPT ![p] = NoNet]
    /\ wires' = [wires EXCEPT ![n][w] = Unbound]
    /\ wire_to_net' = [wire_to_net EXCEPT ![w] = NoNet]
    /\ UNCHANGED switches_locked

unbindWire(w) ==
    LET n == wire_to_net[w]
        p == wires[n][w].pip IN
    /\ n # NoNet
    /\ wires[n][w] # Unbound
    /\ IF p = NoPip THEN UNCHANGED <<pip_to_net, switches_locked>>
       ELSE /\ pip_to_net' = [pip_to_net EXCEPT ![p] = NoNet]
            /\ switches_locked' = [switches_locked EXCEPT ![Switch[p]] = NoWire]
    /\ wires' = [wires EXCEPT ![n][w] = Unbound]
    /\ wire_to_net' = [wire_to_net EXCEPT ![w] = NoNet]

bindPip(p, n, s) ==
    /\ pip_to_net[p] = NoNet
    /\ switches_locked[Switch[p]] = NoWire
    /\ checkWireAvail(PipDst[p])
    /\ pip_to_net' = [pip_to_net EXCEPT ![p] = n]
    /\ switches_locked' = [switches_locked EXCEPT ![Switch[p]] = PipDst[p]]
    /\ wire_to_net' = [wire_to_net EXCEPT ![PipDst[p]] = n]
    /\ wires' = [wires EXCEPT ![n][PipDst[p]] = [pip |-> p, strength |-> s]]

unbindPip(p) ==
    /\ pip_to_net[p] # NoNet
    /\ switches_locked[Switch[p]] # NoWire
    /\ wire_to_net[PipDst[p]] # NoNet
    /\ wire_to_net' = [wire_to_net EXCEPT ![PipDst[p]] = NoNet]
    /\ wires' = [wires EXCEPT ![pip_to_net[p]][PipDst[p]] = Unbound]
    /\ pip_to_net' = [pip_to_net EXCEPT ![p] = NoNet]
    /\ switches_locked' = [switches_locked EXCEPT ![Switch[p]] = NoWire]

ArchNext ==
    \/ \E w \in Wires, n \in Nets, s \in Strengths : bindWire(w, n, s)
    \/ \E w \in Wires : unbindWire(w)
    \/ \E p \in Pips, n \in Nets, s \in Strengths : bindPip(p, n, s)
    \/ \E p \in Pips : unbindPip(p)

ArchSpec == ArchInit /\ [][ArchNext]_archVars

-----------------------------------------------------------------------------
(* Properties.  Every client is covered: no call of this architecture can  *)
(* be made to fail half way.                                               *)

\* The first loop of Context::check().
RecordedIsBound ==
    \A n \in Nets, w \in Wires :
        wires[n][w] # Unbound =>
            /\ wire_to_net[w] = n
            /\ wires[n][w].pip # NoPip =>
                  /\ PipDst[wires[n][w].pip] = w
                  /\ pip_to_net[wires[n][w].pip] = n

\* The CHECK_WIRES loop of Context::check().
BoundIsRecorded ==
    \A w \in Wires :
        wire_to_net[w] # NoNet => wires[wire_to_net[w]][w] # Unbound

\* A held pip drives the wire it ends in, through a switch locked for that wire.
PipDrivesItsWire ==
    \A p \in Pips :
        pip_to_net[p] # NoNet =>
            /\ wires[pip_to_net[p]][PipDst[p]] # Unbound
            /\ wires[pip_to_net[p]][PipDst[p]].pip = p
            /\ switches_locked[Switch[p]] = PipDst[p]

\* A locked switch is locked by a pip that is on: no switch is lost.
LockedSwitchIsUsed ==
    \A s \in Switches :
        switches_locked[s] # NoWire =>
            \E p \in Pips : Switch[p] = s /\ pip_to_net[p] # NoNet

\* The hardware constraint the switch table is there for: two pips of one
\* switch are never on together, so the bitstream can express the routing.
OnePipPerSwitch ==
    \A p, q \in Pips :
        Switch[p] = Switch[q] /\ pip_to_net[p] # NoNet /\ pip_to_net[q] # NoNet
            => p = q

\* After any sequence of calls, completed or thrown out of, the four tables tell
\* one story: what a net records is what the wire, pip and switch tables hold
\* and the other way round, no switch stays locked by a pip that was switched
\* off or by a wire taken from under it, and no switch is set two ways.
Consistent == /\ RecordedIsBound
              /\ BoundIsRecorded
              /\ PipDrivesItsWire
              /\ LockedSwitchIsUsed
              /\ OnePipPerSwitch

-----------------------------------------------------------------------------
(* The owner of a wire, read off the tables. *)

routeView ==
    [w \in Wires |->
        LET n == wire_to_net[w] IN
        IF n = NoNet THEN Free
        ELSE [net |-> n, pip |-> wires[n][w].pip,
              strength |-> wires[n][w].strength]]

Abstract == INSTANCE RouteMap WITH route <- routeView

AbstractSpec == Abstract!Spec
=============================================================================

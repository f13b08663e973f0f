------------------------------ MODULE BaseArch ------------------------------
(***************************************************************************)
(* The default wire and pip binding of common/kernel/base_arch.h, with the *)
(* two operations of BaseCtx that act on a whole net (ripupNet and         *)
(* lockNetRouting, common/kernel/basectx.cc).                              *)
(*                                                                         *)
(* The same fact is kept three times: base_wire2net says which net holds a *)
(* wire, base_pip2net says which net holds a pip, and wires (the field     *)
(* NetInfo::wires) says which wires a net holds, through which pip and how *)
(* strongly.  Context::check() is the code's own consistency test.         *)
(*                                                                         *)
(* NPNR_ASSERT throws assertion_failure.  An assertion that fails before   *)
(* anything is assigned leaves the state alone and is a stutter here; the  *)
(* second assertion of bindPip fails after an assignment.  Spec is for     *)
(* clients that call checkWireAvail and checkPipAvail before they bind;    *)
(* SpecThrows is for those that do not, and go on after the exception.     *)
(***************************************************************************)
EXTENDS FiniteSets

CONSTANTS Wires, Pips, Nets, PipDst, Strengths, UserStrength, NoPip, NoNet,
          Unbound,      \* a wire that is not a key of NetInfo::wires
          Free          \* RouteMap: a wire no net holds

ASSUME BaseArchAssumption ==
    /\ PipDst \in [Pips -> Wires]
    /\ UserStrength \in Strengths
    /\ NoPip \notin Pips
    /\ NoNet \notin Nets
    /\ Unbound \notin [pip : Pips \cup {NoPip}, strength : Strengths]
    /\ Free \notin [net : Nets, pip : Pips \cup {NoPip}, strength : Strengths]

PipMap == [pip : Pips \cup {NoPip}, strength : Strengths]

VARIABLES base_wire2net, base_pip2net, wires,
          to_unbind     \* the wires ripupNet has still to unbind

vars == <<base_wire2net, base_pip2net, wires, to_unbind>>

TypeOK ==
    /\ base_wire2net \in [Wires -> Nets \cup {NoNet}]
    /\ base_pip2net \in [Pips -> Nets \cup {NoNet}]
    /\ wires \in [Nets -> [Wires -> PipMap \cup {Unbound}]]
    /\ to_unbind \in SUBSET Wires

Init ==
    /\ base_wire2net = [w \in Wires |-> NoNet]
    /\ base_pip2net = [p \in Pips |-> NoNet]
    /\ wires = [n \in Nets |-> [w \in Wires |-> Unbound]]
    /\ to_unbind = {}

checkWireAvail(w) == base_wire2net[w] = NoNet
checkPipAvail(p) == base_pip2net[p] = NoNet

-----------------------------------------------------------------------------
(* The four primitives, from the point where their assertions hold. *)

BindWire(w, n, s) ==
    /\ checkWireAvail(w)
    /\ wires' = [wires EXCEPT ![n][w] = [pip |-> NoPip, strength |-> s]]
    /\ base_wire2net' = [base_wire2net EXCEPT ![w] = n]
    /\ UNCHANGED base_pip2net

\* Seeded fault: the key of the wire is not erased from the net.
UnbindWireKeepsKey(w) ==
    LET n == base_wire2net[w] IN
    /\ n # NoNet
    /\ wires[n][w] # Unbound
    /\ base_pip2net' = IF wires[n][w].pip = NoPip THEN base_pip2net
                       ELSE [base_pip2net EXCEPT ![wires[n][w].pip] = NoNet]
    /\ base_wire2net' = [base_wire2net EXCEPT ![w] = NoNet]
    /\ UNCHANGED wires

UnbindWire(w) ==
    LET n == base_wire2net[w] IN
    /\ n # NoNet
    /\ wires[n][w] # Unbound
    /\ base_pip2net' = IF wires[n][w].pip = NoPip THEN base_pip2net
                       ELSE [base_pip2net EXCEPT ![wires[n][w].pip] = NoNet]
    /\ wires' = [wires EXCEPT ![n][w] = Unbound]
    /\ base_wire2net' = [base_wire2net EXCEPT ![w] = NoNet]

\* Seeded fault: the entry keeps the strength it was created with.
BindPipNoStrength(p, n, s) ==
    /\ checkPipAvail(p)
    /\ checkWireAvail(PipDst[p])
    /\ base_pip2net' = [base_pip2net EXCEPT ![p] = n]
    /\ base_wire2net' = [base_wire2net EXCEPT ![PipDst[p]] = n]
    /\ wires' = [wires EXCEPT ![n][PipDst[p]] = [pip |-> p, strength |-> NoPip]]

\* Seeded fault: the destination wire is not asserted to be free.
BindPipOverBoundWire(p, n, s) ==
    /\ checkPipAvail(p)
    /\ base_pip2net' = [base_pip2net EXCEPT ![p] = n]
    /\ base_wire2net' = [base_wire2net EXCEPT ![PipDst[p]] = n]
    /\ wires' = [wires EXCEPT ![n][PipDst[p]] = [pip |-> p, strength |-> s]]

BindPip(p, n, s) ==
    /\ checkPipAvail(p)
    /\ checkWireAvail(PipDst[p])
    /\ base_pip2net' = [base_pip2net EXCEPT ![p] = n]
    /\ base_wire2net' = [base_wire2net EXCEPT ![PipDst[p]] = n]
    /\ wires' = [wires EXCEPT ![n][PipDst[p]] = [pip |-> p, strength |-> s]]

\* base_pip2net is assigned before the destination wire is found to be taken.
BindPipThrows(p, n) ==
    /\ checkPipAvail(p)
    /\ ~checkWireAvail(PipDst[p])
    /\ base_pip2net' = [base_pip2net EXCEPT ![p] = n]
    /\ UNCHANGED <<base_wire2net, wires>>

\* Seeded fault: the destination wire is left bound.
UnbindPipKeepsWire(p) ==
    /\ ~checkPipAvail(p)
    /\ ~checkWireAvail(PipDst[p])
    /\ wires' = [wires EXCEPT ![base_pip2net[p]][PipDst[p]] = Unbound]
    /\ base_pip2net' = [base_pip2net EXCEPT ![p] = NoNet]
    /\ UNCHANGED base_wire2net

\* unbindPip trusts base_pip2net for the net whose wire it erases.
UnbindPip(p) ==
    /\ ~checkPipAvail(p)
    /\ ~checkWireAvail(PipDst[p])
    /\ base_wire2net' = [base_wire2net EXCEPT ![PipDst[p]] = NoNet]
    /\ wires' = [wires EXCEPT ![base_pip2net[p]][PipDst[p]] = Unbound]
    /\ base_pip2net' = [base_pip2net EXCEPT ![p] = NoNet]

-----------------------------------------------------------------------------
(* The API calls.  One thread holds the context; ripupNet is a loop whose  *)
(* iterations are separate steps because one of them may throw.            *)

Idle == to_unbind = {}

bindWire(w, n, s) == Idle /\ BindWire(w, n, s) /\ UNCHANGED to_unbind
unbindWire(w) == Idle /\ UnbindWire(w) /\ UNCHANGED to_unbind
bindPip(p, n, s) == Idle /\ BindPip(p, n, s) /\ UNCHANGED to_unbind
bindPipThrows(p, n) == Idle /\ BindPipThrows(p, n) /\ UNCHANGED to_unbind
unbindPip(p) == Idle /\ UnbindPip(p) /\ UNCHANGED to_unbind

ripupNet(n) ==
    /\ Idle
    /\ to_unbind' = {w \in Wires : wires[n][w] # Unbound}
    /\ UNCHANGED <<base_wire2net, base_pip2net, wires>>

ripupNetStep ==
    \E w \in to_unbind :
        /\ UnbindWire(w)
        /\ to_unbind' = to_unbind \ {w}

\* An assertion of unbindWire fails: the loop is abandoned half done.
ripupNetThrows ==
    \E w \in to_unbind :
        /\ ~(/\ base_wire2net[w] # NoNet
             /\ wires[base_wire2net[w]][w] # Unbound)
        /\ to_unbind' = {}
        /\ UNCHANGED <<base_wire2net, base_pip2net, wires>>

lockNetRouting(n) ==
    /\ Idle
    /\ wires' = [wires EXCEPT ![n] =
                    [w \in Wires |->
                        IF wires[n][w] = Unbound THEN Unbound
                        ELSE [wires[n][w] EXCEPT !.strength = UserStrength]]]
    /\ UNCHANGED <<base_wire2net, base_pip2net, to_unbind>>

Next ==
    \/ \E w \in Wires, n \in Nets, s \in Strengths : bindWire(w, n, s)
    \/ \E w \in Wires : unbindWire(w)
    \/ \E p \in Pips, n \in Nets, s \in Strengths : bindPip(p, n, s)
    \/ \E p \in Pips : unbindPip(p)
    \/ \E n \in Nets : ripupNet(n) \/ lockNetRouting(n)
    \/ ripupNetStep

NextThrows ==
    \/ Next
    \/ \E p \in Pips, n \in Nets : bindPipThrows(p, n)
    \/ ripupNetThrows

Spec == Init /\ [][Next]_vars
SpecThrows == Init /\ [][NextThrows]_vars

-----------------------------------------------------------------------------
(* Properties *)

\* The first loop of Context::check(): what a net says it holds is what the
\* architecture's tables say that net holds, pip included.
RecordedIsBound ==
    \A n \in Nets, w \in Wires :
        wires[n][w] # Unbound =>
            /\ base_wire2net[w] = n
            /\ wires[n][w].pip # NoPip =>
                  /\ PipDst[wires[n][w].pip] = w
                  /\ base_pip2net[wires[n][w].pip] = n

\* The CHECK_WIRES loop of Context::check(): a wire the architecture has bound
\* is listed by the net that holds it.
BoundIsRecorded ==
    \A w \in Wires :
        base_wire2net[w] # NoNet => wires[base_wire2net[w]][w] # Unbound

\* No pip is held on its own: a held pip drives the wire it ends in, for the
\* net that holds it.  Context::check() does not look at this; a pip held alone
\* would be lost to every router for the rest of the run.
PipDrivesItsWire ==
    \A p \in Pips :
        base_pip2net[p] # NoNet =>
            LET b == wires[base_pip2net[p]][PipDst[p]] IN
            b # Unbound /\ b.pip = p

Consistent == RecordedIsBound /\ BoundIsRecorded /\ PipDrivesItsWire

-----------------------------------------------------------------------------
(* The abstract view: the owner of a wire, read off the three tables. *)

routeView ==
    [w \in Wires |->
        LET n == base_wire2net[w] IN
        IF n = NoNet THEN Free
        ELSE [net |-> n, pip |-> wires[n][w].pip,
              strength |-> wires[n][w].strength]]

Abstract == INSTANCE RouteMap WITH route <- routeView

AbstractSpec == Abstract!Spec
=============================================================================

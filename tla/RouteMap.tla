------------------------------ MODULE RouteMap ------------------------------
(***************************************************************************)
(* What the routing-resource API of an architecture promises its clients,  *)
(* whatever tables an architecture keeps: every wire is either free or     *)
(* owned by exactly one net, together with the pip that drives it and the  *)
(* strength of the binding; a wire changes hands only by being released    *)
(* first; and a net can be re-labelled without moving.  BaseArch and       *)
(* Ice40Routing keep this information in three or four tables each and are *)
(* shown to implement this module.                                         *)
(***************************************************************************)
CONSTANTS Wires,      \* WireId
          Pips,       \* PipId
          Nets,       \* NetInfo *
          PipDst,     \* getPipDstWire
          Strengths,  \* PlaceStrength
          UserStrength, \* STRENGTH_USER
          NoPip,      \* PipId()
          Free        \* a wire no net holds

Binding == [net : Nets, pip : Pips \cup {NoPip}, strength : Strengths]

VARIABLE route

TypeOK == route \in [Wires -> Binding \cup {Free}]

Init == route = [w \in Wires |-> Free]

\* A free wire is given to a net, driven either by a bel pin or by a pip that
\* ends in it.
Claim(w, b) ==
    /\ route[w] = Free
    /\ b.pip # NoPip => PipDst[b.pip] = w
    /\ route' = [route EXCEPT ![w] = b]

Release(w) ==
    /\ route[w] # Free
    /\ route' = [route EXCEPT ![w] = Free]

\* Every binding of one net becomes a user binding.
Lock(n) ==
    route' = [w \in Wires |->
                IF route[w] # Free /\ route[w].net = n
                THEN [route[w] EXCEPT !.strength = UserStrength]
                ELSE route[w]]

Next == \/ \E w \in Wires, b \in Binding : Claim(w, b)
        \/ \E w \in Wires : Release(w)
        \/ \E n \in Nets : Lock(n)

Spec == Init /\ [][Next]_route
=============================================================================

----------------------------- MODULE MCRouter1 ------------------------------
(* Cross: y and z take any net to any sink, or lead to one another.          *)
EXTENDS Router1Devices

CrossPips == ({sA, sB} \X {y, z}) \cup ({y, z} \X {dA, dB, eA})
                \cup {<<y, z>>, <<z, y>>}
CrossArcs == {<<A, dA>>, <<A, eA>>, <<B, dB>>}

\* C has a sink that is a constant wire, which B does not pass, and B one that is
\* its own source.  No routing of C drives a constant wire.
ConstArcs == {<<C, dA>>, <<C, eA>>, <<B, dB>>, <<B, sB>>}

\* The wire dA is a sink of two nets.
SameSinkArcs == {<<A, dA>>, <<B, dA>>, <<B, dB>>}

AllArcs == CrossArcs \cup ConstArcs \cup SameSinkArcs

\* The first net locked up to y only, on the way to a sink: other nets may take
\* the rest of its route.
PartlyLocked(r) ==
    [n \in Nets |-> [w \in Wires |->
        IF n = A /\ w \in {sA, y} /\ r[n][w] # Unbound
        THEN [pip |-> r[n][w].pip, strength |-> STRENGTH_LOCKED] ELSE r[n][w]]]

CrossDesigns ==
    [arcs : {CrossArcs}, routing : TreeRouting(A, B)]
        \cup [arcs : {ConstArcs},
              routing : {r \in TreeRouting(C, B) :
                           /\ r[B][eA] = Unbound
                           /\ \A w \in {z, eA} : r[C][w] # Unbound => r[C][w].pip = NoPip}]
        \cup [arcs : {SameSinkArcs}, routing : TreeRouting(A, B)]
        \cup {d \in [arcs : {CrossArcs}, routing : {PartlyLocked(r) : r \in TreeRouting(A, B)}] :
                 LocksServe(d)}

\* A design with locked wires, all of which serve an arc.
SomeLocksServe(d) ==
    LocksServe(d) /\ \E n \in Nets, w \in Wires : /\ d.routing[n][w] # Unbound
                                                  /\ d.routing[n][w].strength >= STRENGTH_LOCKED

\* These designs are as the theorems of Router1_proofs ask, and locked wires serve
\* in some of them.
ASSUME CrossHypotheses ==
    /\ ConstantsEnd
    /\ \A d \in CrossDesigns :
          /\ NoLoop(d.routing) /\ Driven(d.routing) /\ PipsUsable(d.routing)
          /\ SourcesBare(d.routing) /\ SkippedBare(d.routing)
          /\ LocksKeepClear(d) /\ TrivialSinksApart(d)
    /\ \E d \in CrossDesigns : SomeLocksServe(d)
=============================================================================

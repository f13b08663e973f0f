------------------------------ MODULE MCRouter2 ------------------------------
(* Small devices for Router2.  A pip is named by the wires it connects and   *)
(* an arc by its net, its sink and a number.                                 *)
EXTENDS Router2, InitialRoutings

CONSTANTS A, B, C,                       \* nets; C is a constant
          sA, sB, sC, y, z, dA, dB, eA,  \* wires
          Both,                          \* a switch
          One                            \* a constant value

NetOf == [a \in Arcs |-> a[1]]
SinkOf == [a \in Arcs |-> a[2]]
Sources == [n \in Nets |-> CASE n = A -> sA [] n = B -> sB [] n = C -> sC]
\* The bel that drives A has the constant as another output.
Outputs == [n \in Nets |-> IF n = A THEN {sA, sC} ELSE {Sources[n]}]
ConstNets == [n \in Nets |-> IF n = C THEN One ELSE NoValue]
\* Wires that carry the constant by themselves.
ConstWires == [w \in Wires |-> IF w \in {sC, z} THEN One ELSE NoValue]

\* One switch in front of each wire, as in the tiles of the iCE40, but the ones of eA
\* and dB are one switch where y and z lead there: the books do not show it.
MuxOf == [p \in Pips |-> IF p \in {<<y, eA>>, <<z, dB>>} THEN Both ELSE p[2]]
MuxSwitches == Wires \cup {Both}

\* Every driven routing of some nets, held with one of the strengths S.
Held(N, S) == {Routing(f, [k \in Nets |-> s]) : f \in Trees(N), s \in S}

NoRouting == [n \in Nets |-> [w \in Wires |-> Unbound]]

-----------------------------------------------------------------------------
(* Cross: y and z take A and B to their sinks; A has a way of its own to eA.  *)
(* For C, which starts at sC or z, both are taken by the constant.            *)
CrossPips == ({sA, sB} \X {y, z}) \cup ({y, z} \X {dA, dB, eA}) \cup {<<sC, y>>, <<sA, eA>>}
CrossArcs == {<<A, dA, 1>>, <<A, eA, 1>>, <<B, dB, 1>>}
ConstArcs == {<<C, dA, 1>>, <<C, eA, 1>>, <<B, dB, 1>>}
TwiceArcs == {<<A, dA, 1>>, <<A, dA, 2>>, <<B, dB, 1>>}

AllArcs == CrossArcs \cup TwiceArcs \cup ConstArcs

\* A through z and B through y want two values of a resource.
ResourceR == [p \in Pips |-> IF p \in {<<z, dA>>, <<z, eA>>, <<y, dB>>} THEN "r" ELSE NoResource]
ValueOf == [p \in Pips |-> IF p[2] = dB THEN 2 ELSE 1]

CrossDesigns ==
    [arcs : {CrossArcs}, routing : {r \in Held({A}, Strengths) : r[A][eA] # Unbound}
                                    \cup Held({B}, {STRENGTH_WEAK})]
        \cup [arcs : {TwiceArcs}, routing : Held({A}, {STRENGTH_WEAK})]
        \cup [arcs : {ConstArcs},
              routing : {r \in Held({C}, {STRENGTH_WEAK, STRENGTH_LOCKED}) : r[C][z] = Unbound}]

PlainDesigns == [arcs : {CrossArcs}, routing : {NoRouting}]

\* B's wires and z are on the right; the others on the left.  A starts with a box on
\* the left and B with one on the right, so that each has a thread, and C has none.
MCGrid == [x |-> 2, y |-> 0]
MCMid == [x |-> 1, y |-> 1]
Place == [w \in Wires |-> [x |-> IF w \in {sB, dB, z} THEN 2 ELSE 0, y |-> 0]]
PipPlace == [p \in Pips |-> Place[p[2]]]
Boxes == [n \in Nets |-> [x0 |-> IF n = B THEN 1 ELSE 0, x1 |-> IF n = A THEN 0 ELSE 2,
                          y0 |-> 0, y1 |-> 0]]

\* These devices and designs are as the theorems of Router2_proofs ask, but for the
\* design with the constant: B can take z, where C may start.
ASSUME CrossHypotheses ==
    /\ ConstantsStart /\ ConstantsDriven /\ SinksEnd /\ BoxesOnGrid /\ WaysFit
    /\ \A d \in CrossDesigns \cup PlainDesigns :
          /\ OneValue(d.arcs, d.routing) /\ WellRooted(d.routing)
          /\ d.arcs # ConstArcs => OwnStarts(d)
=============================================================================

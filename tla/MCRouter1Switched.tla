------------------------- MODULE MCRouter1Switched --------------------------
(* Switched: A through y and B through z exclude each other by a switch, and *)
(* eA is a way around that the placement has closed.                         *)
EXTENDS Router1Devices

SwitchedPips == ({sA, sB} \X {y, z}) \cup ({y, z} \X {dA, dB})
                   \cup {<<sA, eA>>, <<eA, dA>>}
SwitchedArcs == {<<A, dA>>, <<B, dB>>}
SharedSwitch == [p \in Pips |-> IF p = <<z, dB>> THEN <<y, dA>> ELSE p]
Closed == {<<sA, eA>>}
SwitchedDesigns ==
    [arcs : {SwitchedArcs}, routing : TreeRouting(A, B) \cup BrokenRouting(A, B)]

\* These designs are as the theorems ask that do not want their routing driven.
ASSUME SwitchedHypotheses ==
    /\ ConstantsEnd
    /\ \A d \in SwitchedDesigns :
          /\ NoLoop(d.routing) /\ PipsUsable(d.routing)
          /\ SourcesBare(d.routing) /\ SkippedBare(d.routing) /\ TrivialSinksApart(d)
=============================================================================

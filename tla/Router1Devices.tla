-------------------------- MODULE Router1Devices ----------------------------
(* What the small devices for Router1 share.  A pip is named by the wires it *)
(* connects and an arc by its net and its sink.  A run takes several designs, *)
(* each with every routing of a given kind that it may have when the router  *)
(* starts.                                                                   *)
EXTENDS Router1, InitialRoutings

CONSTANTS A, B, C,                       \* nets; C is a constant
          sA, sB, y, z, dA, dB, eA,      \* wires
          One                            \* a constant value

NetOf == [a \in Arcs |-> a[1]]
SinkOf == [a \in Arcs |-> a[2]]
Sources == [n \in Nets |-> CASE n = A -> sA [] n = B -> sB [] n = C -> NoWire]
ConstNets == [n \in Nets |-> IF n = C THEN One ELSE NoValue]
\* Wires that carry the constant by themselves.
ConstWires == [w \in Wires |-> IF w \in {z, eA} THEN One ELSE NoValue]

-----------------------------------------------------------------------------
\* Every driven routing of two nets, the first held weakly or locked.
TreeRouting(m, n) ==
    {Routing(f, [k \in Nets |-> IF k = m THEN s ELSE STRENGTH_WEAK]) :
        f \in Trees({m, n}), s \in Strengths}

\* Also routing that does not reach back to its source, but has no loop: setup()
\* would follow a loop for ever.
BrokenRouting(m, n) ==
    {Routing(f, [k \in Nets |-> STRENGTH_WEAK]) : f \in {g \in Fitting({m, n}) : ~HasLoop(g)}}
=============================================================================

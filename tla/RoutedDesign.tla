---------------------------- MODULE RoutedDesign ----------------------------
(***************************************************************************)
(* What both routers are asked for: checkRoutedDesign() of                 *)
(* common/route/router1.cc, which debug builds of router1 assert and       *)
(* router2 calls when routing ends.  It reads the nets' wire tables only.  *)
(* And what both search: paths from a sink back to where the net starts.   *)
(*                                                                         *)
(* A net is driven by one source wire, or carries a constant and may also  *)
(* start at any wire that has this constant by itself.                     *)
(***************************************************************************)
EXTENDS Ice40Routing, Naturals, Sequences

CONSTANTS
    PipSrc,       \* getPipSrcWire
    SourceWire,   \* getNetinfoSourceWire: a wire, or NoWire
    NetConst,     \* NetInfo::constant_value, or NoValue
    WireConst,    \* getWireConstantValue, or NoValue
    NoValue

STRENGTH_WEAK == 1
STRENGTH_STRONG == 2
STRENGTH_PLACER == 3
STRENGTH_LOCKED == 5

IsConst(n) == NetConst[n] # NoValue

\* Where the walk from a sink towards the source ends.
AtSource(n, w) == \/ w = SourceWire[n]
                  \/ IsConst(n) /\ WireConst[w] = NetConst[n]

\* Where a new route may start.
RouteRoot(n, w) == IF IsConst(n) THEN WireConst[w] = NetConst[n]
                   ELSE w = SourceWire[n]

\* NetInfo::wires when the router is called: nets that share neither wires nor
\* switches, and pips that drive the wires they are listed for.  The routing
\* need not be complete.
InitialRouting(r) ==
    /\ \A m, n \in Nets, w \in Wires :
          r[m][w] # Unbound /\ r[n][w] # Unbound => m = n
    /\ \A n \in Nets, w \in Wires :
          (r[n][w] # Unbound /\ r[n][w].pip # NoPip) => PipDst[r[n][w].pip] = w
    /\ \A m, n \in Nets, v, w \in Wires :
          (/\ r[m][v] # Unbound /\ r[m][v].pip # NoPip
           /\ r[n][w] # Unbound /\ r[n][w].pip # NoPip
           /\ Switch[r[m][v].pip] = Switch[r[n][w].pip]) => v = w

\* The architecture's tables agree with NetInfo::wires when routing starts.
InitTables ==
    /\ wire_to_net =
         [w \in Wires |-> IF \E n \in Nets : wires[n][w] # Unbound
                          THEN CHOOSE n \in Nets : wires[n][w] # Unbound
                          ELSE NoNet]
    /\ pip_to_net =
         [p \in Pips |-> IF \E n \in Nets : /\ wires[n][PipDst[p]] # Unbound
                                            /\ wires[n][PipDst[p]].pip = p
                         THEN wire_to_net[PipDst[p]] ELSE NoNet]
    /\ switches_locked =
         [s \in Switches |->
             IF \E p \in Pips : Switch[p] = s /\ pip_to_net[p] # NoNet
             THEN PipDst[CHOOSE p \in Pips : Switch[p] = s /\ pip_to_net[p] # NoNet]
             ELSE NoWire]

-----------------------------------------------------------------------------
\* The simple paths of k pips that end in d, listed from d backwards.
PathsBack(d) ==
    LET f[k \in 1..Cardinality(Wires)] ==
          IF k = 1 THEN {<<p>> : p \in {q \in Pips : PipDst[q] = d /\ PipSrc[q] # d}}
          ELSE {Append(q[1], q[2]) :
                  q \in {r \in f[k - 1] \X Pips :
                           /\ PipDst[r[2]] = PipSrc[r[1][k - 1]]
                           /\ PipSrc[r[2]] # d
                           /\ \A i \in 1..(k - 1) : PipSrc[r[2]] # PipSrc[r[1][i]]}}
    IN UNION {f[k] : k \in 1..Cardinality(Wires)}

\* A path as a search leaves it in its table of visited wires: each pip ends in
\* the wire the one before it starts from, and no wire is met twice.
LeadsTo(path, d) ==
    /\ path \in Seq(Pips) \ {<<>>}
    /\ PipDst[path[1]] = d
    /\ \A i \in 1..(Len(path) - 1) : PipDst[path[i + 1]] = PipSrc[path[i]]
    /\ \A i, j \in 1..Len(path) : PipDst[path[i]] = PipDst[path[j]] => i = j
    /\ \A i \in 1..Len(path) : PipSrc[path[Len(path)]] # PipDst[path[i]]

-----------------------------------------------------------------------------
HeldBy(n) == {w \in Wires : wires[n][w] # Unbound}
Children(n, w) == {c \in HeldBy(n) : wires[n][c].pip # NoPip
                                     /\ PipSrc[wires[n][c].pip] = w}
Roots(n) == IF IsConst(n)
            THEN {w \in HeldBy(n) : wires[n][w].pip = NoPip
                                    /\ WireConst[w] = NetConst[n]}
            ELSE {SourceWire[n]}
Reached(n) ==
    {v \in Wires : \A S \in SUBSET Wires :
        (Roots(n) \subseteq S /\ \A u \in S : Children(n, u) \subseteq S) => v \in S}

\* The walk over one net, whose sinks are given: the conditions that make it
\* report the net are named as in the code.
NetRouted(n, sinks) ==
    LET parents == {w \in Wires : Children(n, w) # {}}
    IN \/ sinks = {} /\ HeldBy(n) = {}
       \/ ~IsConst(n) /\ SourceWire[n] = NoWire /\ HeldBy(n) = {}
       \/ /\ sinks = {} =>
                \A w \in HeldBy(n) : wires[n][w].strength >= STRENGTH_LOCKED
          /\ IsConst(n) \/ SourceWire[n] # NoWire
          /\ ~IsConst(n) => SourceWire[n] \in HeldBy(n)       \* found_unrouted
          /\ sinks \subseteq HeldBy(n)
          /\ \A u \in Reached(n) : Children(n, u) \cap Roots(n) = {} \* found_loop
          /\ \A u \in Reached(n) :                            \* found_stub
                \/ Children(n, u) # {}
                \/ u \in sinks
                \/ u \in HeldBy(n) /\ wires[n][u].strength >= STRENGTH_LOCKED
          /\ HeldBy(n) \cup parents \subseteq Reached(n)      \* dangling_wires
=============================================================================

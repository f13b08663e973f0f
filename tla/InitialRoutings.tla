-------------------------- MODULE InitialRoutings --------------------------
(* The routings a small device may have when a router starts.  A pip is named *)
(* by the wires it connects.  An assignment gives each wire an owner and a    *)
(* driving pip.                                                               *)
EXTENDS RoutedDesign, TLC

Src == [p \in Pips |-> p[1]]
Dst == [p \in Pips |-> p[2]]
OwnSwitch == [p \in Pips |-> p]

\* A pip out of a source serves that source's net only.
OwnSource ==
    [n \in Nets |-> {p \in Pips : \A m \in Nets \ {n} : p[1] # SourceWire[m]}]

Source(n) == {w \in Wires : AtSource(n, w)}

Choices(N, w) ==
    {NoNet} \cup {<<n, p>> \in N \X Pips : p[2] = w /\ p \in OwnSource[n] \ HardUnavail}
            \cup {<<n, NoPip>> : n \in {m \in N : w \in Source(m)}}

RECURSIVE Assignments(_, _)
Assignments(N, W) ==
    IF W = {} THEN {<<>>}
    ELSE LET w == CHOOSE v \in W : TRUE
         IN {(w :> c) @@ f : c \in Choices(N, w), f \in Assignments(N, W \ {w})}

\* The assignment without pips that share a switch.
SwitchesFit(f) ==
    \A v, w \in Wires :
        (v # w /\ f[v] # NoNet /\ f[w] # NoNet /\ f[v][2] # NoPip /\ f[w][2] # NoPip)
            => Switch[f[v][2]] # Switch[f[w][2]]

RECURSIVE ReachesSource(_, _, _)
ReachesSource(f, w, steps) ==
    /\ f[w] # NoNet
    /\ f[w][2] # NoPip =>
          /\ steps > 0
          /\ f[f[w][2][1]] # NoNet
          /\ f[f[w][2][1]][1] = f[w][1]
          /\ ReachesSource(f, f[w][2][1], steps - 1)

HasLoop(f) ==
    \E W \in SUBSET Wires \ {{}} :
        \A w \in W : f[w] # NoNet /\ f[w][2] # NoPip /\ f[w][2][1] \in W

Routing(f, strength) ==
    [n \in Nets |-> [w \in Wires |->
        IF f[w] # NoNet /\ f[w][1] = n
        THEN [pip |-> f[w][2], strength |-> strength[n]] ELSE Unbound]]

Fitting(N) == {f \in Assignments(N, Wires) : SwitchesFit(f)}
Trees(N) == {f \in Fitting(N) : \A w \in Wires : f[w] # NoNet =>
                                    ReachesSource(f, w, Cardinality(Wires))}

============================================================================

--------------------------- MODULE MCFrontendNets ---------------------------
(* A top level module and the instances in it. *)
EXTENDS FrontendNets, TLC

CONSTANTS s, t   \* two instances

\* Both in the top level.
ParentTwo == s :> Top @@ t :> Top

\* Two instances and no names; or one instance, nets of at most two signals in
\* each module and two names, with pads.
Unnamed == /\ \A m \in Insts : named[m] = {}
           /\ \A n \in nets : n[3] <= MaxUnique
OneInstance ==
    /\ Cardinality(named[Top]) + Cardinality(named[s]) + Cardinality(named[t]) <= 2
    /\ Cardinality({m \in Insts : stage[m] = "waiting"}) > 0
    /\ \A m \in Insts :
         Cardinality({b \in Bits : \/ GetIndex(m, b) # 0
                                   \/ net_names[m][b] # {}
                                   \/ <<m, b>> \in UNION joined}) <= 2
Cases == Unnamed \/ OneInstance

Symmetry == Permutations(Bits) \cup Permutations(Ports) \cup
            Permutations(Labels) \cup Permutations({s, t})
=============================================================================

------------------------------ MODULE SlotMap ------------------------------
(***************************************************************************)
(* What indexed_store promises its clients: an object keeps its index      *)
(* until it is removed, and add() returns an index that names nothing.     *)
(***************************************************************************)
CONSTANTS Indices, Objects, NoObject

VARIABLE entry   \* entry[i]: the object with index i, or NoObject

TypeOK == entry \in [Indices -> Objects \cup {NoObject}]

Init == entry = [i \in Indices |-> NoObject]

Add(i, x) ==
    /\ entry[i] = NoObject
    /\ entry' = [entry EXCEPT ![i] = x]

Remove(i) ==
    /\ entry[i] # NoObject
    /\ entry' = [entry EXCEPT ![i] = NoObject]

Clear == entry' = [i \in Indices |-> NoObject]

Next == \/ \E i \in Indices, x \in Objects : Add(i, x)
        \/ \E i \in Indices : Remove(i)
        \/ Clear

Spec == Init /\ [][Next]_entry
=============================================================================

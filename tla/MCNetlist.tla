----------------------------- MODULE MCNetlist -----------------------------
(* Two cells with two ports each, and two nets with up to two users. *)
EXTENDS Netlist, TLC

Symmetry == Permutations(Cells) \cup Permutations(PortNames)
            \cup Permutations(Nets) \cup Permutations(Indices)
=============================================================================

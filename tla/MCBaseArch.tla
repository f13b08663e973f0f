----------------------------- MODULE MCBaseArch -----------------------------
(* Two nets compete for three wires; p1 and p2 end in the same wire. *)
EXTENDS BaseArch, TLC

CONSTANTS w1, w2, w3, p1, p2, p3

MCPipDst == (p1 :> w1) @@ (p2 :> w1) @@ (p3 :> w2)
=============================================================================

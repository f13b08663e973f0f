--------------------------- MODULE MCDetailPlace ---------------------------
(***************************************************************************)
(* Cells a and b, the clusters of q with p and of r with s, and a locked   *)
(* cell k on three columns of tiles with one or two bels.                  *)
(***************************************************************************)
EXTENDS DetailPlace

MCBels == {<<x, y, z>> : x \in 0..2, y \in 0..1, z \in 0..1} \ {<<1, 1, 1>>, <<2, 1, 0>>}
MCCanHold == [c \in Cells |-> MCBels]
MCChildren == [c \in {"q", "r"} |-> IF c = "q" THEN <<"p">> ELSE <<"s">>]
\* p stands above q in its tile, s to the right of r in the next column: the
\* cluster of r may reach over two parts.
MCOffset == [c \in Cells |->
    IF c = "p" THEN <<0, 0, 1>> ELSE IF c = "s" THEN <<1, 0, 0>> ELSE <<0, 0, 0>>]
MCPins == [n |-> <<"r", "a", "b">>, m |-> <<"k", "a", "a", "s">>, g |-> <<"b", "k">>]
MCLegalTiles == {cs \in SUBSET Cells : ~({"a", "b"} \subseteq cs)}
MCUnavailable == {<<2, 1, 1>>}

\* Everywhere but on the refused bel, with k and b where they are.
MCPlacements ==
    {p \in [Cells -> MCBels \ MCUnavailable] :
        p["k"] = <<2, 0, 0>> /\ p["b"] = <<1, 1, 0>> /\ p["q"] = <<0, 1, 0>>}

\* No regions; or a region of the middle column, for cell b.
AllBels == [c \in Cells |-> MCBels]
MiddleColumn == [c \in Cells |-> IF c = "b" THEN {x \in MCBels : x[1] = 1} ELSE MCBels]
=============================================================================

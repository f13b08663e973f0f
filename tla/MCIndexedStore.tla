--------------------------- MODULE MCIndexedStore ---------------------------
(* A store of at most four slots. *)
EXTENDS IndexedStore

MCIndices == 0..3
=============================================================================

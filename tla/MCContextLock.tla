--------------------------- MODULE MCContextLock ---------------------------
(* The worker, the main thread of the GUI and the thread that renders. *)
EXTENDS ContextLock
=============================================================================

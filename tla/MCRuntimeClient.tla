--------------------------- MODULE MCRuntimeClient ---------------------------
(* RuntimeClient for TLC.  The runs check liveness, so no symmetry is used. *)
EXTENDS RuntimeClient
=============================================================================

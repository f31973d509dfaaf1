--------------------------- MODULE MCRuntimeScript ---------------------------
(* An instance of RuntimeScript: two runs, an image of two writes. *)
EXTENDS RuntimeScript

=============================================================================

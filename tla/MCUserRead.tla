----------------------------- MODULE MCUserRead -----------------------------
(* Two files and two threads, which may share a file.                        *)
EXTENDS UserRead
=============================================================================

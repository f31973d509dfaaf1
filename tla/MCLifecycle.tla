---------------------------- MODULE MCLifecycle ----------------------------
(* The lifecycle with two priorities and rings of two frames (safety), or    *)
(* with one of each (liveness and the counterexamples), and a generation     *)
(* that wraps after a few sessions.                                          *)
EXTENDS Lifecycle
=============================================================================

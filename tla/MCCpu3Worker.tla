---------------------------- MODULE MCCpu3Worker ----------------------------
(* The firmware with a reliable and a best-effort priority and rings of one  *)
(* frame (safety), or with one priority and rings of two frames (liveness    *)
(* and the counterexamples), so that the drain quota, a full reverse ring    *)
(* and a reschedule all occur.                                               *)
EXTENDS Cpu3Worker
=============================================================================

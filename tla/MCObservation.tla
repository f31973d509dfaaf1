---------------------------- MODULE MCObservation ----------------------------
(* An instance of Observation: few commit words, so that they repeat. *)
EXTENDS Observation

=============================================================================

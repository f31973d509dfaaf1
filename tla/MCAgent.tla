------------------------------ MODULE MCAgent ------------------------------
(* Two processes and rings that three requests overflow; the inputs reach
   past the largest value the validator accepts.                            *)
EXTENDS Agent
=============================================================================

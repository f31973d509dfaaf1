--------------------------- MODULE MCWindowBench ---------------------------
(* Reliable and unreliable priorities, windows that fit the reverse ring and
   windows that do not, sequence numbers that wrap within a run.            *)
EXTENDS WindowBench

=============================================================================

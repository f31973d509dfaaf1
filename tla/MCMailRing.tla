----------------------------- MODULE MCMailRing -----------------------------
(* The ring on a small instance: three slots, so that both indices wrap      *)
(* within a few operations and FULL (two frames) is soon reached.            *)
EXTENDS MailRing
=============================================================================

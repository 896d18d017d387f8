---------------------------- MODULE MC_SPSCQueue ----------------------------
(* SPSCQueue for TLC.                                                      *)
EXTENDS SPSCQueue

=============================================================================

------------------------- MODULE MC_MatchingEngine --------------------------
(* MatchingEngine for TLC.                                                 *)
EXTENDS MatchingEngine

=============================================================================

---------------------------- MODULE MC_RiskGate -----------------------------
(* RiskGate for TLC.                                                       *)
EXTENDS RiskGate

=============================================================================

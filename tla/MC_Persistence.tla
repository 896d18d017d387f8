--------------------------- MODULE MC_Persistence ---------------------------
(* Persistence for TLC.                                                    *)
EXTENDS Persistence

=============================================================================

--------------------------- MODULE MC_MarketData ----------------------------
(* MarketData for TLC.                                                     *)
EXTENDS MarketData

=============================================================================

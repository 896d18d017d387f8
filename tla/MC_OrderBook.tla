---------------------------- MODULE MC_OrderBook ----------------------------
(* OrderBook for TLC.                                                      *)
EXTENDS OrderBook

=============================================================================

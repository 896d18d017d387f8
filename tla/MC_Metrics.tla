----------------------------- MODULE MC_Metrics -----------------------------
(* Metrics for TLC: the calls of the instance.                             *)
EXTENDS Metrics, TLC

MCCalls ==
    {[kind |-> "trade", price |-> 3, qty |-> 3, sequence |-> 1],
     [kind |-> "result", status |-> "rejected", sequence |-> 0],
     [kind |-> "cancel", ok |-> TRUE],
     [kind |-> "modify", ok |-> FALSE]}

Symmetry == Permutations(Threads)
=============================================================================

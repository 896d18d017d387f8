---------------------------- MODULE BoundedFifo -----------------------------
(***************************************************************************)
(* What a bounded queue promises: values leave in the order in which they  *)
(* entered, none is lost or duplicated, and at most N are inside.  A push  *)
(* or a pop that fails changes nothing.                                    *)
(***************************************************************************)
EXTENDS Integers, Sequences

CONSTANTS N, Value

VARIABLES
    items,    \* the values inside, oldest first
    out       \* the value the latest successful pop returned

vars == << items, out >>

Init ==
    /\ items = << >>
    /\ out \in Value

Push(v) ==
    /\ Len(items) < N
    /\ items' = Append(items, v)
    /\ UNCHANGED out

Pop ==
    /\ items # << >>
    /\ out' = Head(items)
    /\ items' = Tail(items)

Next == Pop \/ \E v \in Value : Push(v)

Spec == Init /\ [][Next]_vars
=============================================================================

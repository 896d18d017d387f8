--------------------------- MODULE PriceTimeBook ----------------------------
(***************************************************************************)
(* What an order book promises its users, without ladders, levels, totals  *)
(* or an index: the resting orders are one list in order of arrival.  A    *)
(* new or replaced order goes to the end, a reduced one keeps its place,   *)
(* and a fill is taken from the earliest arrival at its side and price.    *)
(***************************************************************************)
EXTENDS Integers, Sequences

CONSTANTS OrderId, MaxPrice, MaxQuantity

VARIABLES
    resting,    \* the resting orders, in order of arrival
    ret         \* what the last call returned

vars == << resting, ret >>

Entry == [id        : OrderId,
          side      : {"Buy", "Sell"},
          price     : 0 .. MaxPrice,
          remaining : 1 .. MaxQuantity]

Ids == {resting[i].id : i \in DOMAIN resting}

Place(id) == CHOOSE i \in DOMAIN resting : resting[i].id = id

(* The list without its i-th entry.                                        *)
Without(i) ==
    [j \in 1 .. (Len(resting) - 1) |-> IF j < i THEN resting[j] ELSE resting[j + 1]]

(* No order of the same side and price arrived before the i-th.            *)
IsFront(i) ==
    \A j \in 1 .. (i - 1) : \/ resting[j].side # resting[i].side
                            \/ resting[j].price # resting[i].price

Init ==
    /\ resting = << >>
    /\ ret = "none"

(* A call that changes nothing: unknown id, bad argument, no-op.           *)
Refuse(r) ==
    /\ ret' = r
    /\ UNCHANGED resting

Insert(e) ==
    /\ e.id \notin Ids
    /\ resting' = Append(resting, e)
    /\ ret' = "true"

Cancel(id) ==
    /\ id \in Ids
    /\ resting' = Without(Place(id))
    /\ ret' = "true"

(* reduce, or modify to less at the same price: the place is kept.         *)
Shrink(id, q, r) ==
    /\ id \in Ids
    /\ q < resting[Place(id)].remaining
    /\ resting' = [resting EXCEPT ![Place(id)].remaining = q]
    /\ ret' = r

(* modify to another price or to more: the order arrives again.            *)
Replace(id, q, p) ==
    /\ id \in Ids
    /\ p # resting[Place(id)].price \/ q > resting[Place(id)].remaining
    /\ resting' = Append(Without(Place(id)),
                         [resting[Place(id)] EXCEPT !.price = p, !.remaining = q])
    /\ ret' = "Replaced"

(* A fill of q units takes them from the front of the queue at the price;  *)
(* the order stays in its place as long as something remains of it.        *)
Fill(id, q) ==
    /\ id \in Ids
    /\ IsFront(Place(id))
    /\ IF q < resting[Place(id)].remaining
       THEN /\ resting' = [resting EXCEPT ![Place(id)].remaining = @ - q]
            /\ ret' = "true"
       ELSE /\ resting' = Without(Place(id))
            /\ ret' = "false"

Next ==
    \/ \E r \in {"false", "NotFound", "Rejected", "Modified", "true"} : Refuse(r)
    \/ \E e \in Entry : Insert(e)
    \/ \E id \in OrderId : Cancel(id)
    \/ \E id \in OrderId, q \in 1 .. MaxQuantity, r \in {"true", "Modified"} :
           Shrink(id, q, r)
    \/ \E id \in OrderId, q \in 1 .. MaxQuantity, p \in 0 .. MaxPrice :
           Replace(id, q, p)
    \/ \E id \in OrderId, q \in 1 .. (MaxQuantity + 1) : Fill(id, q)

Spec == Init /\ [][Next]_vars
=============================================================================

-------------------------------- MODULE Book --------------------------------
(***************************************************************************)
(* The data structure of one OrderBook (order_book.hpp, order_book.cpp):   *)
(* the two price ladders, the FIFO list of every price level with its      *)
(* running total, the map that owns the Level objects and the index that   *)
(* owns the Orders.  A book is a record, and every method of the class is  *)
(* an operator from a book to the book it leaves behind, so that the       *)
(* state machines of OrderBook and MatchingEngine share one translation.   *)
(***************************************************************************)
EXTENDS Integers, Sequences, FiniteSets

CONSTANTS
    OrderId,       \* the valid order ids (kInvalidOrderId is 0)
    TraderId,      \* the ids of the traders
    MaxPrice,      \* kMaxPriceTicks
    MaxQuantity    \* kMaxQuantity

ASSUME BookAssumption ==
    /\ OrderId \subseteq Nat \ {0}
    /\ MaxPrice \in Nat
    /\ MaxQuantity \in Nat \ {0}

-----------------------------------------------------------------------------

Side == {"Buy", "Sell"}

Opposite(s) == IF s = "Buy" THEN "Sell" ELSE "Buy"

(* The prices and quantities that pass is_valid().                         *)
Price == 0 .. MaxPrice

Quantity == 1 .. MaxQuantity

(* Price{kInvalidPrice}: what best_bid() and best_ask() return for an      *)
(* empty ladder, and an input that fails is_valid().                       *)
NoPrice == -1

(* No Level object is stored for a price.                                  *)
NoSide == "None"

(* A resting order: the fields of Order that the book and the matcher      *)
(* read.  Its id is its key in the index.  Its trader is 0 when a replay   *)
(* does not know it (event_log.cpp:283).  Its original quantity is only    *)
(* ever written once it rests, and of its status the code only asks        *)
(* whether it is Filled or Cancelled; cancel erases an order in the call   *)
(* that sets Cancelled, so the two values that can be seen are Open (New   *)
(* or PartiallyFilled) and Filled.                                         *)
Order == [side      : Side,
          price     : Price,
          remaining : 0 .. MaxQuantity,
          status    : {"Open", "Filled"},
          trader    : TraderId \cup {0},
          sequence  : Nat]

(* A book.  ladder[s] is the key set of bids_ or asks_; queue[s][p] the    *)
(* intrusive list of the Level at p, oldest first, whose length is its     *)
(* order_count_; total[s][p] its total_quantity_; storage[p] names the     *)
(* side whose Level object level_storage_ owns for the price p, since the  *)
(* map is keyed by the price alone; corrupt is set by the first access to  *)
(* a Level that has been freed, after which the code's behaviour is        *)
(* undefined and no step is modelled.                                      *)
Ladders == [Side -> SUBSET Price]
Queues == [Side -> [Price -> Seq(OrderId)]]
Totals == [Side -> [Price -> Int]]
Storage == [Price -> Side \cup {NoSide}]

IsIndex(f) ==
    /\ DOMAIN f \subseteq OrderId
    /\ f \in [DOMAIN f -> Order]

IsBook(b) ==
    /\ b \in [index : {b.index}, ladder : Ladders, queue : Queues,
              total : Totals, storage : Storage, corrupt : BOOLEAN]
    /\ IsIndex(b.index)

EmptyBook == [index   |-> [id \in {} |-> 0],
              ladder  |-> [s \in Side |-> {}],
              queue   |-> [s \in Side |-> [p \in Price |-> << >>]],
              total   |-> [s \in Side |-> [p \in Price |-> 0]],
              storage |-> [p \in Price |-> NoSide],
              corrupt |-> FALSE]

-----------------------------------------------------------------------------
(* Level: the intrusive list of orders at one price.                       *)

PositionOf(seq, id) == CHOOSE k \in 1 .. Len(seq) : seq[k] = id

(* The list seq without the node of id.                                    *)
Unlink(seq, id) ==
    LET k == PositionOf(seq, id)
    IN  [i \in 1 .. (Len(seq) - 1) |-> IF i < k THEN seq[i] ELSE seq[i + 1]]

(* Mutant: the new order is linked in at the front.                        *)
LevelAppendAtFront(b, s, p, id, qty) ==
    [b EXCEPT !.queue[s][p] = << id >> \o @,
              !.total[s][p] = @ + qty]

LevelAppend(b, s, p, id, qty) ==
    [b EXCEPT !.queue[s][p] = Append(@, id),
              !.total[s][p] = @ + qty]

LevelRemove(b, s, p, id, qty) ==
    [b EXCEPT !.queue[s][p] = Unlink(@, id),
              !.total[s][p] = @ - qty]

-----------------------------------------------------------------------------
(* The ladders and the ownership of the Level objects.                     *)

(* A missing level is created and offered to level_storage_.  When the     *)
(* other side already stores a Level at that price, emplace keeps the old  *)
(* entry and the new Level is freed: the ladder receives a dangling        *)
(* pointer, which the caller's append then dereferences.                   *)
GetOrCreateLevel(b, s, p) ==
    IF p \in b.ladder[s]
    THEN b
    ELSE [b EXCEPT !.ladder[s] = @ \cup {p},
                   !.queue[s][p] = << >>,
                   !.total[s][p] = 0,
                   !.storage[p] = IF @ = NoSide THEN s ELSE @,
                   !.corrupt = @ \/ b.storage[p] # NoSide]

(* Mutant: the storage entry outlives the level.                           *)
DestroyLevelKeepsStorage(b, s, p) == [b EXCEPT !.ladder[s] = @ \ {p}]

(* The entry of the price is erased from the ladder and from               *)
(* level_storage_, whichever side's Level it owns.                         *)
DestroyLevel(b, s, p) ==
    [b EXCEPT !.ladder[s] = @ \ {p},
              !.storage[p] = NoSide]

(* Mutant: an empty level stays in the ladder.                             *)
KeepEmptyLevel(b, s, p) == b

DestroyIfEmpty(b, s, p) ==
    IF b.queue[s][p] = << >> THEN DestroyLevel(b, s, p) ELSE b

-----------------------------------------------------------------------------
(* Queries.                                                                *)

Live(b) == DOMAIN b.index

IsOpen(o) == o.status # "Filled"

(* x is a strictly better price than y for a resting order of side s: the  *)
(* ladder's comparison function.                                           *)
Better(s, x, y) == IF s = "Buy" THEN x > y ELSE x < y

BestPrice(b, s) ==
    IF b.ladder[s] = {}
    THEN NoPrice
    ELSE CHOOSE p \in b.ladder[s] : \A r \in b.ladder[s] \ {p} : Better(s, p, r)

(* The front of the best level, or 0 for the null pointer.                 *)
BestOrder(b, s) ==
    IF b.ladder[s] = {} \/ b.queue[s][BestPrice(b, s)] = << >>
    THEN 0
    ELSE Head(b.queue[s][BestPrice(b, s)])

-----------------------------------------------------------------------------
(* Mutations.                                                              *)

PutOrder(b, id, o) ==
    [b EXCEPT !.index = [i \in DOMAIN @ \cup {id} |-> IF i = id THEN o ELSE @[i]]]

EraseOrder(b, id) ==
    [b EXCEPT !.index = [i \in DOMAIN @ \ {id} |-> @[i]]]

(* Mutant: the id is not looked up in the index.                           *)
InsertOKDuplicate(b, id, o) ==
    /\ id # 0
    /\ o.price \in Price
    /\ o.remaining \in Quantity

(* insert accepts a valid limit order whose id is not live.                *)
InsertOK(b, id, o) ==
    /\ id # 0
    /\ o.price \in Price
    /\ o.remaining \in Quantity
    /\ id \notin Live(b)

InsertOrder(b, id, o) ==
    PutOrder(LevelAppend(GetOrCreateLevel(b, o.side, o.price),
                         o.side, o.price, id, o.remaining),
             id, o)

(* cancel and modify take an order off its level.                          *)
Detach(b, id) ==
    LET o == b.index[id]
    IN  DestroyIfEmpty(LevelRemove(b, o.side, o.price, id, o.remaining),
                       o.side, o.price)

CancelOK(b, id) == id \in Live(b) /\ IsOpen(b.index[id])

CancelOrder(b, id) == EraseOrder(Detach(b, id), id)

ReduceOK(b, id, q) ==
    /\ id \in Live(b)
    /\ IsOpen(b.index[id])
    /\ q > 0
    /\ q < b.index[id].remaining

(* Mutant: the level's total is not corrected.                             *)
ShrinkOrderOnly(b, id, q) == [b EXCEPT !.index[id].remaining = q]

(* reduce, and modify to a smaller quantity at the same price: what        *)
(* remains and the level's total shrink in place.                          *)
ShrinkOrder(b, id, q) ==
    LET o == b.index[id]
    IN  [b EXCEPT !.total[o.side][o.price] = @ - (o.remaining - q),
                  !.index[id].remaining = q]

(* modify to another price or a larger quantity: the order leaves its      *)
(* level and joins the back of the level at the new price.                 *)
ReplaceOrder(b, id, q, p) ==
    LET o == b.index[id]
        n == [o EXCEPT !.price = p, !.remaining = q, !.status = "Open"]
        d == Detach(b, id)
    IN  LevelAppend(GetOrCreateLevel(PutOrder(d, id, n), o.side, p),
                    o.side, p, id, q)

(* Mutant: a larger quantity keeps its place in the queue.                 *)
ModifyKeepsPriority(b, id, q, p) ==
    IF ~ CancelOK(b, id) THEN "NotFound"
    ELSE IF q \notin Quantity \/ p \notin Price THEN "Rejected"
    ELSE IF p = b.index[id].price THEN "Modified"
    ELSE "Replaced"

(* Which of its four outcomes modify has.                                  *)
ModifyResult(b, id, q, p) ==
    IF ~ CancelOK(b, id) THEN "NotFound"
    ELSE IF q \notin Quantity \/ p \notin Price THEN "Rejected"
    ELSE IF p = b.index[id].price /\ q <= b.index[id].remaining THEN "Modified"
    ELSE "Replaced"

ModifyOrder(b, id, q, p) ==
    CASE ModifyResult(b, id, q, p) \in {"NotFound", "Rejected"} -> b
      [] ModifyResult(b, id, q, p) = "Replaced" -> ReplaceOrder(b, id, q, p)
      [] OTHER -> IF q = b.index[id].remaining THEN b ELSE ShrinkOrder(b, id, q)

(* fill(id, qty): the quantity, capped at what the FRONT of the level of   *)
(* id has left, is taken from that front order; if this consumes it, the   *)
(* front is unlinked, the order id is erased from the index and an empty   *)
(* level is destroyed.  The matcher always passes the front's own id.  The *)
(* price of the level to destroy is read from the order just erased: free  *)
(* overwrites at most the first 16 bytes of its block, the id and the      *)
(* trader, so the price that is read is still the order's.                 *)
FillFront(b, id) == Head(b.queue[b.index[id].side][b.index[id].price])

FillQuantity(b, id, qty) ==
    IF qty <= 0 THEN 0
    ELSE IF qty > b.index[FillFront(b, id)].remaining
         THEN b.index[FillFront(b, id)].remaining
         ELSE qty

Consumes(b, id, qty) ==
    /\ qty > 0
    /\ qty >= b.index[FillFront(b, id)].remaining

FillOrder(b, id, qty) ==
    LET s == b.index[id].side
        p == b.index[id].price
        f == FillFront(b, id)
        n == FillQuantity(b, id, qty)
        status == IF Consumes(b, id, qty) THEN "Filled" ELSE b.index[f].status
        filled == [b.index[f] EXCEPT !.remaining = @ - n, !.status = status]
        r == [b EXCEPT !.total[s][p] = @ - n, !.index[f] = filled]
    IN  IF Consumes(b, id, qty)
        THEN DestroyIfEmpty(
                 EraseOrder([r EXCEPT !.queue[s][p] = Tail(@)], id), s, p)
        ELSE r

-----------------------------------------------------------------------------
(* depth(n): the best n levels of a side, best first, each with its total  *)
(* and its number of orders.                                               *)
Rank(b, s, p) == Cardinality({r \in b.ladder[s] : Better(s, r, p)}) + 1

Depth(b, s, n) ==
    LET levels == Cardinality(b.ladder[s])
    IN  [i \in 1 .. (IF n < levels THEN n ELSE levels) |->
            LET p == CHOOSE r \in b.ladder[s] : Rank(b, s, r) = i
            IN  [price |-> p,
                 total |-> b.total[s][p],
                 count |-> Len(b.queue[s][p])]]

-----------------------------------------------------------------------------
(* Consistency of a book.                                                  *)

(* Every queued id is live and of its queue's side and price, and stands   *)
(* there once; every live order stands in the queue of its side and price; *)
(* a ladder holds a price exactly when the queue there is not empty.       *)
QueuedIdsLive(b) ==
    \A s \in Side, p \in Price : \A i \in DOMAIN b.queue[s][p] :
        /\ b.queue[s][p][i] \in Live(b)
        /\ b.index[b.queue[s][p][i]].side = s
        /\ b.index[b.queue[s][p][i]].price = p

QueuedOnce(b) ==
    \A s \in Side, p \in Price : \A i, j \in DOMAIN b.queue[s][p] :
        b.queue[s][p][i] = b.queue[s][p][j] => i = j

LiveIdsQueued(b) ==
    \A id \in Live(b) :
        \E i \in DOMAIN b.queue[b.index[id].side][b.index[id].price] :
            b.queue[b.index[id].side][b.index[id].price][i] = id

LaddersMatchQueues(b) ==
    \A s \in Side, p \in Price : p \in b.ladder[s] <=> b.queue[s][p] # << >>

QueuesMatchIndex(b) ==
    /\ QueuedIdsLive(b)
    /\ QueuedOnce(b)
    /\ LiveIdsQueued(b)
    /\ LaddersMatchQueues(b)

(* Unless a Level was freed while a ladder pointed to it, level_storage_   *)
(* owns the Levels of both ladders, each under its own side.               *)
StorageOwnsLevels(b) ==
    ~ b.corrupt => \A s \in Side, p \in Price :
                       p \in b.ladder[s] <=> b.storage[p] = s
=============================================================================

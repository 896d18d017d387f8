----------------------------- MODULE OrderBook ------------------------------
(***************************************************************************)
(* One OrderBook driven by a caller that may make any sequence of calls of *)
(* its public mutators: insert, cancel (and remove, which is cancel),      *)
(* reduce, modify and fill.  The class is not thread-safe and has a single *)
(* caller at a time, so a call is one step.                                *)
(***************************************************************************)
EXTENDS Book, Functions

VARIABLES
    book,     \* the book
    placed,   \* history: the live ids in order of their last placement
    ret       \* what the last call returned

vars == << book, placed, ret >>

-----------------------------------------------------------------------------
(* The arguments callers pass: valid values and the nearest invalid ones.  *)

AnyId == OrderId \cup {0}
AnyPrice == Price \cup {NoPrice, MaxPrice + 1}
AnyQuantity == 0 .. (MaxQuantity + 1)

NewOrder(s, p, q, t) ==
    [side |-> s, price |-> p, remaining |-> q,
     status |-> "Open", trader |-> t, sequence |-> 0]

Bool(x) == IF x THEN "true" ELSE "false"

-----------------------------------------------------------------------------

Init ==
    /\ book = EmptyBook
    /\ placed = << >>
    /\ ret = "none"

(* insert(order): refused for a zero id, an invalid price or quantity, or  *)
(* a live id.                                                              *)
Insert(id, o) ==
    /\ ~ book.corrupt
    /\ LET ok == InsertOK(book, id, o)
       IN  /\ book' = IF ok THEN InsertOrder(book, id, o) ELSE book
           /\ placed' = IF ok THEN Append(placed, id) ELSE placed
           /\ ret' = Bool(ok)

(* insert(order) of a market order.                                        *)
InsertMarket ==
    /\ ~ book.corrupt
    /\ ret' = "false"
    /\ UNCHANGED << book, placed >>

(* cancel(id) and remove(id).                                              *)
Cancel(id) ==
    /\ ~ book.corrupt
    /\ LET ok == CancelOK(book, id)
       IN  /\ book' = IF ok THEN CancelOrder(book, id) ELSE book
           /\ placed' = IF ok THEN Unlink(placed, id) ELSE placed
           /\ ret' = Bool(ok)

(* reduce(id, q).                                                          *)
Reduce(id, q) ==
    /\ ~ book.corrupt
    /\ LET ok == ReduceOK(book, id, q)
       IN  /\ book' = IF ok THEN ShrinkOrder(book, id, q) ELSE book
           /\ ret' = Bool(ok)
    /\ UNCHANGED placed

(* modify(id, q, p).                                                       *)
Modify(id, q, p) ==
    /\ ~ book.corrupt
    /\ book' = ModifyOrder(book, id, q, p)
    /\ ret' = ModifyResult(book, id, q, p)
    /\ placed' = IF ret' = "Replaced"
                 THEN Append(Unlink(placed, id), id)
                 ELSE placed

(* fill(id, q) returns whether the order is still in the book.  Its only   *)
(* caller, the matcher, names the front of the best level; for an id that  *)
(* stands further back the code would reduce the front and erase id.       *)
FillTarget(id) ==
    /\ id \in Live(book)
    /\ id = FillFront(book, id)

Fill(id, q) ==
    /\ ~ book.corrupt
    /\ FillTarget(id)
    /\ book' = FillOrder(book, id, q)
    /\ placed' = IF Consumes(book, id, q) THEN Unlink(placed, id) ELSE placed
    /\ ret' = Bool(~ Consumes(book, id, q))

(* fill of an id that is not live.                                         *)
FillUnknown(id) ==
    /\ ~ book.corrupt
    /\ id \notin Live(book)
    /\ ret' = "false"
    /\ UNCHANGED << book, placed >>

Next ==
    \/ \E id \in AnyId, s \in Side, p \in AnyPrice, q \in AnyQuantity, t \in TraderId :
           Insert(id, NewOrder(s, p, q, t))
    \/ InsertMarket
    \/ \E id \in AnyId : Cancel(id)
    \/ \E id \in AnyId, q \in AnyQuantity : Reduce(id, q)
    \/ \E id \in AnyId, q \in AnyQuantity, p \in AnyPrice : Modify(id, q, p)
    \/ \E id \in OrderId, q \in AnyQuantity : Fill(id, q)
    \/ \E id \in AnyId : FillUnknown(id)

Spec == Init /\ [][Next]_vars

-----------------------------------------------------------------------------
(* Properties.                                                             *)

(* Every variable has its type; a live order has something left, at most   *)
(* MaxQuantity, and is open, so that the checks for a Filled or Cancelled  *)
(* order in cancel, reduce and modify (order_book.cpp:100, 280, 306) never *)
(* decide anything.                                                        *)
TypeOK ==
    /\ IsBook(book)
    /\ placed \in Seq(OrderId)
    /\ ret \in {"none", "true", "false", "NotFound", "Rejected", "Modified", "Replaced"}
    /\ \A id \in Live(book) : /\ book.index[id].remaining \in Quantity
                              /\ IsOpen(book.index[id])

(* The index, the queues and the ladders of the book agree after any       *)
(* sequence of calls (QueuesMatchIndex in Book).  A node left behind by    *)
(* cancel, modify or fill would be a dangling list pointer; an empty level *)
(* left in a ladder would hide the liquidity behind it from the matcher.   *)
BookConsistent == TypeOK /\ QueuesMatchIndex(book)

(* level_storage_ owns exactly the Levels the ladders point to, each under *)
(* its own side, until a Level is freed while a ladder still points to it. *)
LevelsOwned == StorageOwnsLevels(book)

(* Time priority: two orders of one level stand in the order in which they *)
(* were last placed (inserted, or replaced by modify), whatever was        *)
(* cancelled, reduced or filled in between.                                *)
FifoByPlacement ==
    \A s \in Side, p \in Price : \A i, j \in DOMAIN book.queue[s][p] :
        i < j => \E m, n \in DOMAIN placed :
                     /\ m < n
                     /\ placed[m] = book.queue[s][p][i]
                     /\ placed[n] = book.queue[s][p][j]

(* depth shows what the orders themselves add up to: one row per price at  *)
(* which the side has an order, best price first, with the sum of what     *)
(* these orders have left and their number, although the code never adds   *)
(* them up but corrects a running total in every call; a shorter snapshot  *)
(* is the beginning of a longer one.                                       *)
DepthAggregatesOrders ==
    \A s \in Side :
        LET at(p) == {id \in Live(book) : book.index[id].side = s
                                          /\ book.index[id].price = p}
            all == Depth(book, s, MaxPrice + 1)
        IN  /\ {all[i].price : i \in DOMAIN all} = {p \in Price : at(p) # {}}
            /\ \A i \in DOMAIN all :
                   /\ all[i].count = Cardinality(at(all[i].price))
                   /\ all[i].total =
                          SumFunctionOnSet([id \in Live(book) |-> book.index[id].remaining],
                                           at(all[i].price))
                   /\ \A j \in DOMAIN all :
                          i < j => Better(s, all[i].price, all[j].price)
                   /\ Depth(book, s, i) = SubSeq(all, 1, i)

(* The live orders, by last placement.                                     *)
Resting ==
    [i \in DOMAIN placed |-> [id        |-> placed[i],
                              side      |-> book.index[placed[i]].side,
                              price     |-> book.index[placed[i]].price,
                              remaining |-> book.index[placed[i]].remaining]]

(* The book implements the list of resting orders in order of arrival.     *)
Abstract == INSTANCE PriceTimeBook WITH resting <- Resting

(* Every call of the book is a call of the abstract list with the same     *)
(* result, or changes nothing.                                             *)
ImplementsPriceTimeBook == Abstract!Spec
=============================================================================

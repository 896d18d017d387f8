-------------------------- MODULE OrderBook_proofs --------------------------
(* Proofs about OrderBook.                                                 *)
EXTENDS OrderBook, Book_proofs

(* The inductive invariant.                                                *)
Returns == {"none", "true", "false", "NotFound", "Rejected", "Modified", "Replaced"}

IInv == BookAndHistory(book, placed) /\ ret \in Returns

-----------------------------------------------------------------------------
(* The invariant is inductive.                                             *)

(* The empty book satisfies the invariant.                                 *)
LEMMA InitIInv == Init => IInv
  BY EmptyHistory DEF Init, IInv, Returns

(* One lemma per action: it preserves the invariant.                       *)
LEMMA InsertIInv ==
    ASSUME IInv, NEW id \in AnyId, NEW s \in Side, NEW p \in AnyPrice,
           NEW q \in AnyQuantity, NEW t \in TraderId,
           Insert(id, NewOrder(s, p, q, t))
    PROVE  IInv'
  <1> DEFINE o == NewOrder(s, p, q, t)
  <1>1. ret' \in Returns
    BY DEF Insert, Bool, Returns
  <1>2. CASE InsertOK(book, id, o)
    <2>1. o.side = s /\ o.price = p /\ o.remaining = q /\ o.status = "Open"
      BY DEF NewOrder
    <2>2. id \in OrderId /\ id \notin Live(book) /\ p \in Price /\ q \in Quantity
      BY <1>2, <2>1 DEF InsertOK, AnyId
    <2>3. o \in Order /\ o.remaining \in Quantity /\ IsOpen(o)
      BY <2>2, BookAssumption DEF Order, NewOrder, Quantity, IsOpen
    <2>4. BookAndHistory(book, placed) /\ BookOK(book)
      BY DEF IInv, BookAndHistory
    <2>5. book' = InsertOrder(book, id, o) /\ placed' = Append(placed, id)
      BY <1>2 DEF Insert
    <2> HIDE DEF o
    <2>6. Added(book', book, id, o)
      BY <2>2, <2>3, <2>4, <2>5, InsertShape
    <2>7. BookAndHistory(book', placed')
      BY <2>2, <2>3, <2>4, <2>5, <2>6, AddedHistory
    <2> QED BY <1>1, <2>7 DEF IInv
  <1>3. CASE ~ InsertOK(book, id, o)
    <2>1. book' = book /\ placed' = placed
      BY <1>3 DEF Insert
    <2> QED BY <1>1, <2>1 DEF IInv
  <1> QED BY <1>2, <1>3

(* cancel and remove preserve the invariant.                               *)
LEMMA CancelIInv ==
    ASSUME IInv, NEW id \in AnyId, Cancel(id)
    PROVE  IInv'
  <1>1. ret' \in Returns
    BY DEF Cancel, Bool, Returns
  <1>2. CASE CancelOK(book, id)
    <2>1. id \in Live(book) /\ BookAndHistory(book, placed) /\ BookOK(book)
      BY <1>2 DEF CancelOK, IInv, BookAndHistory
    <2>2. book' = CancelOrder(book, id) /\ placed' = Unlink(placed, id)
      BY <1>2 DEF Cancel
    <2>3. Removed(book', book, id)
      BY <2>1, <2>2, CancelShape
    <2>4. BookAndHistory(book', placed')
      BY <2>1, <2>2, <2>3, RemovedHistory
    <2> QED BY <1>1, <2>4 DEF IInv
  <1>3. CASE ~ CancelOK(book, id)
    <2>1. book' = book /\ placed' = placed
      BY <1>3 DEF Cancel
    <2> QED BY <1>1, <2>1 DEF IInv
  <1> QED BY <1>2, <1>3

(* A smaller remaining quantity is still a positive one.                   *)
LEMMA ShrinkIInv ==
    ASSUME IInv, NEW id \in Live(book), NEW q \in Quantity,
           book' = ShrinkOrder(book, id, q), placed' = placed, ret' \in Returns
    PROVE  IInv'
  <1>1. BookAndHistory(book, placed) /\ BookOK(book)
    BY DEF IInv, BookAndHistory
  <1>2. Resized(book', book, id)
    BY <1>1, ShrinkShape
  <1>3. BookAndHistory(book', placed)
    BY <1>1, <1>2, ResizedHistory
  <1> QED BY <1>3 DEF IInv

(* reduce preserves the invariant.                                         *)
LEMMA ReduceIInv ==
    ASSUME IInv, NEW id \in AnyId, NEW q \in AnyQuantity, Reduce(id, q)
    PROVE  IInv'
  <1>1. ret' \in Returns /\ placed' = placed
    BY DEF Reduce, Bool, Returns
  <1>2. CASE ReduceOK(book, id, q)
    <2>1. id \in Live(book) /\ q > 0 /\ book' = ShrinkOrder(book, id, q)
      BY <1>2 DEF ReduceOK, Reduce
    <2>2. book.index[id].remaining \in Quantity /\ q < book.index[id].remaining
      BY <1>2, <2>1 DEF ReduceOK, IInv, BookAndHistory, BookOK, OrdersOpen
    <2>3. q \in Quantity
      BY <2>1, <2>2, BookAssumption DEF Quantity, AnyQuantity
    <2> QED BY <1>1, <2>1, <2>3, ShrinkIInv
  <1>3. CASE ~ ReduceOK(book, id, q)
    <2>1. book' = book
      BY <1>3 DEF Reduce
    <2> QED BY <1>1, <2>1 DEF IInv
  <1> QED BY <1>2, <1>3

(* modify preserves the invariant in each of its four outcomes; a          *)
(* replacement is a removal followed by an addition.                       *)
LEMMA ModifyIInv ==
    ASSUME IInv, NEW id \in AnyId, NEW q \in AnyQuantity, NEW p \in AnyPrice,
           Modify(id, q, p)
    PROVE  IInv'
  <1> DEFINE res == ModifyResult(book, id, q, p)
  <1>1. ret' = res /\ res \in {"NotFound", "Rejected", "Modified", "Replaced"}
    BY DEF Modify, ModifyResult
  <1>2. ret' \in Returns
    BY <1>1 DEF Returns
  <1>3. CASE res \in {"NotFound", "Rejected"}
    <2>1. book' = book /\ placed' = placed
      BY <1>1, <1>3 DEF Modify, ModifyOrder
    <2> QED BY <1>2, <2>1 DEF IInv
  <1>4. CASE res = "Modified"
    <2>1. placed' = placed
      BY <1>1, <1>4 DEF Modify
    <2>2. id \in Live(book) /\ q \in Quantity
      BY <1>4 DEF ModifyResult, CancelOK
    <2>3. CASE q = book.index[id].remaining
      <3>1. book' = book
        BY <1>4, <2>3 DEF Modify, ModifyOrder
      <3> QED BY <1>2, <2>1, <3>1 DEF IInv
    <2>4. CASE q # book.index[id].remaining
      <3>1. book' = ShrinkOrder(book, id, q)
        BY <1>4, <2>4 DEF Modify, ModifyOrder
      <3> QED BY <1>2, <2>1, <2>2, <3>1, ShrinkIInv
    <2> QED BY <2>3, <2>4
  <1>5. CASE res = "Replaced"
    <2> DEFINE n == [book.index[id] EXCEPT !.price = p, !.remaining = q, !.status = "Open"]
               d == CancelOrder(book, id)
    <2>1. id \in Live(book) /\ q \in Quantity /\ p \in Price
      BY <1>5 DEF ModifyResult, CancelOK
    <2>2. book' = ReplaceOrder(book, id, q, p) /\ placed' = Append(Unlink(placed, id), id)
      BY <1>1, <1>5 DEF Modify, ModifyOrder
    <2>3. BookAndHistory(book, placed) /\ BookOK(book) /\ id \in OrderId
      BY <2>1, LiveOrder DEF IInv, BookAndHistory, BookOK
    <2>4. Removed(d, book, id)
      BY <2>1, <2>3, CancelShape
    <2>5. n \in Order /\ n.remaining \in Quantity /\ IsOpen(n) /\ Added(book', d, id, n)
      BY <2>1, <2>2, <2>3, ReplaceShape
    <2> HIDE DEF n, d
    <2>6. BookAndHistory(d, Unlink(placed, id)) /\ id \notin Live(d)
      BY <2>1, <2>3, <2>4, RemovedHistory DEF Removed
    <2>7. BookAndHistory(book', placed')
      BY <2>2, <2>3, <2>5, <2>6, AddedHistory
    <2> QED BY <1>2, <2>7 DEF IInv
  <1> QED BY <1>1, <1>3, <1>4, <1>5

(* fill of a front order preserves the invariant, consuming it or not.     *)
LEMMA FillIInv ==
    ASSUME IInv, NEW id \in OrderId, NEW q \in AnyQuantity, Fill(id, q)
    PROVE  IInv'
  <1>1. ret' \in Returns
    BY DEF Fill, Bool, Returns
  <1>2. IsFront(book, id) /\ id \in Live(book)
    BY DEF Fill, FillTarget, IsFront
  <1>3. BookAndHistory(book, placed) /\ BookOK(book) /\ q \in Int
    BY BookAssumption DEF IInv, BookAndHistory, AnyQuantity
  <1>4. book' = FillOrder(book, id, q)
    BY DEF Fill
  <1>5. CASE Consumes(book, id, q)
    <2>1. Removed(book', book, id) /\ placed' = Unlink(placed, id)
      BY <1>2, <1>3, <1>4, <1>5, FillShape DEF Fill
    <2>2. BookAndHistory(book', placed')
      BY <1>2, <1>3, <2>1, RemovedHistory
    <2> QED BY <1>1, <2>2 DEF IInv
  <1>6. CASE ~ Consumes(book, id, q)
    <2>1. Resized(book', book, id) /\ placed' = placed
      BY <1>2, <1>3, <1>4, <1>6, FillShape DEF Fill
    <2>2. BookAndHistory(book', placed')
      BY <1>2, <1>3, <2>1, ResizedHistory
    <2> QED BY <1>1, <2>2 DEF IInv
  <1> QED BY <1>5, <1>6

(* Every call of a mutator preserves the invariant.                        *)
LEMMA NextIInv ==
    ASSUME IInv, [Next]_vars
    PROVE  IInv'
  <1>1. CASE UNCHANGED vars
    BY <1>1 DEF vars, IInv
  <1>2. ASSUME NEW id \in AnyId, NEW s \in Side, NEW p \in AnyPrice,
               NEW q \in AnyQuantity, NEW t \in TraderId,
               Insert(id, NewOrder(s, p, q, t))
        PROVE  IInv'
    BY <1>2, InsertIInv
  <1>3. CASE InsertMarket
    BY <1>3 DEF InsertMarket, IInv, Returns
  <1>4. ASSUME NEW id \in AnyId, Cancel(id) PROVE IInv'
    BY <1>4, CancelIInv
  <1>5. ASSUME NEW id \in AnyId, NEW q \in AnyQuantity, Reduce(id, q) PROVE IInv'
    BY <1>5, ReduceIInv
  <1>6. ASSUME NEW id \in AnyId, NEW q \in AnyQuantity, NEW p \in AnyPrice,
               Modify(id, q, p)
        PROVE  IInv'
    BY <1>6, ModifyIInv
  <1>7. ASSUME NEW id \in OrderId, NEW q \in AnyQuantity, Fill(id, q) PROVE IInv'
    BY <1>7, FillIInv
  <1>8. ASSUME NEW id \in AnyId, FillUnknown(id) PROVE IInv'
    BY <1>8 DEF FillUnknown, IInv, Returns
  <1> QED BY <1>1, <1>2, <1>3, <1>4, <1>5, <1>6, <1>7, <1>8 DEF Next

(* What the invariant says of the book and of time priority.               *)
LEMMA IInvImplies ==
    ASSUME IInv
    PROVE  TypeOK /\ BookConsistent /\ LevelsOwned /\ FifoByPlacement
  <1>1. BookOK(book) /\ QueuesFollow(book, placed)
    BY DEF IInv, BookAndHistory
  <1>2. TypeOK
    BY <1>1 DEF TypeOK, IInv, BookAndHistory, BookOK, OrdersOpen, Returns
  <1>3. BookConsistent /\ LevelsOwned
    BY <1>1, <1>2 DEF BookConsistent, LevelsOwned, BookOK
  <1>4. FifoByPlacement
    <2> SUFFICES ASSUME NEW s \in Side, NEW p \in Price,
                        NEW i \in DOMAIN book.queue[s][p],
                        NEW j \in DOMAIN book.queue[s][p], i < j
                 PROVE  Precedes(placed, book.queue[s][p][i], book.queue[s][p][j])
      BY DEF FifoByPlacement, Precedes
    <2>1. book.queue[s][p] \in Seq(OrderId)
      BY <1>1, BookQueue DEF BookOK
    <2>2. book.queue[s][p][i] \in OrderId /\ book.queue[s][p][j] \in OrderId
      BY <2>1
    <2>3. Precedes(book.queue[s][p], book.queue[s][p][i], book.queue[s][p][j])
      BY DEF Precedes
    <2> QED BY <1>1, <2>2, <2>3 DEF QueuesFollow
  <1> QED BY <1>2, <1>3, <1>4

(* The invariant holds after every sequence of calls.                      *)
LEMMA Invariance == Spec => []IInv
  <1>1. Init => IInv
    BY InitIInv
  <1>2. IInv /\ [Next]_vars => IInv'
    BY NextIInv
  <1> QED BY <1>1, <1>2, PTL DEF Spec

(* With fill called for the front order of a level, as the matching loop   *)
(* does, every sequence of calls leaves values of the right type, and no   *)
(* live order is empty or already filled, so that the status checks of     *)
(* cancel, reduce and modify never decide anything.                        *)
THEOREM TypeCorrect == Spec => []TypeOK
  <1>1. IInv => TypeOK
    BY IInvImplies
  <1> QED BY <1>1, Invariance, PTL

(* For any number of orders, prices and quantities: id_index_, the lists   *)
(* of the levels and the ladders of the book agree after every call.       *)
THEOREM Consistent == Spec => []BookConsistent
  <1>1. IInv => BookConsistent
    BY IInvImplies
  <1> QED BY <1>1, Invariance, PTL

(* Until get_or_create_level frees a Level that a ladder points to,        *)
(* level_storage_ owns exactly the Levels of the two ladders.              *)
THEOREM Owned == Spec => []LevelsOwned
  <1>1. IInv => LevelsOwned
    BY IInvImplies
  <1> QED BY <1>1, Invariance, PTL

(* Time priority: whatever is inserted, cancelled, reduced, modified and   *)
(* filled, the orders of a level stand in the order of their last          *)
(* placement.                                                              *)
THEOREM TimePriority == Spec => []FifoByPlacement
  <1>1. IInv => FifoByPlacement
    BY IInvImplies
  <1> QED BY <1>1, Invariance, PTL

-----------------------------------------------------------------------------
(* The book implements PriceTimeBook.                                      *)

EntryOf(b, x) == [id        |-> x,
                  side      |-> b.index[x].side,
                  price     |-> b.index[x].price,
                  remaining |-> b.index[x].remaining]

View(b, pl) == [i \in DOMAIN pl |-> EntryOf(b, pl[i])]

(* The entry e with another price and quantity.                            *)
Repriced(e, p, q) == [e EXCEPT !.price = p, !.remaining = q]

(* The entry of an order that a modify has replaced.                       *)
LEMMA ReplacedEntry ==
    ASSUME NEW b, NEW c, NEW x, NEW p, NEW q, c.index[x].side = b.index[x].side,
           c.index[x].price = p, c.index[x].remaining = q
    PROVE  EntryOf(c, x) = Repriced(EntryOf(b, x), p, q)
  <1> DEFINE e == EntryOf(b, x)
             f == [e EXCEPT !.price = p]
  <1>1. f = [id |-> x, side |-> b.index[x].side, price |-> p,
             remaining |-> b.index[x].remaining]
    BY DEF EntryOf
  <1>2. [e EXCEPT !.price = p, !.remaining = q] = [f EXCEPT !.remaining = q]
    BY Zenon
  <1> HIDE DEF f
  <1>3. [f EXCEPT !.remaining = q] = EntryOf(c, x)
    BY <1>1 DEF EntryOf
  <1> QED BY <1>2, <1>3 DEF Repriced

(* The refinement mapping is this view of the book and its history.        *)
LEMMA RestingIsView == Resting = View(book, placed)
  BY DEF Resting, View, EntryOf

(* The view is a list of the ids of the history, with their fields.        *)
LEMMA ViewShape ==
    ASSUME NEW b, NEW pl \in Seq(OrderId)
    PROVE  /\ Len(View(b, pl)) = Len(pl)
           /\ Len(pl) \in Nat
           /\ DOMAIN View(b, pl) = 1 .. Len(pl)
           /\ \A i \in 1 .. Len(pl) :
                  /\ View(b, pl)[i] = EntryOf(b, pl[i])
                  /\ View(b, pl)[i].id = pl[i]
                  /\ pl[i] \in OrderId
  <1>1. DOMAIN pl = 1 .. Len(pl) /\ Len(pl) \in Nat /\ \A i \in 1 .. Len(pl) : pl[i] \in OrderId
    OBVIOUS
  <1>2. View(b, pl) = [i \in 1 .. Len(pl) |-> EntryOf(b, pl[i])]
    BY <1>1 DEF View
  <1>3. \A x : EntryOf(b, x).id = x
    BY DEF EntryOf
  <1>4. Len(View(b, pl)) = Len(pl)
    BY <1>1, <1>2
  <1> QED BY <1>1, <1>2, <1>3, <1>4

(* The place of a live order in the view.                                  *)
LEMMA ViewPlace ==
    ASSUME NEW b, NEW pl \in Seq(OrderId), Distinct(pl), NEW id, Holds(pl, id)
    PROVE  LET v == View(b, pl)
               k == CHOOSE i \in DOMAIN v : v[i].id = id
           IN  /\ k = PositionOf(pl, id)
               /\ k \in 1 .. Len(pl)
               /\ pl[k] = id
               /\ v[k] = EntryOf(b, id)
               /\ id \in {v[i].id : i \in DOMAIN v}
  <1> DEFINE v == View(b, pl)
             k == CHOOSE i \in DOMAIN v : v[i].id = id
  <1>1. /\ DOMAIN v = 1 .. Len(pl)
        /\ \A i \in 1 .. Len(pl) : v[i] = EntryOf(b, pl[i]) /\ v[i].id = pl[i]
    BY ViewShape
  <1>2. PositionOf(pl, id) \in 1 .. Len(pl) /\ pl[PositionOf(pl, id)] = id
    BY UnlinkShape
  <1> HIDE DEF v
  <1>3. k \in DOMAIN v /\ v[k].id = id
    BY <1>1, <1>2
  <1> HIDE DEF k
  <1>4. k \in 1 .. Len(pl) /\ pl[k] = id
    BY <1>1, <1>3
  <1>5. k = PositionOf(pl, id)
    <2>1. DOMAIN pl = 1 .. Len(pl)
      OBVIOUS
    <2> QED BY <1>2, <1>4, <2>1 DEF Distinct
  <1>6. v[k] = EntryOf(b, id) /\ id \in {v[i].id : i \in DOMAIN v}
    BY <1>1, <1>3, <1>4
  <1> QED BY <1>4, <1>5, <1>6 DEF v, k

(* Removing an order removes its entry and keeps the others in place.      *)
LEMMA RemovedView ==
    ASSUME NEW b, NEW pl \in Seq(OrderId), Distinct(pl), NEW id, Holds(pl, id), NEW c,
           \A x : Holds(pl, x) /\ x # id => EntryOf(c, x) = EntryOf(b, x)
    PROVE  LET v == View(b, pl)
               k == PositionOf(pl, id)
           IN  View(c, Unlink(pl, id)) =
                   [j \in 1 .. (Len(v) - 1) |-> IF j < k THEN v[j] ELSE v[j + 1]]
  <1> DEFINE v == View(b, pl)
             k == PositionOf(pl, id)
             u == Unlink(pl, id)
             w == [j \in 1 .. (Len(v) - 1) |-> IF j < k THEN v[j] ELSE v[j + 1]]
             n == Len(pl)
  <1>1. /\ k \in 1 .. n /\ u \in Seq(OrderId) /\ Len(u) = n - 1
        /\ \A i \in 1 .. (n - 1) : u[i] = IF i < k THEN pl[i] ELSE pl[i + 1]
    BY UnlinkShape
  <1>2. \A x : Holds(u, x) => Holds(pl, x) /\ x # id
    BY UnlinkSet
  <1>3. Len(v) = n /\ n \in Nat /\ \A i \in 1 .. n : v[i] = EntryOf(b, pl[i])
    BY ViewShape
  <1>4. /\ DOMAIN View(c, u) = 1 .. (n - 1)
        /\ \A i \in 1 .. (n - 1) : View(c, u)[i] = EntryOf(c, u[i])
    BY <1>1, ViewShape
  <1>5. w = [j \in 1 .. (n - 1) |-> IF j < k THEN v[j] ELSE v[j + 1]]
    BY <1>3
  <1> HIDE DEF v, k, u, n
  <1>6. ASSUME NEW j \in 1 .. (n - 1)
        PROVE  View(c, u)[j] = w[j]
    <2>1. Holds(u, u[j])
      <3>1. j \in DOMAIN u
        BY <1>1
      <3> QED BY <3>1 DEF Holds
    <2>2. View(c, u)[j] = EntryOf(b, u[j])
      BY <1>2, <1>4, <2>1
    <2>3. w[j] = IF j < k THEN v[j] ELSE v[j + 1]
      BY <1>5
    <2>4. j \in 1 .. n /\ j + 1 \in 1 .. n
      BY <1>3
    <2> QED BY <2>2, <2>3, <2>4, <1>1, <1>3
  <1>7. View(c, u) = w
    <2>1. View(c, u) = [j \in 1 .. (n - 1) |-> View(c, u)[j]]
      BY <1>4 DEF View
    <2>2. w = [j \in 1 .. (n - 1) |-> w[j]]
      BY <1>5
    <2> HIDE DEF w
    <2> QED BY <2>1, <2>2, <1>6
  <1> QED BY <1>7 DEF v, k, u

(* An added order is a new entry at the end.                               *)
LEMMA AddedView ==
    ASSUME NEW b, NEW pl \in Seq(OrderId), NEW id \in OrderId, NEW c,
           \A x : Holds(pl, x) => EntryOf(c, x) = EntryOf(b, x)
    PROVE  View(c, Append(pl, id)) = Append(View(b, pl), EntryOf(c, id))
  <1> DEFINE a == Append(pl, id)
             n == Len(pl)
             v == View(b, pl)
             e == EntryOf(c, id)
  <1>1. n \in Nat /\ DOMAIN pl = 1 .. n
    OBVIOUS
  <1>2. /\ a \in Seq(OrderId) /\ Len(a) = n + 1 /\ a[n + 1] = id
        /\ \A i \in 1 .. n : a[i] = pl[i]
    OBVIOUS
  <1>3. DOMAIN v = 1 .. n /\ Len(v) = n /\ \A i \in 1 .. n : v[i] = EntryOf(b, pl[i])
    BY ViewShape
  <1> HIDE DEF a
  <1>4. /\ DOMAIN View(c, a) = 1 .. (n + 1)
        /\ \A i \in 1 .. (n + 1) : View(c, a)[i] = EntryOf(c, a[i])
    BY <1>2, ViewShape
  <1>5. Append(v, e) = [i \in 1 .. (n + 1) |-> IF i = n + 1 THEN e ELSE v[i]]
    <2>1. v = [i \in 1 .. n |-> EntryOf(b, pl[i])]
      BY <1>1 DEF View
    <2>2. v \in Seq({EntryOf(b, pl[i]) : i \in 1 .. n} \cup {e})
      <3> DEFINE S == {EntryOf(b, pl[i]) : i \in 1 .. n} \cup {e}
      <3>1. \A i \in 1 .. n : EntryOf(b, pl[i]) \in S
        OBVIOUS
      <3> HIDE DEF S
      <3>2. v \in [1 .. n -> S]
        BY <2>1, <3>1
      <3> QED BY <3>2, <1>1 DEF S
    <2> DEFINE S == {EntryOf(b, pl[i]) : i \in 1 .. n} \cup {e}
    <2>3. e \in S
      OBVIOUS
    <2> HIDE DEF v, n, e, S
    <2>4. v \in Seq(S)
      BY <2>2 DEF S
    <2>5. /\ Append(v, e) \in Seq(S) /\ Len(Append(v, e)) = n + 1
          /\ \A i \in 1 .. n : Append(v, e)[i] = v[i]
          /\ Append(v, e)[n + 1] = e
      BY <2>3, <2>4, <1>1, <1>3
    <2>6. Append(v, e) = [i \in 1 .. (n + 1) |-> Append(v, e)[i]]
      <3> DEFINE w == Append(v, e)
      <3>1. w \in Seq(S) /\ Len(w) = n + 1
        BY <2>5
      <3> HIDE DEF w
      <3>2. w = [i \in 1 .. (n + 1) |-> w[i]]
        BY <3>1
      <3> QED BY <3>2 DEF w
    <2>7. \A i \in 1 .. (n + 1) : Append(v, e)[i] = IF i = n + 1 THEN e ELSE v[i]
      BY <2>5, <1>1
    <2> QED BY <2>6, <2>7
  <1> HIDE DEF v, n, e
  <1>6. ASSUME NEW i \in 1 .. (n + 1)
        PROVE  View(c, a)[i] = Append(v, e)[i]
    <2>1. CASE i = n + 1
      BY <2>1, <1>2, <1>4, <1>5 DEF e
    <2>2. CASE i # n + 1
      <3>1. i \in 1 .. n
        BY <2>2, <1>1
      <3>2. Holds(pl, pl[i])
        BY <3>1, <1>1 DEF Holds
      <3> QED BY <3>1, <3>2, <2>2, <1>2, <1>3, <1>4, <1>5
    <2> QED BY <2>1, <2>2
  <1>7. View(c, a) = [i \in 1 .. (n + 1) |-> View(c, a)[i]]
    BY <1>4 DEF View
  <1>8. Append(v, e) = [i \in 1 .. (n + 1) |-> Append(v, e)[i]]
    BY <1>5
  <1> QED BY <1>6, <1>7, <1>8 DEF a, v, e

(* An order that changes what it has left keeps its place.                 *)
LEMMA ResizedView ==
    ASSUME NEW b, NEW pl \in Seq(OrderId), Distinct(pl), NEW id, Holds(pl, id), NEW c,
           \A x : Holds(pl, x) /\ x # id => EntryOf(c, x) = EntryOf(b, x),
           c.index[id].side = b.index[id].side, c.index[id].price = b.index[id].price
    PROVE  LET v == View(b, pl)
               k == PositionOf(pl, id)
           IN  View(c, pl) = [v EXCEPT ![k].remaining = c.index[id].remaining]
  <1> DEFINE v == View(b, pl)
             k == PositionOf(pl, id)
             n == Len(pl)
             e == [EntryOf(b, id) EXCEPT !.remaining = c.index[id].remaining]
  <1>1. k \in 1 .. n /\ pl[k] = id
    BY UnlinkShape
  <1>2. /\ v = [i \in 1 .. n |-> v[i]] /\ \A i \in 1 .. n : v[i] = EntryOf(b, pl[i])
    BY ViewShape DEF View
  <1>3. /\ View(c, pl) = [i \in 1 .. n |-> View(c, pl)[i]]
        /\ \A i \in 1 .. n : View(c, pl)[i] = EntryOf(c, pl[i])
    BY ViewShape DEF View
  <1>4. EntryOf(c, id) = e
    BY DEF EntryOf
  <1>5. [v EXCEPT ![k].remaining = c.index[id].remaining] = [v EXCEPT ![k] = e]
    BY <1>1, <1>2
  <1> HIDE DEF v, k, e
  <1>6. ASSUME NEW i \in 1 .. n
        PROVE  View(c, pl)[i] = [v EXCEPT ![k] = e][i]
    <2>1. CASE i = k
      BY <2>1, <1>1, <1>2, <1>3, <1>4
    <2>2. CASE i # k
      <3>1. DOMAIN pl = 1 .. n
        OBVIOUS
      <3>2. Holds(pl, pl[i]) /\ pl[i] # id
        BY <2>2, <3>1, <1>1 DEF Holds, Distinct
      <3> QED BY <2>2, <3>2, <1>2, <1>3
    <2> QED BY <2>1, <2>2
  <1>7. [v EXCEPT ![k] = e] = [i \in 1 .. n |-> [v EXCEPT ![k] = e][i]]
    BY <1>2
  <1>8. View(c, pl) = [v EXCEPT ![k] = e]
    BY <1>3, <1>6, <1>7
  <1> QED BY <1>5, <1>8 DEF v, k

(* The history lists exactly the live orders.                              *)
LEMMA Listed ==
    ASSUME NEW b, NEW pl, BookAndHistory(b, pl)
    PROVE  /\ pl \in Seq(OrderId)
           /\ Distinct(pl)
           /\ \A x : Holds(pl, x) <=> x \in Live(b)
  <1>1. pl \in Seq(OrderId) /\ Distinct(pl) /\ \A x \in OrderId : Holds(pl, x) <=> x \in Live(b)
    BY DEF BookAndHistory
  <1>2. \A x : Holds(pl, x) => x \in OrderId
    BY <1>1 DEF Holds
  <1>3. \A x \in Live(b) : x \in OrderId
    BY LiveOrder DEF BookAndHistory, BookOK
  <1> QED BY <1>1, <1>2, <1>3

(* The abstract list has an entry for each live order, and no other.       *)
LEMMA AbstractPlace ==
    ASSUME IInv, NEW id \in Live(book)
    PROVE  /\ id \in Abstract!Ids
           /\ Abstract!Place(id) = PositionOf(placed, id)
           /\ Abstract!Place(id) \in 1 .. Len(placed)
           /\ placed[Abstract!Place(id)] = id
           /\ Resting[Abstract!Place(id)] = EntryOf(book, id)
  <1>1. placed \in Seq(OrderId) /\ Distinct(placed) /\ Holds(placed, id)
    BY Listed DEF IInv
  <1> DEFINE v == View(book, placed)
             k == CHOOSE i \in DOMAIN v : v[i].id = id
  <1>2. /\ k = PositionOf(placed, id) /\ k \in 1 .. Len(placed) /\ placed[k] = id
        /\ v[k] = EntryOf(book, id) /\ id \in {v[i].id : i \in DOMAIN v}
    BY <1>1, ViewPlace
  <1>3. v = Resting
    BY RestingIsView
  <1> HIDE DEF v
  <1>4. k = Abstract!Place(id) /\ Abstract!Ids = {v[i].id : i \in DOMAIN v}
    BY <1>3 DEF Abstract!Place, Abstract!Ids
  <1> HIDE DEF k
  <1> QED BY <1>2, <1>3, <1>4

LEMMA AbstractIds ==
    ASSUME IInv, NEW id \in Abstract!Ids
    PROVE  id \in Live(book)
  <1>1. placed \in Seq(OrderId) /\ \A x : Holds(placed, x) <=> x \in Live(book)
    BY Listed DEF IInv
  <1>2. /\ DOMAIN Resting = 1 .. Len(placed)
        /\ \A i \in 1 .. Len(placed) : Resting[i].id = placed[i]
    BY <1>1, ViewShape, RestingIsView
  <1>3. PICK i \in 1 .. Len(placed) : placed[i] = id
    BY <1>2 DEF Abstract!Ids
  <1>4. Holds(placed, id)
    <2>1. i \in DOMAIN placed
      BY <1>1, <1>3
    <2> QED BY <2>1, <1>3 DEF Holds
  <1> QED BY <1>1, <1>4

LEMMA RestingPrime == Resting' = View(book', placed')
  BY DEF Resting, View, EntryOf

(* A removed order is an entry taken out of the list.                      *)
LEMMA RemovedStep ==
    ASSUME IInv, NEW id \in Live(book), NEW c, Removed(c, book, id)
    PROVE  View(c, Unlink(placed, id)) = Abstract!Without(Abstract!Place(id))
  <1>1. /\ placed \in Seq(OrderId) /\ Distinct(placed) /\ Holds(placed, id)
        /\ \A x : Holds(placed, x) <=> x \in Live(book)
    BY Listed DEF IInv
  <1>2. \A x : Holds(placed, x) /\ x # id => EntryOf(c, x) = EntryOf(book, x)
    BY <1>1 DEF Removed, EntryOf
  <1> DEFINE v == View(book, placed)
             k == PositionOf(placed, id)
  <1>3. View(c, Unlink(placed, id)) =
            [j \in 1 .. (Len(v) - 1) |-> IF j < k THEN v[j] ELSE v[j + 1]]
    BY <1>1, <1>2, RemovedView
  <1>4. v = Resting /\ k = Abstract!Place(id)
    BY RestingIsView, AbstractPlace
  <1> HIDE DEF v, k
  <1> QED BY <1>3, <1>4 DEF Abstract!Without

(* A resized order is an entry changed in place.                           *)
LEMMA ResizedStep ==
    ASSUME IInv, NEW id \in Live(book), Resized(book', book, id), placed' = placed
    PROVE  Resting' = [Resting EXCEPT ![Abstract!Place(id)].remaining
                                          = book'.index[id].remaining]
  <1>1. /\ placed \in Seq(OrderId) /\ Distinct(placed) /\ Holds(placed, id)
        /\ \A x : Holds(placed, x) <=> x \in Live(book)
    BY Listed DEF IInv
  <1>2. \A x : Holds(placed, x) /\ x # id => EntryOf(book', x) = EntryOf(book, x)
    BY <1>1 DEF Resized, EntryOf
  <1>3. View(book', placed) =
            [View(book, placed) EXCEPT ![PositionOf(placed, id)].remaining
                                           = book'.index[id].remaining]
    BY <1>1, <1>2, ResizedView DEF Resized
  <1>4. View(book, placed) = Resting /\ PositionOf(placed, id) = Abstract!Place(id)
    BY RestingIsView, AbstractPlace
  <1>5. Resting' = View(book', placed)
    BY RestingPrime
  <1> QED BY <1>3, <1>4, <1>5, Zenon

(* Nothing changes in the list when the book and the history stay.         *)
LEMMA RefusedStep ==
    ASSUME book' = book, placed' = placed,
           ret' \in {"false", "NotFound", "Rejected", "Modified", "true"}
    PROVE  Abstract!Next
  <1>1. Resting' = Resting
    BY DEF Resting
  <1> QED BY <1>1 DEF Abstract!Next, Abstract!Refuse

(* insert appends an entry, or is refused.                                 *)
LEMMA InsertStep ==
    ASSUME IInv, NEW id \in AnyId, NEW s \in Side, NEW p \in AnyPrice,
           NEW q \in AnyQuantity, NEW t \in TraderId,
           Insert(id, NewOrder(s, p, q, t))
    PROVE  Abstract!Next
  <1> DEFINE o == NewOrder(s, p, q, t)
  <1>1. CASE ~ InsertOK(book, id, o)
    BY <1>1, RefusedStep DEF Insert, Bool
  <1>2. CASE InsertOK(book, id, o)
    <2>1. /\ o.side = s /\ o.price = p /\ o.remaining = q
          /\ id \in OrderId /\ id \notin Live(book) /\ p \in Price /\ q \in Quantity
      BY <1>2 DEF InsertOK, AnyId, NewOrder
    <2>2. o \in Order
      BY <2>1, BookAssumption DEF Order, NewOrder, Quantity
    <2>3. /\ book' = InsertOrder(book, id, o) /\ placed' = Append(placed, id)
          /\ ret' = "true"
      BY <1>2 DEF Insert, Bool
    <2> HIDE DEF o
    <2>4. Added(book', book, id, o)
      BY <2>1, <2>2, <2>3, InsertShape DEF IInv, BookAndHistory
    <2>5. /\ placed \in Seq(OrderId)
          /\ \A x : Holds(placed, x) <=> x \in Live(book)
      BY Listed DEF IInv
    <2>6. \A x : Holds(placed, x) => EntryOf(book', x) = EntryOf(book, x)
      BY <2>1, <2>4, <2>5 DEF Added, EntryOf
    <2>7. Resting' = Append(Resting, EntryOf(book', id))
      BY <2>1, <2>3, <2>5, <2>6, AddedView, RestingIsView, RestingPrime
    <2>8. EntryOf(book', id) = [id |-> id, side |-> s, price |-> p, remaining |-> q]
      BY <2>1, <2>4 DEF Added, EntryOf
    <2> DEFINE e == [id |-> id, side |-> s, price |-> p, remaining |-> q]
    <2>9. e \in Abstract!Entry /\ e.id = id
      BY <2>1 DEF Abstract!Entry, Side, Price, Quantity
    <2>10. id \notin Abstract!Ids
      BY <2>1, AbstractIds
    <2> HIDE DEF e
    <2>11. Abstract!Insert(e)
      BY <2>3, <2>7, <2>8, <2>9, <2>10 DEF Abstract!Insert, e
    <2> QED BY <2>9, <2>11 DEF Abstract!Next
  <1> QED BY <1>1, <1>2

(* cancel takes the entry out, or is refused.                              *)
LEMMA CancelStep ==
    ASSUME IInv, NEW id \in AnyId, Cancel(id)
    PROVE  Abstract!Next
  <1>1. CASE ~ CancelOK(book, id)
    BY <1>1, RefusedStep DEF Cancel, Bool
  <1>2. CASE CancelOK(book, id)
    <2>1. id \in Live(book) /\ BookOK(book)
      BY <1>2 DEF CancelOK, IInv, BookAndHistory
    <2>2. book' = CancelOrder(book, id) /\ placed' = Unlink(placed, id) /\ ret' = "true"
      BY <1>2 DEF Cancel, Bool
    <2>3. Removed(book', book, id)
      BY <2>1, <2>2, CancelShape
    <2>4. Resting' = Abstract!Without(Abstract!Place(id))
      BY <2>1, <2>2, <2>3, RemovedStep, RestingPrime
    <2>5. Abstract!Cancel(id)
      BY <2>1, <2>2, <2>4, AbstractPlace DEF Abstract!Cancel
    <2>6. id \in OrderId
      BY <2>1, LiveOrder DEF BookOK
    <2> QED BY <2>5, <2>6 DEF Abstract!Next
  <1> QED BY <1>1, <1>2

(* A smaller quantity at the same price is a Shrink.                       *)
LEMMA ShrinkStep ==
    ASSUME IInv, NEW id \in Live(book), NEW q \in Quantity, q < book.index[id].remaining,
           book' = ShrinkOrder(book, id, q), placed' = placed, ret' \in {"true", "Modified"}
    PROVE  Abstract!Next
  <1>1. Resized(book', book, id) /\ book'.index[id].remaining = q
    BY ShrinkShape DEF IInv, BookAndHistory
  <1>2. Resting' = [Resting EXCEPT ![Abstract!Place(id)].remaining = q]
    BY <1>1, ResizedStep
  <1>3. q < Resting[Abstract!Place(id)].remaining
    <2>1. EntryOf(book, id).remaining = book.index[id].remaining
      BY DEF EntryOf
    <2> QED BY <2>1, AbstractPlace
  <1>4. Abstract!Shrink(id, q, ret')
    BY <1>2, <1>3, AbstractPlace DEF Abstract!Shrink
  <1>5. id \in OrderId /\ q \in 1 .. MaxQuantity
    BY LiveOrder DEF IInv, BookAndHistory, BookOK, Quantity
  <1> QED BY <1>4, <1>5 DEF Abstract!Next

LEMMA ReduceStep ==
    ASSUME IInv, NEW id \in AnyId, NEW q \in AnyQuantity, Reduce(id, q)
    PROVE  Abstract!Next
  <1>1. CASE ~ ReduceOK(book, id, q)
    BY <1>1, RefusedStep DEF Reduce, Bool
  <1>2. CASE ReduceOK(book, id, q)
    <2>1. /\ id \in Live(book) /\ q > 0 /\ book' = ShrinkOrder(book, id, q)
          /\ ret' = "true" /\ placed' = placed /\ q < book.index[id].remaining
      BY <1>2 DEF ReduceOK, Reduce, Bool
    <2>2. book.index[id].remaining \in Quantity
      BY <2>1 DEF IInv, BookAndHistory, BookOK, OrdersOpen
    <2>3. q \in Quantity
      BY <2>1, <2>2, BookAssumption DEF Quantity, AnyQuantity
    <2> QED BY <2>1, <2>3, ShrinkStep
  <1> QED BY <1>1, <1>2

(* modify: refused, a Shrink, or a Replace.                                *)
LEMMA ModifyStep ==
    ASSUME IInv, NEW id \in AnyId, NEW q \in AnyQuantity, NEW p \in AnyPrice,
           Modify(id, q, p)
    PROVE  Abstract!Next
  <1> DEFINE res == ModifyResult(book, id, q, p)
  <1>1. ret' = res /\ res \in {"NotFound", "Rejected", "Modified", "Replaced"}
    BY DEF Modify, ModifyResult
  <1>2. CASE res \in {"NotFound", "Rejected"}
    <2>1. book' = book /\ placed' = placed
      BY <1>1, <1>2 DEF Modify, ModifyOrder
    <2> QED BY <1>1, <1>2, <2>1, RefusedStep
  <1>3. CASE res = "Modified"
    <2>1. placed' = placed
      BY <1>1, <1>3 DEF Modify
    <2>2. id \in Live(book) /\ q \in Quantity /\ q <= book.index[id].remaining
      BY <1>3 DEF ModifyResult, CancelOK
    <2>3. CASE q = book.index[id].remaining
      <3>1. book' = book
        BY <1>3, <2>3 DEF Modify, ModifyOrder
      <3> QED BY <1>1, <1>3, <2>1, <3>1, RefusedStep
    <2>4. CASE q # book.index[id].remaining
      <3>1. book' = ShrinkOrder(book, id, q)
        BY <1>3, <2>4 DEF Modify, ModifyOrder
      <3>2. book.index[id].remaining \in Quantity
        BY <2>2 DEF IInv, BookAndHistory, BookOK, OrdersOpen
      <3>3. q < book.index[id].remaining
        BY <2>2, <2>4, <3>2, BookAssumption DEF Quantity
      <3> QED BY <1>1, <1>3, <2>1, <2>2, <3>1, <3>3, ShrinkStep
    <2> QED BY <2>3, <2>4
  <1>4. CASE res = "Replaced"
    <2> DEFINE n == [book.index[id] EXCEPT !.price = p, !.remaining = q, !.status = "Open"]
               d == CancelOrder(book, id)
               u == Unlink(placed, id)
               e == EntryOf(book, id)
    <2>1. id \in Live(book) /\ q \in Quantity /\ p \in Price
      BY <1>4 DEF ModifyResult, CancelOK
    <2>2. p # book.index[id].price \/ ~ (q <= book.index[id].remaining)
      BY <1>4, <2>1 DEF ModifyResult
    <2>3. /\ book' = ReplaceOrder(book, id, q, p) /\ placed' = Append(u, id)
          /\ ret' = "Replaced"
      BY <1>1, <1>4 DEF Modify, ModifyOrder
    <2>4. /\ BookAndHistory(book, placed) /\ BookOK(book) /\ id \in OrderId
          /\ book.index[id] \in Order /\ book.index[id].remaining \in Quantity
      BY <2>1, LiveOrder DEF IInv, BookAndHistory, BookOK, OrdersOpen
    <2>5. Removed(d, book, id)
      BY <2>1, <2>4, CancelShape
    <2>6. Added(book', d, id, n)
      BY <2>1, <2>3, <2>4, ReplaceShape
    <2>7. n.side = book.index[id].side /\ n.price = p /\ n.remaining = q
      BY <2>4 DEF Order
    <2> HIDE DEF n, d
    <2>8. BookAndHistory(d, u)
      BY <2>1, <2>4, <2>5, RemovedHistory
    <2>9. u \in Seq(OrderId) /\ \A x : Holds(u, x) <=> x \in Live(d)
      BY <2>8, Listed
    <2>10. View(d, u) = Abstract!Without(Abstract!Place(id))
      BY <2>1, <2>5, RemovedStep
    <2> HIDE DEF u
    <2>11. \A x : Holds(u, x) => EntryOf(book', x) = EntryOf(d, x)
      BY <2>5, <2>6, <2>9 DEF Added, Removed, EntryOf
    <2>12. View(book', Append(u, id)) = Append(View(d, u), EntryOf(book', id))
      BY <2>4, <2>9, <2>11, AddedView
    <2>13. EntryOf(book', id) = Repriced(e, p, q)
      <3>1. /\ book'.index[id].side = book.index[id].side
            /\ book'.index[id].price = p /\ book'.index[id].remaining = q
        BY <2>6, <2>7 DEF Added
      <3> QED BY <3>1, ReplacedEntry
    <2>14. e = Resting[Abstract!Place(id)] /\ id \in Abstract!Ids
      BY <2>1, AbstractPlace
    <2>15. p # e.price \/ q > e.remaining
      BY <2>1, <2>2, <2>4, BookAssumption DEF EntryOf, Quantity
    <2> HIDE DEF e
    <2>16. Resting' = Append(Abstract!Without(Abstract!Place(id)), Repriced(e, p, q))
      BY <2>3, <2>10, <2>12, <2>13, RestingPrime
    <2>17. Abstract!Replace(id, q, p)
      BY <2>3, <2>14, <2>15, <2>16 DEF Abstract!Replace, Repriced
    <2>18. q \in 1 .. MaxQuantity /\ p \in 0 .. MaxPrice
      BY <2>1 DEF Quantity, Price
    <2> QED BY <2>4, <2>17, <2>18 DEF Abstract!Next
  <1> QED BY <1>1, <1>2, <1>3, <1>4

(* The front of a level arrived before the rest of it.                     *)
LEMMA FrontArrivedFirst ==
    ASSUME IInv, NEW id, IsFront(book, id)
    PROVE  Abstract!IsFront(Abstract!Place(id))
  <1> DEFINE k == Abstract!Place(id)
             s == book.index[id].side
             p == book.index[id].price
             seq == book.queue[s][p]
  <1>1. id \in Live(book) /\ id = Head(seq)
    BY DEF IsFront, FillFront
  <1>2. /\ BookOK(book) /\ IsBook(book) /\ QueuesByContent(book)
        /\ QueuesFollow(book, placed)
    BY ByContent DEF IInv, BookAndHistory, BookOK
  <1>3. /\ placed \in Seq(OrderId) /\ Distinct(placed)
        /\ \A x : Holds(placed, x) <=> x \in Live(book)
    BY Listed DEF IInv
  <1>4. k \in 1 .. Len(placed) /\ placed[k] = id
    BY <1>1, AbstractPlace
  <1>5. s \in Side /\ p \in Price /\ id \in OrderId
    BY <1>1, <1>2, LiveOrder
  <1>6. /\ Len(placed) \in Nat /\ DOMAIN placed = 1 .. Len(placed)
        /\ \A i \in 1 .. Len(placed) : Resting[i] = EntryOf(book, placed[i])
    BY <1>3, ViewShape, RestingIsView
  <1> HIDE DEF k
  <1> SUFFICES ASSUME NEW j \in 1 .. (k - 1),
                      Resting[j].side = Resting[k].side, Resting[j].price = Resting[k].price
               PROVE  FALSE
    BY DEF Abstract!IsFront, k
  <1> DEFINE x == placed[j]
  <1>7. j \in 1 .. Len(placed) /\ j < k
    BY <1>4, <1>6
  <1>8. x \in Live(book) /\ book.index[x].side = s /\ book.index[x].price = p
    <2>1. Holds(placed, x)
      BY <1>6, <1>7 DEF Holds
    <2>2. /\ \A y : EntryOf(book, y).side = book.index[y].side
          /\ \A y : EntryOf(book, y).price = book.index[y].price
      BY DEF EntryOf
    <2> QED BY <2>1, <2>2, <1>3, <1>4, <1>6, <1>7
  <1>9. x # id
    BY <1>3, <1>4, <1>6, <1>7 DEF Distinct
  <1>10. seq \in Seq(OrderId) /\ Holds(seq, x)
    BY <1>2, <1>5, <1>8, BookQueue DEF QueuesByContent
  <1> HIDE DEF seq
  <1>11. Precedes(seq, id, x)
    <2>1. PICK m \in DOMAIN seq : seq[m] = x
      BY <1>10 DEF Holds
    <2>2. m \in Nat /\ 1 \in DOMAIN seq /\ seq[1] = id /\ m >= 1
      BY <2>1, <1>1, <1>10
    <2>3. 1 < m
      BY <2>1, <2>2, <1>9
    <2> QED BY <2>1, <2>2, <2>3 DEF Precedes
  <1>12. x \in OrderId
    BY <1>2, <1>8, LiveOrder
  <1>13. Precedes(placed, id, x)
    BY <1>2, <1>5, <1>11, <1>12 DEF QueuesFollow, seq
  <1>14. PICK a, b \in DOMAIN placed : a < b /\ placed[a] = id /\ placed[b] = x
    BY <1>13 DEF Precedes
  <1>15. a = k /\ b = j
    BY <1>3, <1>4, <1>6, <1>7, <1>14 DEF Distinct
  <1> QED BY <1>7, <1>14, <1>15, <1>4, <1>6

(* fill takes from the earliest arrival of its level.                      *)
LEMMA FillStep ==
    ASSUME IInv, NEW id \in OrderId, NEW q \in AnyQuantity, Fill(id, q)
    PROVE  Abstract!Next
  <1> DEFINE o == book.index[id]
             k == Abstract!Place(id)
  <1>1. IsFront(book, id) /\ id \in Live(book) /\ FillFront(book, id) = id
    BY DEF Fill, FillTarget, IsFront
  <1>2. BookOK(book) /\ q \in Int /\ q >= 0 /\ q <= MaxQuantity + 1 /\ MaxQuantity \in Nat
    BY BookAssumption DEF IInv, BookAndHistory, AnyQuantity
  <1>3. book' = FillOrder(book, id, q)
    BY DEF Fill
  <1>4. o.remaining \in Quantity /\ o.remaining \in Int /\ o.remaining >= 1
    BY <1>1, <1>2 DEF BookOK, OrdersOpen, Quantity
  <1>5. /\ Consumes(book, id, q) <=> q > 0 /\ q >= o.remaining
        /\ FillQuantity(book, id, q) = IF q <= 0 THEN 0
                                       ELSE IF q > o.remaining THEN o.remaining ELSE q
    BY <1>1 DEF Consumes, FillQuantity
  <1>6. Resting[k] = EntryOf(book, id) /\ Resting[k].remaining = o.remaining /\ id \in Abstract!Ids
    <2>1. EntryOf(book, id).remaining = o.remaining
      BY DEF EntryOf
    <2> QED BY <2>1, <1>1, AbstractPlace
  <1>7. Abstract!IsFront(k)
    BY <1>1, FrontArrivedFirst
  <1>8. CASE Consumes(book, id, q)
    <2>1. Removed(book', book, id) /\ placed' = Unlink(placed, id) /\ ret' = "false"
      BY <1>1, <1>2, <1>3, <1>8, FillShape DEF Fill, Bool
    <2>2. Resting' = Abstract!Without(k)
      BY <1>1, <2>1, RemovedStep, RestingPrime
    <2>3. ~ (q < o.remaining) /\ q \in 1 .. (MaxQuantity + 1)
      BY <1>2, <1>4, <1>5, <1>8
    <2>4. Abstract!Fill(id, q)
      BY <2>1, <2>2, <2>3, <1>6, <1>7 DEF Abstract!Fill
    <2> QED BY <2>3, <2>4 DEF Abstract!Next
  <1>9. CASE ~ Consumes(book, id, q)
    <2>1. /\ Resized(book', book, id) /\ placed' = placed /\ ret' = "true"
          /\ book'.index[id].remaining = o.remaining - q
      <3>1. FillQuantity(book, id, q) = q
        BY <1>2, <1>4, <1>5, <1>9
      <3> QED BY <3>1, <1>1, <1>2, <1>3, <1>9, FillShape DEF Fill, Bool
    <2>2. Resting' = [Resting EXCEPT ![k].remaining = o.remaining - q]
      BY <1>1, <2>1, ResizedStep
    <2>3. CASE q = 0
      <3>1. o.remaining - q = Resting[k].remaining
        BY <2>3, <1>4, <1>6
      <3>2. Resting' = Resting
        <4>1. /\ placed \in Seq(OrderId)
          BY DEF IInv, BookAndHistory
        <4>2. Resting = [i \in 1 .. Len(placed) |-> EntryOf(book, placed[i])]
          BY <4>1, RestingIsView DEF View
        <4>3. [EntryOf(book, id) EXCEPT !.remaining = o.remaining] = EntryOf(book, id)
          BY DEF EntryOf
        <4>4. [Resting EXCEPT ![k].remaining = o.remaining]
                = [Resting EXCEPT ![k] = [Resting[k] EXCEPT !.remaining = o.remaining]]
          OBVIOUS
        <4>5. [Resting EXCEPT ![k] = Resting[k]] = Resting
          BY <4>2
        <4>6. o.remaining - q = o.remaining
          BY <2>3, <1>4
        <4> QED BY <2>2, <4>3, <4>4, <4>5, <4>6, <1>6
      <3> QED BY <3>2, <2>1 DEF Abstract!Next, Abstract!Refuse
    <2>4. CASE q # 0
      <3>1. q < o.remaining /\ q \in 1 .. (MaxQuantity + 1)
        BY <2>4, <1>2, <1>4, <1>5, <1>9
      <3>2. Resting' = [Resting EXCEPT ![k].remaining = @ - q]
        BY <2>2, <1>6
      <3>3. Abstract!Fill(id, q)
        BY <3>1, <3>2, <2>1, <1>6, <1>7 DEF Abstract!Fill
      <3> QED BY <3>1, <3>3 DEF Abstract!Next
    <2> QED BY <2>3, <2>4
  <1> QED BY <1>8, <1>9

(* Every call of the book is a call of the list of resting orders in order *)
(* of arrival, with the same result, or changes nothing: ladders, levels,  *)
(* totals and index hide nothing and add nothing.                          *)
THEOREM Refinement == Spec => ImplementsPriceTimeBook
  <1>1. Init => Abstract!Init
    BY DEF Init, Abstract!Init, Resting
  <1>2. IInv /\ [Next]_vars => [Abstract!Next]_(Abstract!vars)
    <2> SUFFICES ASSUME IInv, [Next]_vars
                 PROVE  Abstract!Next \/ UNCHANGED Abstract!vars
      OBVIOUS
    <2>1. CASE UNCHANGED vars
      BY <2>1 DEF vars, Abstract!vars, Resting
    <2>2. CASE Next
      <3>1. ASSUME NEW id \in AnyId, NEW s \in Side, NEW p \in AnyPrice,
                   NEW q \in AnyQuantity, NEW t \in TraderId,
                   Insert(id, NewOrder(s, p, q, t))
            PROVE  Abstract!Next
        BY <3>1, InsertStep
      <3>2. CASE InsertMarket
        BY <3>2, RefusedStep DEF InsertMarket
      <3>3. ASSUME NEW id \in AnyId, Cancel(id) PROVE Abstract!Next
        BY <3>3, CancelStep
      <3>4. ASSUME NEW id \in AnyId, NEW q \in AnyQuantity, Reduce(id, q)
            PROVE  Abstract!Next
        BY <3>4, ReduceStep
      <3>5. ASSUME NEW id \in AnyId, NEW q \in AnyQuantity, NEW p \in AnyPrice,
                   Modify(id, q, p)
            PROVE  Abstract!Next
        BY <3>5, ModifyStep
      <3>6. ASSUME NEW id \in OrderId, NEW q \in AnyQuantity, Fill(id, q)
            PROVE  Abstract!Next
        BY <3>6, FillStep
      <3>7. ASSUME NEW id \in AnyId, FillUnknown(id) PROVE Abstract!Next
        BY <3>7, RefusedStep DEF FillUnknown
      <3> QED BY <2>2, <3>1, <3>2, <3>3, <3>4, <3>5, <3>6, <3>7 DEF Next
    <2> QED BY <2>1, <2>2
  <1> QED BY <1>1, <1>2, Invariance, PTL DEF Spec, ImplementsPriceTimeBook, Abstract!Spec

-----------------------------------------------------------------------------
(* The running totals of the levels.                                       *)

(* What the orders of b have left, and the orders of one of its levels.    *)
Left(b) == [id \in Live(b) |-> b.index[id].remaining]

AtLevel(b, s, p) == {id \in Live(b) : At(b, id, s, p)}

LevelSum(b, s, p) == SumFunctionOnSet(Left(b), AtLevel(b, s, p))

(* The total of every level is the sum of what its orders have left.       *)
TotalsOK(b) ==
    \A s \in Side, p \in Price : p \in b.ladder[s] => b.total[s][p] = LevelSum(b, s, p)

(* The live orders are those of a list, so they are finitely many, and so  *)
(* are the orders of a level.                                              *)
LEMMA LiveFinite ==
    ASSUME NEW b, NEW pl, BookAndHistory(b, pl)
    PROVE  IsFiniteSet(Live(b))
  <1>1. pl \in Seq(OrderId) /\ \A x \in OrderId : Holds(pl, x) <=> x \in Live(b)
    BY DEF BookAndHistory
  <1>2. Live(b) \subseteq OrderId
    BY LiveOrder DEF BookAndHistory, BookOK
  <1>3. Len(pl) \in Nat /\ DOMAIN pl = 1 .. Len(pl) /\ \A i \in 1 .. Len(pl) : pl[i] \in OrderId
    BY <1>1
  <1>4. pl \in [1 .. Len(pl) -> Live(b)]
    BY <1>1, <1>3 DEF Holds
  <1>5. pl \in Surjection(1 .. Len(pl), Live(b))
    BY <1>1, <1>2, <1>3, <1>4 DEF Surjection, Holds
  <1>6. IsFiniteSet(1 .. Len(pl))
    BY <1>3, FS_Interval
  <1> QED BY <1>5, <1>6, FS_Surjection

(* A level's orders are finitely many, and what they have left are         *)
(* integers.                                                               *)
LEMMA LevelFacts ==
    ASSUME NEW b, IsBook(b), IsFiniteSet(Live(b)), NEW s, NEW p
    PROVE  /\ IsFiniteSet(AtLevel(b, s, p))
           /\ \A id \in AtLevel(b, s, p) :
                  /\ id \in Live(b)
                  /\ Left(b)[id] = b.index[id].remaining
                  /\ Left(b)[id] \in Int
           /\ LevelSum(b, s, p) \in Int
  <1>1. AtLevel(b, s, p) \in SUBSET Live(b)
    BY DEF AtLevel
  <1>2. IsFiniteSet(AtLevel(b, s, p))
    BY <1>1, FS_Subset
  <1>3. \A id \in AtLevel(b, s, p) : /\ id \in Live(b)
                                     /\ Left(b)[id] = b.index[id].remaining
                                     /\ Left(b)[id] \in Int
    BY <1>1, LiveOrder DEF Left
  <1>4. LevelSum(b, s, p) \in Int
    BY <1>2, <1>3, SumInt DEF LevelSum
  <1> QED BY <1>2, <1>3, <1>4

(* Levels with the same orders, which have the same left.                  *)
LEMMA LevelKept ==
    ASSUME NEW b, IsBook(b), IsFiniteSet(Live(b)), NEW c, NEW s, NEW p,
           AtLevel(c, s, p) = AtLevel(b, s, p),
           \A id \in AtLevel(b, s, p) : c.index[id].remaining = b.index[id].remaining
    PROVE  LevelSum(c, s, p) = LevelSum(b, s, p)
  <1> DEFINE S == AtLevel(b, s, p)
  <1>1. IsFiniteSet(S) /\ \A id \in S : Left(b)[id] = b.index[id].remaining
    BY LevelFacts
  <1>2. \A id \in S : id \in Live(c)
    BY DEF AtLevel
  <1>3. \A id \in S : Left(c)[id] = Left(b)[id]
    BY <1>1, <1>2 DEF Left
  <1> QED BY <1>1, <1>3, SumSame DEF LevelSum

(* A level that loses the order id.                                        *)
LEMMA LevelLoses ==
    ASSUME NEW b, IsBook(b), IsFiniteSet(Live(b)), NEW c, NEW s, NEW p,
           NEW id \in AtLevel(b, s, p),
           AtLevel(c, s, p) = AtLevel(b, s, p) \ {id},
           \A i \in AtLevel(b, s, p) \ {id} : c.index[i].remaining = b.index[i].remaining
    PROVE  LevelSum(c, s, p) = LevelSum(b, s, p) - b.index[id].remaining
  <1> DEFINE S == AtLevel(b, s, p)
             T == S \ {id}
  <1>1. /\ IsFiniteSet(S) /\ LevelSum(b, s, p) \in Int
        /\ \A i \in S : Left(b)[i] = b.index[i].remaining /\ Left(b)[i] \in Int
    BY LevelFacts
  <1>2. \A i \in T : i \in Live(c)
    BY DEF AtLevel
  <1>3. IsFiniteSet(T) /\ \A i \in T : Left(c)[i] = Left(b)[i] /\ Left(b)[i] \in Int
    BY <1>1, <1>2, FS_RemoveElement DEF Left
  <1> DEFINE g == Left(b)
             h == Left(c)
  <1>4. LevelSum(b, s, p) = SumFunctionOnSet(g, S) /\ LevelSum(c, s, p) = SumFunctionOnSet(h, T)
    BY DEF LevelSum
  <1> HIDE DEF S, T, g, h
  <1>5. \A x \in S : SumFunctionOnSet(g, S) = g[x] + SumFunctionOnSet(g, S \ {x})
    BY <1>1, SumInt DEF g
  <1>6. SumFunctionOnSet(g, S) = g[id] + SumFunctionOnSet(g, T)
    BY <1>5 DEF S, T
  <1>7. SumFunctionOnSet(h, T) = SumFunctionOnSet(g, T) /\ SumFunctionOnSet(g, T) \in Int
    BY <1>3, SumSame, SumInt DEF g, h
  <1>8. g[id] = b.index[id].remaining /\ g[id] \in Int
    BY <1>1 DEF g, S
  <1> QED BY <1>4, <1>6, <1>7, <1>8

(* Totals after a removal.                                                 *)
LEMMA RemovedTotals ==
    ASSUME NEW b, BookOK(b), IsFiniteSet(Live(b)), TotalsOK(b),
           NEW id \in Live(b), NEW c, Removed(c, b, id),
           LET s == b.index[id].side
               p == b.index[id].price
           IN  Retotalled(c, b, s, p, b.total[s][p] - b.index[id].remaining)
    PROVE  TotalsOK(c)
  <1> DEFINE s0 == b.index[id].side
             p0 == b.index[id].price
  <1>1. IsBook(b)
    BY DEF BookOK
  <1> SUFFICES ASSUME NEW s \in Side, NEW p \in Price, p \in c.ladder[s]
               PROVE  c.total[s][p] = LevelSum(c, s, p)
    BY DEF TotalsOK
  <1>2. p \in b.ladder[s] /\ b.total[s][p] = LevelSum(b, s, p)
    BY DEF Removed, TotalsOK
  <1>3. AtLevel(c, s, p) = AtLevel(b, s, p) \ {id}
    BY DEF AtLevel, At, Removed
  <1>4. \A i \in AtLevel(b, s, p) : i # id => c.index[i].remaining = b.index[i].remaining
    BY DEF AtLevel, Removed
  <1>5. CASE s = s0 /\ p = p0
    <2>1. id \in AtLevel(b, s, p)
      BY <1>5 DEF AtLevel, At
    <2>2. LevelSum(c, s, p) = LevelSum(b, s, p) - b.index[id].remaining
      BY <1>1, <1>3, <1>4, <2>1, LevelLoses
    <2>3. c.total[s][p] = b.total[s][p] - b.index[id].remaining
      BY <1>5 DEF Retotalled
    <2> QED BY <1>2, <2>2, <2>3
  <1>6. CASE ~ (s = s0 /\ p = p0)
    <2>1. AtLevel(c, s, p) = AtLevel(b, s, p) /\ id \notin AtLevel(b, s, p)
      BY <1>3, <1>6 DEF AtLevel, At
    <2>2. LevelSum(c, s, p) = LevelSum(b, s, p)
      BY <1>1, <1>4, <2>1, LevelKept
    <2>3. c.total[s][p] = b.total[s][p]
      BY <1>6 DEF Retotalled
    <2> QED BY <1>2, <2>2, <2>3
  <1> QED BY <1>5, <1>6

(* Totals after an addition, to an existing or to a new level.             *)
LEMMA AddedTotals ==
    ASSUME NEW b, BookOK(b), IsFiniteSet(Live(b)), TotalsOK(b),
           NEW id, id \notin Live(b), NEW o \in Order, NEW c, Added(c, b, id, o),
           LET t == IF o.price \in b.ladder[o.side] THEN b.total[o.side][o.price] ELSE 0
           IN  Retotalled(c, b, o.side, o.price, t + o.remaining)
    PROVE  TotalsOK(c)
  <1> DEFINE s0 == o.side
             p0 == o.price
             t == IF p0 \in b.ladder[s0] THEN b.total[s0][p0] ELSE 0
  <1>1. IsBook(b) /\ IsBook(c) /\ QueuesByContent(b)
    BY ByContent DEF BookOK, Added
  <1>2. IsFiniteSet(Live(c)) /\ s0 \in Side /\ p0 \in Price /\ o.remaining \in Int
    BY FS_AddElement, BookAssumption DEF Added, Order
  <1> SUFFICES ASSUME NEW s \in Side, NEW p \in Price, p \in c.ladder[s]
               PROVE  c.total[s][p] = LevelSum(c, s, p)
    BY DEF TotalsOK
  <1>3. \A i \in Live(b) : i # id /\ c.index[i] = b.index[i] /\ i \in Live(c)
    BY DEF Added
  <1>4. CASE s = s0 /\ p = p0
    <2>1. AtLevel(c, s, p) \ {id} = AtLevel(b, s, p)
      BY <1>3 DEF AtLevel, At, Added
    <2>2. id \in AtLevel(c, s, p) /\ c.index[id] = o
      BY <1>4 DEF AtLevel, At, Added
    <2>3. LevelSum(b, s, p) = LevelSum(c, s, p) - c.index[id].remaining
      <3>1. \A i \in AtLevel(c, s, p) \ {id} : b.index[i].remaining = c.index[i].remaining
        BY <1>3, <2>1 DEF AtLevel
      <3> QED BY <1>1, <1>2, <2>1, <2>2, <3>1, LevelLoses
    <2>4. t = LevelSum(b, s, p)
      <3>1. CASE p0 \in b.ladder[s0]
        BY <1>4, <3>1 DEF TotalsOK
      <3>2. CASE p0 \notin b.ladder[s0]
        <4>1. b.queue[s0][p0] = << >>
          BY <1>1, <1>2, <3>2 DEF QueuesByContent
        <4>2. AtLevel(b, s, p) = {}
          <5> SUFFICES ASSUME NEW x \in AtLevel(b, s, p) PROVE FALSE
            OBVIOUS
          <5>1. x \in Live(b) /\ b.index[x].side = s0 /\ b.index[x].price = p0
            BY <1>4 DEF AtLevel, At
          <5>2. Holds(<< >>, x)
            BY <1>1, <4>1, <5>1 DEF QueuesByContent
          <5> QED BY <5>2 DEF Holds
        <4> QED BY <3>2, <4>2, SumEmpty DEF LevelSum
      <3> QED BY <3>1, <3>2
    <2>5. c.total[s][p] = t + o.remaining
      BY <1>4 DEF Retotalled
    <2>6. LevelSum(c, s, p) \in Int
      BY <1>1, <1>2, LevelFacts
    <2> HIDE DEF t
    <2> QED BY <1>2, <2>2, <2>3, <2>4, <2>5, <2>6
  <1>5. CASE ~ (s = s0 /\ p = p0)
    <2>1. AtLevel(c, s, p) = AtLevel(b, s, p)
      BY <1>3, <1>5 DEF AtLevel, At, Added
    <2>2. \A i \in AtLevel(b, s, p) : c.index[i].remaining = b.index[i].remaining
      BY <1>3 DEF AtLevel
    <2>3. LevelSum(c, s, p) = LevelSum(b, s, p)
      BY <1>1, <2>1, <2>2, LevelKept
    <2>4. p \in b.ladder[s] /\ c.total[s][p] = b.total[s][p]
      BY <1>5 DEF Retotalled, Added
    <2> QED BY <2>3, <2>4 DEF TotalsOK
  <1> QED BY <1>4, <1>5

(* Totals after one order changed what it has left.                        *)
LEMMA ResizedTotals ==
    ASSUME NEW b, BookOK(b), IsFiniteSet(Live(b)), TotalsOK(b),
           NEW id \in Live(b), NEW c, Resized(c, b, id),
           LET s == b.index[id].side
               p == b.index[id].price
           IN  Retotalled(c, b, s, p, b.total[s][p] - (b.index[id].remaining
                                                       - c.index[id].remaining))
    PROVE  TotalsOK(c)
  <1> DEFINE s0 == b.index[id].side
             p0 == b.index[id].price
             d == b.index[id].remaining - c.index[id].remaining
  <1>1. IsBook(b) /\ IsBook(c) /\ IsFiniteSet(Live(c)) /\ id \in Live(c)
    BY DEF BookOK, Resized
  <1>2. b.index[id].remaining \in Int /\ c.index[id].remaining \in Int
    BY <1>1, LiveOrder
  <1> SUFFICES ASSUME NEW s \in Side, NEW p \in Price, p \in c.ladder[s]
               PROVE  c.total[s][p] = LevelSum(c, s, p)
    BY DEF TotalsOK
  <1>3. AtLevel(c, s, p) = AtLevel(b, s, p)
    BY DEF AtLevel, At, Resized
  <1>4. \A i \in AtLevel(b, s, p) : i # id => c.index[i].remaining = b.index[i].remaining
    BY DEF AtLevel, Resized
  <1>5. b.total[s][p] = LevelSum(b, s, p)
    BY DEF TotalsOK, Resized
  <1>6. CASE s = s0 /\ p = p0
    <2> DEFINE S == AtLevel(b, s, p)
               g == Left(b)
               h == Left(c)
    <2>1. /\ IsFiniteSet(S) /\ id \in S
          /\ \A i \in S : /\ g[i] = b.index[i].remaining /\ g[i] \in Int
                          /\ h[i] = c.index[i].remaining /\ h[i] \in Int
      <3>1. id \in S
        BY <1>6 DEF AtLevel, At
      <3>2. IsFiniteSet(S) /\ \A i \in S : g[i] = b.index[i].remaining /\ g[i] \in Int
        BY <1>1, LevelFacts
      <3>3. \A i \in AtLevel(c, s, p) : h[i] = c.index[i].remaining /\ h[i] \in Int
        BY <1>1, LevelFacts
      <3> QED BY <3>1, <3>2, <3>3, <1>3
    <2>2. LevelSum(b, s, p) = SumFunctionOnSet(g, S) /\ LevelSum(c, s, p) = SumFunctionOnSet(h, S)
      BY <1>3 DEF LevelSum
    <2> HIDE DEF S, g, h
    <2>3. /\ SumFunctionOnSet(g, S) \in Int
          /\ \A x \in S : SumFunctionOnSet(g, S) = g[x] + SumFunctionOnSet(g, S \ {x})
      BY <2>1, SumInt
    <2>4. /\ SumFunctionOnSet(h, S) \in Int
          /\ \A x \in S : SumFunctionOnSet(h, S) = h[x] + SumFunctionOnSet(h, S \ {x})
      BY <2>1, SumInt
    <2> DEFINE T == S \ {id}
    <2>5. IsFiniteSet(T) /\ \A i \in T : g[i] = h[i] /\ g[i] \in Int
      BY <1>4, <2>1, FS_RemoveElement DEF S
    <2> HIDE DEF T
    <2>6. SumFunctionOnSet(g, T) = SumFunctionOnSet(h, T) /\ SumFunctionOnSet(g, T) \in Int
      BY <2>5, SumSame, SumInt
    <2>7. /\ SumFunctionOnSet(g, S) = g[id] + SumFunctionOnSet(g, T)
          /\ SumFunctionOnSet(h, S) = h[id] + SumFunctionOnSet(h, T)
      BY <2>1, <2>3, <2>4 DEF T
    <2>8. c.total[s][p] = b.total[s][p] - d
      BY <1>6 DEF Retotalled
    <2>9. SumFunctionOnSet(h, S) = SumFunctionOnSet(g, S) - d
      BY <1>2, <2>1, <2>6, <2>7
    <2> QED BY <1>5, <2>2, <2>8, <2>9
  <1>7. CASE ~ (s = s0 /\ p = p0)
    <2>1. id \notin AtLevel(b, s, p)
      BY <1>7 DEF AtLevel, At
    <2>2. LevelSum(c, s, p) = LevelSum(b, s, p)
      BY <1>1, <1>3, <1>4, <2>1, LevelKept
    <2>3. c.total[s][p] = b.total[s][p]
      BY <1>7 DEF Retotalled
    <2> QED BY <1>5, <2>2, <2>3
  <1> QED BY <1>6, <1>7

-----------------------------------------------------------------------------
(* depth: the levels of a side in the order of their ranks.                *)

(* A better price has a lower rank; the ranks of a ladder are the numbers  *)
(* from 1 to its size.                                                     *)
LEMMA Ranks ==
    ASSUME NEW b, IsBook(b), NEW s \in Side
    PROVE  LET L == b.ladder[s]
               K == Cardinality(L)
           IN  /\ IsFiniteSet(L) /\ K \in Nat /\ K <= MaxPrice + 1
               /\ \A p \in L : Rank(b, s, p) \in 1 .. K
               /\ \A p, q \in L : Better(s, p, q) => Rank(b, s, p) < Rank(b, s, q)
               /\ \A p, q \in L : p # q => Better(s, p, q) \/ Better(s, q, p)
               /\ \A p, q \in L : Rank(b, s, p) = Rank(b, s, q) => p = q
               /\ \A i \in 1 .. K : \E p \in L : Rank(b, s, p) = i
  <1> DEFINE L == b.ladder[s]
             K == Cardinality(L)
             Above(p) == {r \in L : Better(s, r, p)}
  <1>1. L \in SUBSET Price /\ MaxPrice \in Nat
    BY BookAssumption DEF IsBook, Ladders
  <1>2. IsFiniteSet(L) /\ K <= MaxPrice + 1
    <2>1. L \in SUBSET Nat /\ \A p \in L : p <= MaxPrice
      BY <1>1 DEF Price
    <2> QED BY <1>1, <2>1, FS_BoundedSetOfNaturals
  <1>3. K \in Nat
    BY <1>2, FS_CardinalityType
  <1>4. \A p \in L : p \in Int
    BY <1>1 DEF Price
  <1>5. \A p : Rank(b, s, p) = Cardinality(Above(p)) + 1
    BY DEF Rank
  <1> HIDE DEF L, K
  <1>6. \A p \in L : IsFiniteSet(Above(p)) /\ Cardinality(Above(p)) \in Nat
    <2> TAKE p \in L
    <2>1. Above(p) \in SUBSET L
      OBVIOUS
    <2>2. IsFiniteSet(Above(p))
      BY <2>1, <1>2, FS_Subset
    <2> QED BY <2>2, FS_CardinalityType
  <1>7. ASSUME NEW S, IsFiniteSet(S), NEW p \in S, NEW T \in SUBSET S, p \notin T
        PROVE  Cardinality(T) <= Cardinality(S) - 1
    <2>1. IsFiniteSet(S \ {p}) /\ Cardinality(S \ {p}) = Cardinality(S) - 1
      BY <1>7, FS_RemoveElement
    <2>2. T \in SUBSET (S \ {p})
      BY <1>7
    <2>3. Cardinality(T) <= Cardinality(S \ {p})
      BY <2>1, <2>2, FS_Subset
    <2> QED BY <2>1, <2>3
  <1>8. \A p \in L : Rank(b, s, p) \in 1 .. K
    <2> TAKE p \in L
    <2>1. Above(p) \in SUBSET L /\ p \notin Above(p)
      BY <1>4 DEF Better
    <2> DEFINE c == Cardinality(Above(p))
    <2>2. c <= Cardinality(L) - 1
      BY <2>1, <1>2, <1>7
    <2>3. c \in Nat
      BY <1>6
    <2>4. Rank(b, s, p) = c + 1
      BY <1>5
    <2> HIDE DEF c
    <2> QED BY <2>2, <2>3, <2>4, <1>3 DEF K
  <1>9. ASSUME NEW p \in L, NEW q \in L, Better(s, p, q)
        PROVE  Rank(b, s, p) < Rank(b, s, q)
    <2>1. Above(p) \in SUBSET Above(q) /\ p \in Above(q) /\ p \notin Above(p)
      BY <1>4, <1>9 DEF Better
    <2> DEFINE c == Cardinality(Above(p))
               d == Cardinality(Above(q))
    <2>2. c <= d - 1
      BY <2>1, <1>6, <1>7
    <2>3. c \in Nat /\ d \in Nat
      BY <1>6
    <2>4. Rank(b, s, p) = c + 1 /\ Rank(b, s, q) = d + 1
      BY <1>5
    <2> HIDE DEF c, d
    <2> QED BY <2>2, <2>3, <2>4
  <1>10. \A p, q \in L : p # q => Better(s, p, q) \/ Better(s, q, p)
    BY <1>4 DEF Better
  <1>11. ASSUME NEW p \in L, NEW q \in L, Rank(b, s, p) = Rank(b, s, q), p # q
         PROVE  FALSE
    <2>1. Rank(b, s, p) \in Int /\ Rank(b, s, q) \in Int
      BY <1>8, <1>3
    <2>2. CASE Better(s, p, q)
      BY <2>1, <2>2, <1>9, <1>11
    <2>3. CASE Better(s, q, p)
      BY <2>1, <2>3, <1>9, <1>11
    <2> QED BY <2>2, <2>3, <1>10, <1>11
  <1>12. ASSUME NEW i \in 1 .. K PROVE \E p \in L : Rank(b, s, p) = i
    <2> DEFINE f == [p \in L |-> Rank(b, s, p)]
               N == 1 .. K
    <2>1. f \in Injection(L, N)
      <3>1. f \in [L -> N]
        BY <1>8
      <3>2. IsInjective(f)
        BY <1>11 DEF IsInjective
      <3> HIDE DEF f, N
      <3> QED BY <3>1, <3>2 DEF Injection
    <2>2. IsFiniteSet(N) /\ Cardinality(N) = K
      BY <1>3, FS_Interval
    <2> HIDE DEF f, N
    <2>3. f \in Surjection(L, N)
      BY <2>1, <2>2, FS_Injection DEF K
    <2> QED BY <2>3 DEF Surjection, f, N
  <1> QED BY <1>2, <1>3, <1>8, <1>9, <1>10, <1>11, <1>12 DEF L, K

(* The number of orders of a level is the length of its list.              *)
LEMMA CountIsLength ==
    ASSUME NEW b, BookOK(b), NEW s \in Side, NEW p \in Price
    PROVE  Cardinality(AtLevel(b, s, p)) = Len(b.queue[s][p])
  <1> DEFINE seq == b.queue[s][p]
             S == AtLevel(b, s, p)
             n == Len(seq)
  <1>1. IsBook(b) /\ QueuesByContent(b)
    BY ByContent DEF BookOK
  <1>2. seq \in Seq(OrderId) /\ Distinct(seq)
    BY <1>1, BookQueue DEF QueuesByContent
  <1>3. \A x : Holds(seq, x) <=> x \in S
    BY <1>1 DEF QueuesByContent, AtLevel, At
  <1> HIDE DEF seq, S
  <1>4. n \in Nat /\ DOMAIN seq = 1 .. n /\ seq = [i \in 1 .. n |-> seq[i]]
    BY <1>2
  <1> HIDE DEF n
  <1>5. \A i \in 1 .. n : seq[i] \in S
    BY <1>3, <1>4 DEF Holds
  <1>6. seq \in [1 .. n -> S]
    BY <1>4, <1>5
  <1>7. \A x \in S : \E i \in 1 .. n : seq[i] = x
    BY <1>3, <1>4 DEF Holds
  <1>8. IsInjective(seq)
    BY <1>2 DEF IsInjective, Distinct
  <1>9. seq \in Bijection(1 .. n, S)
    BY <1>6, <1>7, <1>8 DEF Bijection, Injection, Surjection
  <1>10. ExistsBijection(1 .. n, S)
    BY <1>9 DEF ExistsBijection
  <1> QED BY <1>4, <1>10, FS_CountingElements DEF S, n, seq

(* depth shows the levels of a consistent book whose totals are right.     *)
LEMMA DepthRows ==
    ASSUME NEW b, BookOK(b), TotalsOK(b), NEW s \in Side
    PROVE  LET all == Depth(b, s, MaxPrice + 1)
           IN  /\ {all[i].price : i \in DOMAIN all} = {p \in Price : AtLevel(b, s, p) # {}}
               /\ \A i \in DOMAIN all :
                      /\ all[i].count = Cardinality(AtLevel(b, s, all[i].price))
                      /\ all[i].total = LevelSum(b, s, all[i].price)
                      /\ \A j \in DOMAIN all :
                             i < j => Better(s, all[i].price, all[j].price)
                      /\ Depth(b, s, i) = SubSeq(all, 1, i)
  <1> DEFINE L == b.ladder[s]
             K == Cardinality(L)
             price(i) == CHOOSE r \in L : Rank(b, s, r) = i
             row(i) == [price |-> price(i), total |-> b.total[s][price(i)],
                        count |-> Len(b.queue[s][price(i)])]
             all == Depth(b, s, MaxPrice + 1)
  <1>1. IsBook(b) /\ QueuesByContent(b) /\ MaxPrice \in Nat
    BY ByContent, BookAssumption DEF BookOK
  <1>2. /\ K \in Nat /\ K <= MaxPrice + 1
        /\ \A p \in L : Rank(b, s, p) \in 1 .. K
        /\ \A p, q \in L : Better(s, p, q) => Rank(b, s, p) < Rank(b, s, q)
        /\ \A p, q \in L : p # q => Better(s, p, q) \/ Better(s, q, p)
        /\ \A p, q \in L : Rank(b, s, p) = Rank(b, s, q) => p = q
        /\ \A i \in 1 .. K : \E p \in L : Rank(b, s, p) = i
    BY <1>1, Ranks
  <1>3. L \subseteq Price
    BY <1>1 DEF IsBook, Ladders
  <1>4. \A n \in Nat : Depth(b, s, n) = [i \in 1 .. (IF n < K THEN n ELSE K) |-> row(i)]
    BY DEF Depth
  <1>5. \A i \in 1 .. K : price(i) \in L /\ Rank(b, s, price(i)) = i
    BY <1>2
  <1>6. \A p \in L : price(Rank(b, s, p)) = p
    BY <1>2, <1>5
  <1>7. \A i : /\ row(i).price = price(i)
               /\ row(i).total = b.total[s][price(i)]
               /\ row(i).count = Len(b.queue[s][price(i)])
    OBVIOUS
  <1>8. \A p \in Price : p \in L <=> AtLevel(b, s, p) # {}
    <2> TAKE p \in Price
    <2>1. p \in L <=> b.queue[s][p] # << >>
      BY <1>1 DEF QueuesByContent
    <2>2. b.queue[s][p] \in Seq(OrderId)
      BY <1>1, BookQueue
    <2>3. \A x : Holds(b.queue[s][p], x) <=> x \in AtLevel(b, s, p)
      BY <1>1 DEF QueuesByContent, AtLevel, At
    <2>4. b.queue[s][p] # << >> => Holds(b.queue[s][p], b.queue[s][p][1])
      BY <2>2 DEF Holds
    <2>5. b.queue[s][p] = << >> => \A x : ~ Holds(b.queue[s][p], x)
      BY DEF Holds
    <2> QED BY <2>1, <2>3, <2>4, <2>5
  <1>9. all = [i \in 1 .. K |-> row(i)]
    <2>1. MaxPrice + 1 \in Nat /\ (IF MaxPrice + 1 < K THEN MaxPrice + 1 ELSE K) = K
      BY <1>1, <1>2
    <2> QED BY <2>1, <1>4
  <1>10. \A i \in 1 .. K : Depth(b, s, i) = [j \in 1 .. i |-> row(j)]
    <2> TAKE i \in 1 .. K
    <2>1. i \in Nat /\ (IF i < K THEN i ELSE K) = i
      BY <1>2
    <2> QED BY <2>1, <1>4
  <1> HIDE DEF L, K, price, row, all
  <1>11. DOMAIN all = 1 .. K /\ \A i \in 1 .. K : all[i] = row(i)
    BY <1>9
  <1>12. {all[i].price : i \in DOMAIN all} = {p \in Price : AtLevel(b, s, p) # {}}
    <2>1. \A i \in 1 .. K : all[i].price = price(i)
      BY <1>7, <1>11
    <2>2. \A p \in L : Rank(b, s, p) \in 1 .. K /\ all[Rank(b, s, p)].price = p
      BY <1>2, <1>6, <2>1
    <2>3. \A p : p \in {all[i].price : i \in DOMAIN all} <=> p \in L
      BY <1>5, <1>11, <2>1, <2>2
    <2> QED BY <1>3, <1>8, <2>3
  <1>13. ASSUME NEW i \in 1 .. K
         PROVE  /\ all[i].count = Cardinality(AtLevel(b, s, all[i].price))
                /\ all[i].total = LevelSum(b, s, all[i].price)
                /\ \A j \in 1 .. K : i < j => Better(s, all[i].price, all[j].price)
                /\ Depth(b, s, i) = SubSeq(all, 1, i)
    <2>1. price(i) \in L /\ price(i) \in Price
      BY <1>3, <1>5
    <2>2. all[i].count = Cardinality(AtLevel(b, s, all[i].price))
      BY <1>7, <1>11, <2>1, CountIsLength
    <2>3. all[i].total = LevelSum(b, s, all[i].price)
      BY <1>7, <1>11, <2>1 DEF TotalsOK, L
    <2>4. ASSUME NEW j \in 1 .. K, i < j PROVE Better(s, all[i].price, all[j].price)
      <3>1. price(j) \in L /\ Rank(b, s, price(i)) = i /\ Rank(b, s, price(j)) = j
        BY <1>5
      <3>2. price(i) # price(j) /\ ~ Better(s, price(j), price(i))
        BY <2>1, <2>4, <3>1, <1>2
      <3> QED BY <2>1, <3>1, <3>2, <1>2, <1>7, <1>11
    <2>5. Depth(b, s, i) = SubSeq(all, 1, i)
      <3>1. SubSeq(all, 1, i) = [j \in 1 .. i |-> all[j]]
        <4>1. all \in Seq({row(j) : j \in 1 .. K}) /\ Len(all) = K
          BY <1>2, <1>9
        <4> HIDE DEF all
        <4> QED BY <4>1, <1>2
      <3>2. \A j \in 1 .. i : all[j] = row(j)
        BY <1>2, <1>11
      <3> QED BY <3>1, <3>2, <1>10
    <2> QED BY <2>2, <2>3, <2>4, <2>5
  <1> QED BY <1>11, <1>12, <1>13 DEF all

-----------------------------------------------------------------------------
(* The totals are right after every call.                                  *)

(* The strengthened invariant: the running total of every level is what    *)
(* its orders add up to.                                                   *)
DInv == IInv /\ TotalsOK(book)

(* A smaller remaining quantity in place.                                  *)
LEMMA ShrinkTotalsOK ==
    ASSUME DInv, NEW id \in Live(book), NEW q \in Quantity,
           book' = ShrinkOrder(book, id, q)
    PROVE  TotalsOK(book)'
  <1>1. BookOK(book) /\ IsFiniteSet(Live(book)) /\ TotalsOK(book)
    BY LiveFinite DEF DInv, IInv, BookAndHistory
  <1>2. Resized(book', book, id) /\ book'.index[id].remaining = q
    BY <1>1, ShrinkShape
  <1> DEFINE s == book.index[id].side
             p == book.index[id].price
  <1>3. Retotalled(book', book, s, p, book.total[s][p] - (book.index[id].remaining
                                                           - book'.index[id].remaining))
    BY <1>1, <1>2, ShrinkTotals
  <1>4. TotalsOK(book')
    BY <1>1, <1>2, <1>3, ResizedTotals
  <1> QED BY <1>4

(* Every call keeps the totals right.                                      *)
LEMMA NextTotals ==
    ASSUME DInv, [Next]_vars
    PROVE  TotalsOK(book)'
  <1>0. BookOK(book) /\ IsFiniteSet(Live(book)) /\ TotalsOK(book)
    BY LiveFinite DEF DInv, IInv, BookAndHistory
  <1>1. CASE book' = book
    BY <1>1, <1>0
  <1>2. ASSUME NEW id \in AnyId, NEW s \in Side, NEW p \in AnyPrice,
               NEW q \in AnyQuantity, NEW t \in TraderId,
               Insert(id, NewOrder(s, p, q, t))
        PROVE  TotalsOK(book)'
    <2> DEFINE o == NewOrder(s, p, q, t)
    <2>1. CASE ~ InsertOK(book, id, o)
      BY <1>1, <1>2, <2>1 DEF Insert
    <2>2. CASE InsertOK(book, id, o)
      <3>1. o.side = s /\ o.price = p /\ o.remaining = q /\ o.status = "Open"
        BY DEF NewOrder
      <3>2. id \in OrderId /\ id \notin Live(book) /\ p \in Price /\ q \in Quantity
        BY <2>2, <3>1 DEF InsertOK, AnyId
      <3>3. o \in Order
        BY <3>2, BookAssumption DEF Order, NewOrder, Quantity
      <3>4. book' = InsertOrder(book, id, o)
        BY <1>2, <2>2 DEF Insert
      <3> HIDE DEF o
      <3>5. Added(book', book, id, o)
        BY <1>0, <3>2, <3>3, <3>4, InsertShape
      <3> DEFINE old == IF o.price \in book.ladder[o.side]
                        THEN book.total[o.side][o.price] ELSE 0
      <3>6. Retotalled(book', book, o.side, o.price, old + o.remaining)
        BY <1>0, <3>2, <3>3, <3>4, InsertTotals
      <3>7. TotalsOK(book')
        BY <1>0, <3>2, <3>3, <3>5, <3>6, AddedTotals
      <3> QED BY <3>7
    <2> QED BY <2>1, <2>2
  <1>3. ASSUME NEW id \in AnyId, Cancel(id) PROVE TotalsOK(book)'
    <2>1. CASE ~ CancelOK(book, id)
      BY <1>1, <1>3, <2>1 DEF Cancel
    <2>2. CASE CancelOK(book, id)
      <3>1. id \in Live(book) /\ book' = CancelOrder(book, id)
        BY <1>3, <2>2 DEF Cancel, CancelOK
      <3>2. TotalsOK(book')
        BY <1>0, <3>1, CancelShape, CancelTotals, RemovedTotals
      <3> QED BY <3>2
    <2> QED BY <2>1, <2>2
  <1>4. ASSUME NEW id \in AnyId, NEW q \in AnyQuantity, Reduce(id, q)
        PROVE  TotalsOK(book)'
    <2>1. CASE ~ ReduceOK(book, id, q)
      BY <1>1, <1>4, <2>1 DEF Reduce
    <2>2. CASE ReduceOK(book, id, q)
      <3>1. /\ id \in Live(book) /\ q > 0 /\ q < book.index[id].remaining
            /\ book' = ShrinkOrder(book, id, q)
        BY <1>4, <2>2 DEF ReduceOK, Reduce
      <3>2. q \in Quantity
        BY <1>0, <3>1, BookAssumption DEF BookOK, OrdersOpen, Quantity, AnyQuantity
      <3> QED BY <3>1, <3>2, ShrinkTotalsOK
    <2> QED BY <2>1, <2>2
  <1>5. ASSUME NEW id \in AnyId, NEW q \in AnyQuantity, NEW p \in AnyPrice,
               Modify(id, q, p)
        PROVE  TotalsOK(book)'
    <2> DEFINE res == ModifyResult(book, id, q, p)
    <2>1. res \in {"NotFound", "Rejected", "Modified", "Replaced"}
      BY DEF ModifyResult
    <2>2. CASE res \in {"NotFound", "Rejected"}
      BY <1>1, <1>5, <2>2 DEF Modify, ModifyOrder
    <2>3. CASE res = "Modified"
      <3>1. id \in Live(book) /\ q \in Quantity
        BY <2>3 DEF ModifyResult, CancelOK
      <3>2. book' = book \/ book' = ShrinkOrder(book, id, q)
        BY <1>5, <2>3 DEF Modify, ModifyOrder
      <3> QED BY <1>1, <3>1, <3>2, ShrinkTotalsOK
    <2>4. CASE res = "Replaced"
      <3> DEFINE n == [book.index[id] EXCEPT !.price = p, !.remaining = q, !.status = "Open"]
                 d == CancelOrder(book, id)
                 sd == book.index[id].side
                 old == IF p \in d.ladder[sd] THEN d.total[sd][p] ELSE 0
      <3>1. id \in Live(book) /\ q \in Quantity /\ p \in Price
        BY <2>4 DEF ModifyResult, CancelOK
      <3>2. book' = ReplaceOrder(book, id, q, p)
        BY <1>5, <2>4 DEF Modify, ModifyOrder
      <3>3. book.index[id] \in Order
        BY <1>0, <3>1, LiveOrder DEF BookOK
      <3>4. Removed(d, book, id) /\ BookOK(d) /\ TotalsOK(d)
        BY <1>0, <3>1, CancelShape, CancelTotals, RemovedOK, RemovedTotals
      <3>5. n \in Order /\ Added(book', d, id, n)
        BY <1>0, <3>1, <3>2, ReplaceShape
      <3>6. n.side = sd /\ n.price = p /\ n.remaining = q
        BY <3>3 DEF Order
      <3>7. Retotalled(book', d, sd, p, old + q)
        BY <1>0, <3>1, <3>2, ReplaceTotals
      <3> HIDE DEF n, d
      <3>8. id \notin Live(d) /\ IsFiniteSet(Live(d))
        BY <1>0, <3>4, FS_RemoveElement DEF Removed
      <3>9. TotalsOK(book')
        BY <3>4, <3>5, <3>6, <3>7, <3>8, AddedTotals
      <3> QED BY <3>9
    <2> QED BY <2>1, <2>2, <2>3, <2>4
  <1>6. ASSUME NEW id \in OrderId, NEW q \in AnyQuantity, Fill(id, q)
        PROVE  TotalsOK(book)'
    <2> DEFINE s == book.index[id].side
               p == book.index[id].price
               m == FillQuantity(book, id, q)
    <2>1. IsFront(book, id) /\ id \in Live(book) /\ book' = FillOrder(book, id, q)
      BY <1>6 DEF Fill, FillTarget, IsFront
    <2>2. q \in Int
      BY BookAssumption DEF AnyQuantity
    <2>3. /\ Retotalled(book', book, s, p, book.total[s][p] - m)
          /\ Consumes(book, id, q) => m = book.index[id].remaining
      BY <1>0, <2>1, <2>2, FillTotals
    <2>4. CASE Consumes(book, id, q)
      <3>1. Removed(book', book, id)
        BY <1>0, <2>1, <2>2, <2>4, FillShape
      <3>2. TotalsOK(book')
        BY <1>0, <2>1, <2>3, <2>4, <3>1, RemovedTotals
      <3> QED BY <3>2
    <2>5. CASE ~ Consumes(book, id, q)
      <3>1. Resized(book', book, id) /\ book'.index[id].remaining = book.index[id].remaining - m
        BY <1>0, <2>1, <2>2, <2>5, FillShape
      <3>2. m = book.index[id].remaining - book'.index[id].remaining
        <4>1. book.index[id].remaining \in Int
          BY <1>0, <2>1, LiveOrder DEF BookOK
        <4>2. m \in Int
          BY <2>1, <2>2, <4>1 DEF FillQuantity, IsFront
        <4> HIDE DEF m
        <4> QED BY <3>1, <4>1, <4>2
      <3>3. TotalsOK(book')
        BY <1>0, <2>1, <2>3, <3>1, <3>2, ResizedTotals
      <3> QED BY <3>3
    <2> QED BY <2>4, <2>5
  <1> QED BY <1>1, <1>2, <1>3, <1>4, <1>5, <1>6 DEF Next, InsertMarket, FillUnknown, vars

(* depth is exact after any sequence of calls, for any number of orders,   *)
(* prices and quantities: its rows are the prices that have an order, best *)
(* first, each with the sum of what its orders have left and their number, *)
(* although append, remove, reduce, modify and fill only ever correct a    *)
(* running total (order_book.cpp).                                         *)
THEOREM DepthExact == Spec => []DepthAggregatesOrders
  <1>1. Init => DInv
    <2>1. Init => TotalsOK(book)
      BY DEF Init, EmptyBook, TotalsOK
    <2> QED BY <2>1, InitIInv DEF DInv
  <1>2. DInv /\ [Next]_vars => DInv'
    BY NextIInv, NextTotals DEF DInv
  <1>3. DInv => DepthAggregatesOrders
    <2> SUFFICES ASSUME DInv PROVE DepthAggregatesOrders
      OBVIOUS
    <2>1. BookOK(book) /\ TotalsOK(book)
      BY DEF DInv, IInv, BookAndHistory
    <2> QED BY <2>1, DepthRows
            DEF DepthAggregatesOrders, AtLevel, At, LevelSum, Left
  <1> QED BY <1>1, <1>2, <1>3, PTL DEF Spec
=============================================================================

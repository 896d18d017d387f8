------------------------ MODULE MatchingEngine_proofs ------------------------
(***************************************************************************)
(* Proofs about MatchingEngine and about the two sinks that live inside    *)
(* its steps, MarketData and Persistence, which keep its invariant.        *)
(***************************************************************************)
EXTENDS MarketData, Persistence, Book_proofs

-----------------------------------------------------------------------------
(* One book with its histories.                                            *)

(* Of every bid and ask of b that cross, the one placed last was placed by *)
(* a modify.                                                               *)
CrossingsMoved(b, pl, mv) ==
    \A bid, ask \in Live(b) :
        /\ b.index[bid].side = "Buy"
        /\ b.index[ask].side = "Sell"
        /\ b.index[bid].price >= b.index[ask].price
        => IF Precedes(pl, bid, ask) THEN ask \in mv ELSE bid \in mv

GoodBook(b, pl, mv) ==
    /\ BookAndHistory(b, pl)
    /\ mv \subseteq OrderId
    /\ CrossingsMoved(b, pl, mv)

(* Every order of c was in b, with the same sequence number.               *)
Inherits(c, b) ==
    \A id \in Live(c) :
        /\ id \in Live(b)
        /\ c.index[id].sequence = b.index[id].sequence

(* No order of b crosses an order of side s and price p.                   *)
Clears(b, s, p) ==
    \A id \in Live(b) : b.index[id].side = Opposite(s)
                            => ~ Crosses(s, p, b.index[id].price)

(* Removing an order keeps the histories of the others.                    *)
LEMMA RemovedBook ==
    ASSUME NEW b, NEW pl, NEW mv, GoodBook(b, pl, mv), NEW id \in Live(b),
           NEW c, Removed(c, b, id)
    PROVE  GoodBook(c, Unlink(pl, id), mv \ {id}) /\ Inherits(c, b)
  <1> DEFINE u == Unlink(pl, id)
  <1>1. BookAndHistory(c, u)
    BY RemovedHistory DEF GoodBook
  <1>2. Holds(pl, id) /\ Distinct(pl) /\ pl \in Seq(OrderId)
    BY LiveOrder DEF GoodBook, BookAndHistory, BookOK
  <1>3. \A x, y : Precedes(u, x, y) <=> (Precedes(pl, x, y) /\ x # id /\ y # id)
    BY <1>2, UnlinkOrder
  <1> HIDE DEF u
  <1>4. Inherits(c, b)
    BY DEF Inherits, Removed
  <1>5. CrossingsMoved(c, u, mv \ {id})
    <2> SUFFICES ASSUME NEW bid \in Live(c), NEW ask \in Live(c),
                        c.index[bid].side = "Buy", c.index[ask].side = "Sell",
                        c.index[bid].price >= c.index[ask].price
                 PROVE  IF Precedes(u, bid, ask) THEN ask \in mv \ {id} ELSE bid \in mv \ {id}
      BY DEF CrossingsMoved
    <2>1. /\ bid \in Live(b) /\ ask \in Live(b) /\ bid # id /\ ask # id
          /\ c.index[bid] = b.index[bid] /\ c.index[ask] = b.index[ask]
      BY DEF Removed
    <2>2. IF Precedes(pl, bid, ask) THEN ask \in mv ELSE bid \in mv
      BY <2>1 DEF GoodBook, CrossingsMoved
    <2> QED BY <2>1, <2>2, <1>3
  <1> QED BY <1>1, <1>4, <1>5 DEF GoodBook, u

(* So does a change of what an order has left.                             *)
LEMMA ResizedBook ==
    ASSUME NEW b, NEW pl, NEW mv, GoodBook(b, pl, mv), NEW id \in Live(b),
           NEW c, Resized(c, b, id)
    PROVE  GoodBook(c, pl, mv) /\ Inherits(c, b)
  <1>1. BookAndHistory(c, pl)
    BY ResizedHistory DEF GoodBook
  <1>2. \A i \in Live(c) : /\ i \in Live(b)
                           /\ c.index[i].side = b.index[i].side
                           /\ c.index[i].price = b.index[i].price
                           /\ c.index[i].sequence = b.index[i].sequence
    BY DEF Resized
  <1>3. CrossingsMoved(c, pl, mv)
    BY <1>2 DEF GoodBook, CrossingsMoved
  <1> QED BY <1>1, <1>2, <1>3 DEF GoodBook, Inherits

(* An added order is the last one placed, so it keeps the rule on crossing *)
(* pairs when it crosses nothing or was moved.                             *)
LEMMA AddedBook ==
    ASSUME NEW b, NEW pl, NEW mv, GoodBook(b, pl, mv), NEW id \in OrderId,
           id \notin Live(b), NEW o \in Order, o.remaining \in Quantity, IsOpen(o),
           NEW c, Added(c, b, id, o),
           NEW mw, mw \in SUBSET OrderId, mv \subseteq mw,
           id \in mw \/ Clears(b, o.side, o.price)
    PROVE  GoodBook(c, Append(pl, id), mw)
  <1> DEFINE a == Append(pl, id)
  <1>1. BookAndHistory(c, a)
    BY AddedHistory DEF GoodBook
  <1>2. ~ Holds(pl, id) /\ Distinct(pl) /\ pl \in Seq(OrderId)
    BY DEF GoodBook, BookAndHistory
  <1>3. \A x, y : Precedes(a, x, y) <=> Precedes(pl, x, y) \/ (Holds(pl, x) /\ y = id)
    BY <1>2, AppendSet
  <1>4. \A x \in Live(b) : Holds(pl, x)
    BY LiveOrder DEF GoodBook, BookAndHistory, BookOK
  <1>5. \A x, y : Precedes(pl, x, y) => Holds(pl, x) /\ Holds(pl, y)
    BY DEF Precedes, Holds
  <1> HIDE DEF a
  <1>6. CrossingsMoved(c, a, mw)
    <2> SUFFICES ASSUME NEW bid \in Live(c), NEW ask \in Live(c),
                        c.index[bid].side = "Buy", c.index[ask].side = "Sell",
                        c.index[bid].price >= c.index[ask].price
                 PROVE  IF Precedes(a, bid, ask) THEN ask \in mw ELSE bid \in mw
      BY DEF CrossingsMoved
    <2>0. bid # ask
      OBVIOUS
    <2>1. CASE bid # id /\ ask # id
      <3>1. /\ bid \in Live(b) /\ ask \in Live(b)
            /\ c.index[bid] = b.index[bid] /\ c.index[ask] = b.index[ask]
        BY <2>1 DEF Added
      <3>2. IF Precedes(pl, bid, ask) THEN ask \in mv ELSE bid \in mv
        BY <3>1 DEF GoodBook, CrossingsMoved
      <3> QED BY <3>2, <2>1, <1>3
    <2>2. CASE bid = id
      <3>1. ask \in Live(b) /\ c.index[ask] = b.index[ask] /\ c.index[bid] = o
        BY <2>0, <2>2 DEF Added
      <3>2. ~ Precedes(a, bid, ask)
        BY <2>0, <2>2, <1>2, <1>3, <1>5
      <3>3. Clears(b, o.side, o.price) => FALSE
        BY <3>1 DEF Clears, Opposite, Crosses
      <3> QED BY <2>2, <3>2, <3>3
    <2>3. CASE ask = id
      <3>1. bid \in Live(b) /\ c.index[bid] = b.index[bid] /\ c.index[ask] = o
        BY <2>0, <2>3 DEF Added
      <3>2. Precedes(a, bid, ask)
        BY <3>1, <2>3, <1>3, <1>4
      <3>3. Clears(b, o.side, o.price) => FALSE
        BY <3>1 DEF Clears, Opposite, Crosses
      <3> QED BY <2>3, <3>2, <3>3
    <2> QED BY <2>1, <2>2, <2>3
  <1> QED BY <1>1, <1>6 DEF GoodBook, a

-----------------------------------------------------------------------------
(* The operations of a book keep it good.                                  *)

(* cancel.                                                                 *)
LEMMA CancelBook ==
    ASSUME NEW b, NEW pl, NEW mv, GoodBook(b, pl, mv), NEW id, CancelOK(b, id)
    PROVE  GoodBook(CancelOrder(b, id), Unlink(pl, id), mv \ {id})
           /\ Inherits(CancelOrder(b, id), b)
  <1>1. id \in Live(b) /\ BookOK(b)
    BY DEF CancelOK, GoodBook, BookAndHistory
  <1>2. Removed(CancelOrder(b, id), b, id)
    BY <1>1, CancelShape
  <1> QED BY <1>1, <1>2, RemovedBook

(* reduce, and modify in place.                                            *)
LEMMA ShrinkBook ==
    ASSUME NEW b, NEW pl, NEW mv, GoodBook(b, pl, mv), NEW id \in Live(b),
           NEW q \in Quantity
    PROVE  GoodBook(ShrinkOrder(b, id, q), pl, mv) /\ Inherits(ShrinkOrder(b, id, q), b)
  <1>1. Resized(ShrinkOrder(b, id, q), b, id)
    BY ShrinkShape DEF GoodBook, BookAndHistory
  <1> QED BY <1>1, ResizedBook

(* fill, as the match loop calls it.                                       *)
LEMMA FillBook ==
    ASSUME NEW b, NEW pl, NEW mv, GoodBook(b, pl, mv), NEW id, IsFront(b, id),
           NEW q \in Int
    PROVE  LET c == FillOrder(b, id, q)
           IN  /\ Consumes(b, id, q) => GoodBook(c, Unlink(pl, id), mv \ {id})
               /\ ~ Consumes(b, id, q) => GoodBook(c, pl, mv)
               /\ Inherits(c, b)
               /\ c.corrupt <=> b.corrupt
  <1> DEFINE c == FillOrder(b, id, q)
  <1>1. id \in Live(b) /\ BookOK(b)
    BY DEF IsFront, GoodBook, BookAndHistory
  <1>2. /\ Consumes(b, id, q) => Removed(c, b, id)
        /\ ~ Consumes(b, id, q) => Resized(c, b, id)
    BY <1>1, FillShape
  <1> HIDE DEF c
  <1>3. CASE Consumes(b, id, q)
    <2>1. Removed(c, b, id)
      BY <1>2, <1>3
    <2>2. GoodBook(c, Unlink(pl, id), mv \ {id}) /\ Inherits(c, b)
      BY <1>1, <2>1, RemovedBook
    <2> QED BY <1>3, <2>1, <2>2 DEF Removed, c
  <1>4. CASE ~ Consumes(b, id, q)
    <2>1. Resized(c, b, id)
      BY <1>2, <1>4
    <2>2. GoodBook(c, pl, mv) /\ Inherits(c, b)
      BY <1>1, <2>1, ResizedBook
    <2> QED BY <1>4, <2>1, <2>2 DEF Resized, c
  <1> QED BY <1>3, <1>4

(* modify to another price or to more.                                     *)
LEMMA ReplaceBook ==
    ASSUME NEW b, NEW pl, NEW mv, GoodBook(b, pl, mv), NEW id \in Live(b),
           NEW q \in Quantity, NEW p \in Price
    PROVE  GoodBook(ReplaceOrder(b, id, q, p), Append(Unlink(pl, id), id), mv \cup {id})
           /\ Inherits(ReplaceOrder(b, id, q, p), b)
  <1> DEFINE n == [b.index[id] EXCEPT !.price = p, !.remaining = q, !.status = "Open"]
             d == CancelOrder(b, id)
             c == ReplaceOrder(b, id, q, p)
  <1>1. BookOK(b) /\ id \in OrderId /\ b.index[id] \in Order
    BY LiveOrder DEF GoodBook, BookAndHistory, BookOK
  <1>2. Removed(d, b, id)
    BY <1>1, CancelShape
  <1>3. n \in Order /\ n.remaining \in Quantity /\ IsOpen(n) /\ Added(c, d, id, n)
    BY <1>1, ReplaceShape
  <1>4. n.sequence = b.index[id].sequence
    BY <1>1 DEF Order
  <1> HIDE DEF n, d, c
  <1>5. GoodBook(d, Unlink(pl, id), mv \ {id}) /\ id \notin Live(d)
    BY <1>2, RemovedBook DEF Removed
  <1>6. GoodBook(c, Append(Unlink(pl, id), id), mv \cup {id})
    <2>1. mv \cup {id} \in SUBSET OrderId /\ mv \ {id} \subseteq mv \cup {id} /\ id \in mv \cup {id}
      BY <1>1 DEF GoodBook
    <2> QED BY <1>1, <1>3, <1>5, <2>1, AddedBook
  <1>7. Inherits(c, b)
    BY <1>2, <1>3, <1>4 DEF Inherits, Added, Removed
  <1> QED BY <1>6, <1>7 DEF c

(* insert of an order that crosses nothing; it cannot free a Level either. *)
LEMMA InsertBook ==
    ASSUME NEW b, NEW pl, NEW mv, GoodBook(b, pl, mv), NEW id \in OrderId,
           NEW o \in Order, IsOpen(o), InsertOK(b, id, o),
           Clears(b, o.side, o.price), ~ b.corrupt
    PROVE  LET c == InsertOrder(b, id, o)
           IN  /\ GoodBook(c, Append(pl, id), mv)
               /\ ~ c.corrupt
               /\ Live(c) = Live(b) \cup {id}
               /\ c.index[id] = o
               /\ \A x \in Live(b) : c.index[x] = b.index[x]
  <1> DEFINE c == InsertOrder(b, id, o)
  <1>1. BookOK(b) /\ id \notin Live(b) /\ o.remaining \in Quantity
    BY DEF GoodBook, BookAndHistory, InsertOK
  <1>2. Added(c, b, id, o)
    BY <1>1, InsertShape
  <1> HIDE DEF c
  <1>3. GoodBook(c, Append(pl, id), mv)
    <2>1. mv \in SUBSET OrderId
      BY DEF GoodBook
    <2> QED BY <1>1, <1>2, <2>1, AddedBook
  <1>4. o.side \in Side /\ o.price \in Price
    BY DEF Order
  <1>5. QueuesByContent(b) /\ IsBook(b)
    BY <1>1, ByContent DEF BookOK
  <1>6. ~ c.corrupt
    <2> SUFFICES ASSUME o.price \notin b.ladder[o.side], b.storage[o.price] # NoSide
                 PROVE  FALSE
      BY <1>2 DEF Added
    <2> DEFINE s == Opposite(o.side)
    <2>1. b.storage[o.price] \in Side /\ b.storage[o.price] # o.side
      BY <1>1, <1>4, <1>5 DEF IsBook, Storage, BookOK, StorageOwnsLevels
    <2>2. s \in Side /\ b.storage[o.price] = s
      BY <2>1, <1>4 DEF Opposite, Side
    <2>3. o.price \in b.ladder[s]
      BY <2>2, <1>1, <1>4 DEF BookOK, StorageOwnsLevels
    <2> HIDE DEF s
    <2>4. b.queue[s][o.price] # << >> /\ b.queue[s][o.price] \in Seq(OrderId)
      BY <2>2, <2>3, <1>4, <1>5, BookQueue DEF QueuesByContent
    <2>5. PICK x : Holds(b.queue[s][o.price], x)
      <3>1. 1 \in DOMAIN b.queue[s][o.price]
        BY <2>4
      <3> QED BY <3>1 DEF Holds
    <2>6. x \in Live(b) /\ b.index[x].side = s /\ b.index[x].price = o.price
      BY <2>2, <2>5, <1>4, <1>5 DEF QueuesByContent
    <2>7. Crosses(o.side, o.price, b.index[x].price)
      BY <2>6, <1>4, BookAssumption DEF Crosses, Price
    <2> QED BY <2>6, <2>7 DEF Clears, s
  <1> QED BY <1>1, <1>2, <1>3, <1>6 DEF Added, c

-----------------------------------------------------------------------------
(* The inductive invariant.                                                *)

(* Every registered instrument has a good book; the others have no history *)
(* that a new book could inherit.                                          *)
Shelf(bs, pl, mv) ==
    /\ DOMAIN bs \subseteq Instrument
    /\ pl \in [Instrument -> Seq(OrderId)]
    /\ mv \in [Instrument -> SUBSET OrderId]
    /\ \A i \in DOMAIN bs : GoodBook(bs[i], pl[i], mv[i])
    /\ \A i \in Instrument \ DOMAIN bs : pl[i] = << >>

(* No live order has the sequence number n.                                *)
Unused(bs, n) ==
    \A i \in DOMAIN bs : \A id \in Live(bs[i]) : bs[i].index[id].sequence # n

(* The sequence numbers of the live orders of all books are below n, not   *)
(* 0, and no two orders share one.                                         *)
Numbered(bs, n) ==
    /\ Unused(bs, 0)
    /\ \A i \in DOMAIN bs : \A id \in Live(bs[i]) : bs[i].index[id].sequence < n
    /\ \A i, j \in DOMAIN bs : \A id \in Live(bs[i]), other \in Live(bs[j]) :
           (bs[i].index[id].sequence = bs[j].index[other].sequence)
               => (i = j /\ id = other)

Taker ==
    [id : OrderId, instrument : Instrument, side : Side,
     type : {"Limit", "Market"}, tif : {"GTC", "IOC", "FOK"},
     price : Price \cup {NoPrice},
     quantity : Quantity, remaining : 0 .. MaxQuantity,
     trader : TraderId \cup {0}, sequence : Nat \ {0}]

(* What the trades of tp add up to.                                        *)
Traded(tp) == SumFunction([k \in DOMAIN tp |-> tp[k].quantity])

(* The taker t of a submission: it is filled at most up to its quantity,   *)
(* its number is its own, and the counter has room for a trade per unit    *)
(* that is left.                                                           *)
TakerOK(t, bs, n) ==
    /\ t \in Taker
    /\ t.instrument \in DOMAIN bs
    /\ t.remaining <= t.quantity
    /\ t.type = "Limit" => t.price \in Price
    /\ t.sequence < n
    /\ n + t.remaining <= MaxSequence + 1
    /\ Unused(bs, t.sequence)

IInv ==
    /\ Shelf(books, placed, moved)
    /\ nextSeq \in 1 .. (MaxSequence + 1)
    /\ Numbered(books, nextSeq)
    /\ phase \in {"idle", "matching"}
    /\ phase = "matching" => /\ TakerOK(taker, books, nextSeq)
                             /\ Traded(tape) = taker.quantity - taker.remaining
    /\ tape \in Seq(Trade)
    /\ result = NoResult \/ result.status \in SubmitStatus

-----------------------------------------------------------------------------
(* Facts about all the books.                                              *)

(* One book and its histories are replaced by good ones.                   *)
LEMMA ShelfUpdate ==
    ASSUME NEW bs, NEW pl, NEW mv, Shelf(bs, pl, mv), NEW i \in DOMAIN bs,
           NEW c, NEW x, NEW m, GoodBook(c, x, m)
    PROVE  Shelf([bs EXCEPT ![i] = c], [pl EXCEPT ![i] = x], [mv EXCEPT ![i] = m])
  <1>1. x \in Seq(OrderId) /\ m \in SUBSET OrderId /\ i \in Instrument
    BY DEF Shelf, GoodBook, BookAndHistory
  <1> DEFINE b2 == [bs EXCEPT ![i] = c]
             p2 == [pl EXCEPT ![i] = x]
             m2 == [mv EXCEPT ![i] = m]
  <1>2. p2 \in [Instrument -> Seq(OrderId)] /\ m2 \in [Instrument -> SUBSET OrderId]
    BY <1>1 DEF Shelf
  <1>3. DOMAIN b2 = DOMAIN bs /\ b2[i] = c /\ p2[i] = x /\ m2[i] = m
    BY <1>1 DEF Shelf
  <1>4. \A j \in Instrument : j # i => p2[j] = pl[j] /\ m2[j] = mv[j]
    BY DEF Shelf
  <1>5. \A j \in DOMAIN bs : j # i => b2[j] = bs[j]
    OBVIOUS
  <1> HIDE DEF b2, p2, m2
  <1>6. ASSUME NEW j \in DOMAIN b2 PROVE GoodBook(b2[j], p2[j], m2[j])
    BY <1>3, <1>4, <1>5 DEF Shelf
  <1>7. Shelf(b2, p2, m2)
    BY <1>1, <1>2, <1>3, <1>4, <1>6 DEF Shelf
  <1> QED BY <1>7 DEF b2, p2, m2

(* Every order of the books cs was in the same book of bs.                 *)
Inherited(cs, bs) ==
    \A i \in DOMAIN cs : \A id \in Live(cs[i]) :
        /\ i \in DOMAIN bs
        /\ id \in Live(bs[i])
        /\ cs[i].index[id].sequence = bs[i].index[id].sequence

(* One book keeps only orders that it had.                                 *)
LEMMA InheritedUpdate ==
    ASSUME NEW bs, NEW i \in DOMAIN bs, NEW c, Inherits(c, bs[i])
    PROVE  Inherited([bs EXCEPT ![i] = c], bs)
  BY DEF Inherited, Inherits

(* The sequence number of a live order is a number.                        *)
LEMMA SequenceType ==
    ASSUME NEW bs, NEW pl, NEW mv, Shelf(bs, pl, mv),
           NEW i \in DOMAIN bs, NEW id \in Live(bs[i])
    PROVE  bs[i].index[id].sequence \in Nat
  <1>1. IsBook(bs[i])
    BY DEF Shelf, GoodBook, BookAndHistory, BookOK
  <1>2. bs[i].index[id] \in Order
    BY <1>1, LiveOrder
  <1> QED BY <1>2 DEF Order

(* Sequence numbers stay distinct while no order is added.                 *)
LEMMA NumberedKept ==
    ASSUME NEW bs, NEW pl, NEW mv, Shelf(bs, pl, mv), NEW cs, Inherited(cs, bs),
           NEW n \in Nat, NEW m \in Nat, n <= m, Numbered(bs, n)
    PROVE  /\ Numbered(cs, m)
           /\ \A k : Unused(bs, k) => Unused(cs, k)
  <1>1. ASSUME NEW i \in DOMAIN cs, NEW id \in Live(cs[i])
        PROVE  cs[i].index[id].sequence < m
    <2>1. /\ i \in DOMAIN bs /\ id \in Live(bs[i])
          /\ cs[i].index[id].sequence = bs[i].index[id].sequence
      BY DEF Inherited
    <2>2. bs[i].index[id].sequence \in Nat /\ bs[i].index[id].sequence < n
      BY <2>1, SequenceType DEF Numbered
    <2> QED BY <2>1, <2>2
  <1>2. ASSUME NEW i \in DOMAIN cs, NEW j \in DOMAIN cs,
               NEW id \in Live(cs[i]), NEW other \in Live(cs[j]),
               cs[i].index[id].sequence = cs[j].index[other].sequence
        PROVE  i = j /\ id = other
    BY <1>2 DEF Inherited, Numbered
  <1>3. ASSUME NEW k, Unused(bs, k) PROVE Unused(cs, k)
    BY <1>3 DEF Inherited, Unused
  <1>4. Unused(cs, 0)
    BY <1>3 DEF Numbered
  <1> QED BY <1>1, <1>2, <1>3, <1>4 DEF Numbered

-----------------------------------------------------------------------------
(* What was traded.                                                        *)

(* Before the first trade.                                                 *)
LEMMA TradedNothing == Traded(<< >>) = 0
  <1> DEFINE g == [k \in DOMAIN << >> |-> << >>[k].quantity]
  <1>1. DOMAIN g = {}
    OBVIOUS
  <1>2. Traded(<< >>) = SumFunctionOnSet(g, DOMAIN g)
    BY DEF Traded, SumFunction
  <1> HIDE DEF g
  <1> QED BY <1>1, <1>2, SumEmpty

(* A trade adds its quantity.                                              *)
LEMMA TradedMore ==
    ASSUME NEW tp \in Seq(Trade), NEW t \in Trade
    PROVE  Traded(Append(tp, t)) = Traded(tp) + t.quantity
  <1> DEFINE n == Len(tp)
             u == Append(tp, t)
             g == [k \in 1 .. n |-> tp[k].quantity]
             h == [k \in 1 .. (n + 1) |-> u[k].quantity]
  <1>1. n \in Nat /\ DOMAIN tp = 1 .. n /\ DOMAIN u = 1 .. (n + 1)
    OBVIOUS
  <1>2. u[n + 1] = t /\ \A k \in 1 .. n : u[k] = tp[k] /\ tp[k] \in Trade
    OBVIOUS
  <1>3. /\ Traded(tp) = SumFunctionOnSet(g, 1 .. n)
        /\ Traded(u) = SumFunctionOnSet(h, 1 .. (n + 1))
    BY <1>1 DEF Traded, SumFunction
  <1>4. \A r \in Trade : r.quantity \in Int
    BY BookAssumption DEF Trade, Quantity
  <1> HIDE DEF u
  <1>5. /\ \A k \in 1 .. n : g[k] \in Int /\ h[k] = g[k]
        /\ h[n + 1] = t.quantity /\ t.quantity \in Int
        /\ \A k \in 1 .. (n + 1) : h[k] \in Int
    <2>1. \A k \in 1 .. (n + 1) : k = n + 1 \/ k \in 1 .. n
      BY <1>1
    <2> QED BY <1>1, <1>2, <1>4, <2>1
  <1> DEFINE C == 1 .. n
             D == 1 .. (n + 1)
             m == n + 1
  <1>6. IsFiniteSet(C) /\ IsFiniteSet(D)
    BY <1>1, FS_Interval
  <1>7. D \ {m} = C /\ m \in D
    BY <1>1
  <1>8. /\ \A k \in C : g[k] \in Int /\ g[k] = h[k]
        /\ \A k \in D : h[k] \in Int
        /\ h[m] = t.quantity
    BY <1>5
  <1>9. Traded(tp) = SumFunctionOnSet(g, C) /\ Traded(u) = SumFunctionOnSet(h, D)
    BY <1>3
  <1> HIDE DEF g, h, n, m, C, D
  <1>10. \A x \in D : SumFunctionOnSet(h, D) = h[x] + SumFunctionOnSet(h, D \ {x})
    BY <1>6, <1>8, SumInt
  <1>11. SumFunctionOnSet(h, D) = t.quantity + SumFunctionOnSet(h, C)
    BY <1>7, <1>8, <1>10
  <1>12. SumFunctionOnSet(g, C) = SumFunctionOnSet(h, C)
    BY <1>6, <1>8, SumSame
  <1>13. SumFunctionOnSet(g, C) \in Int
    BY <1>6, <1>8, SumInt
  <1> QED BY <1>5, <1>9, <1>11, <1>12, <1>13 DEF u

-----------------------------------------------------------------------------
(* The match loop.                                                         *)

(* Where the loop can match, the maker is the front order of the best      *)
(* opposite level, and the quantity of the trade is positive and not more  *)
(* than either side has left.                                              *)
LEMMA MatchFacts ==
    ASSUME IInv, phase = "matching", CanMatch
    PROVE  LET b   == TakerBook
               opp == Opposite(taker.side)
               id  == BestOrder(b, opp)
               q   == MatchQuantity(b.index[id])
           IN  /\ opp \in Side
               /\ b.ladder[opp] # {}
               /\ BookOK(b)
               /\ IsFront(b, id)
               /\ b.index[id].side = opp
               /\ b.index[id].price = BestPrice(b, opp)
               /\ q \in Quantity
               /\ q <= taker.remaining
  <1> DEFINE b   == TakerBook
             opp == Opposite(taker.side)
             id  == BestOrder(b, opp)
  <1>1. taker \in Taker /\ taker.instrument \in DOMAIN books
    BY DEF IInv, TakerOK
  <1>2. opp \in Side
    BY DEF Opposite, Side
  <1>3. BookOK(b)
    BY <1>1 DEF IInv, Shelf, GoodBook, BookAndHistory, TakerBook
  <1>4. b.ladder[opp] # {}
    BY DEF CanMatch, BestPrice
  <1> HIDE DEF b, opp
  <1>5. IsFront(b, id) /\ b.index[id].side = opp /\ b.index[id].price = BestPrice(b, opp)
    BY <1>2, <1>3, <1>4, BestOrderIsFront
  <1> HIDE DEF id
  <1>6. b.index[id].remaining \in Quantity
    BY <1>3, <1>5 DEF BookOK, OrdersOpen, IsFront
  <1>7. taker.remaining \in 0 .. MaxQuantity /\ taker.remaining > 0
    BY <1>1 DEF CanMatch, Taker
  <1>8. /\ MatchQuantity(b.index[id]) \in Quantity
        /\ MatchQuantity(b.index[id]) <= taker.remaining
    BY <1>6, <1>7, BookAssumption DEF MatchQuantity, Quantity
  <1> QED BY <1>2, <1>3, <1>4, <1>5, <1>8 DEF b, opp, id

(* Where the loop has ended with something left of a limit order, no       *)
(* opposite order crosses it.                                              *)
LEMMA MatchedClears ==
    ASSUME IInv, phase = "matching", ~ CanMatch,
           taker.remaining > 0, taker.type = "Limit"
    PROVE  Clears(TakerBook, taker.side, taker.price)
  <1> DEFINE b   == TakerBook
             opp == Opposite(taker.side)
             tp  == taker.price
  <1>1. /\ taker.side \in Side /\ taker.price \in Price
        /\ taker.instrument \in DOMAIN books
    BY DEF IInv, TakerOK, Taker
  <1>2. opp \in Side
    BY DEF Opposite, Side
  <1>3. BookOK(b) /\ IsBook(b) /\ QueuesByContent(b)
    BY <1>1, ByContent DEF IInv, Shelf, GoodBook, BookAndHistory, TakerBook, BookOK
  <1>4. /\ taker.type = "Limit" /\ taker.remaining > 0
        /\ \/ BestPrice(b, opp) = NoPrice
           \/ ~ Crosses(taker.side, tp, BestPrice(b, opp))
           \/ BestOrder(b, opp) = 0
    BY DEF CanMatch
  <1> HIDE DEF b, opp
  <1> SUFFICES ASSUME NEW id \in Live(b), b.index[id].side = opp,
                      Crosses(taker.side, tp, b.index[id].price)
               PROVE  FALSE
    BY DEF Clears, b, opp
  <1> DEFINE p == b.index[id].price
             best == BestPrice(b, opp)
  <1>5. p \in Price /\ Holds(b.queue[opp][p], id)
    BY <1>3, LiveOrder DEF QueuesByContent
  <1>6. b.queue[opp][p] # << >>
    <2>1. \E k \in DOMAIN b.queue[opp][p] : TRUE
      BY <1>5 DEF Holds
    <2> QED BY <2>1
  <1>7. p \in b.ladder[opp]
    BY <1>2, <1>3, <1>5, <1>6 DEF QueuesByContent
  <1>8. /\ best \in Price /\ best # NoPrice
        /\ p = best \/ Better(opp, best, p)
    BY <1>2, <1>3, <1>7, BestPriceIsBest
  <1>9. BestOrder(b, opp) # 0
    BY <1>2, <1>3, <1>7, BestOrderIsFront
  <1>10. ~ Crosses(taker.side, tp, best)
    BY <1>4, <1>8, <1>9
  <1>11. Crosses(taker.side, tp, p)
    OBVIOUS
  <1>12. tp \in Int /\ p \in Int /\ best \in Int
    BY <1>1, <1>5, <1>8, BookAssumption DEF Price
  <1> HIDE DEF p, best, tp
  <1> QED BY <1>1, <1>8, <1>10, <1>11, <1>12 DEF Crosses, Better, Opposite, Side, opp

-----------------------------------------------------------------------------
(* The invariant is inductive.                                             *)

LEMMA InitIInv == Init => IInv
  <1> SUFFICES ASSUME Init PROVE IInv
    OBVIOUS
  <1>1. DOMAIN books = {}
    BY DEF Init
  <1>2. Shelf(books, placed, moved)
    BY <1>1 DEF Init, Shelf
  <1>3. Numbered(books, nextSeq)
    BY <1>1 DEF Numbered, Unused
  <1>4. nextSeq \in 1 .. (MaxSequence + 1)
    BY EngineAssumption DEF Init
  <1> QED BY <1>2, <1>3, <1>4 DEF Init, IInv

(* Between submissions, an operation on the books that adds no order.      *)
LEMMA BooksIInv ==
    ASSUME IInv, Idle, NoSubmission, nextSeq' = nextSeq,
           Shelf(books', placed', moved'), Inherited(books', books)
    PROVE  IInv'
  <1>1. nextSeq \in Nat
    BY EngineAssumption DEF IInv
  <1>2. Numbered(books', nextSeq)
    BY <1>1, NumberedKept DEF IInv
  <1>3. phase' = "idle" /\ tape' = << >> /\ result' = NoResult
    BY DEF Idle, NoSubmission
  <1> QED BY <1>2, <1>3 DEF IInv

(* Such an operation on one book.                                          *)
LEMMA OneBookIInv ==
    ASSUME IInv, Idle, NoSubmission, nextSeq' = nextSeq, NEW i \in DOMAIN books,
           NEW c, NEW x, NEW m, GoodBook(c, x, m), Inherits(c, books[i]),
           books' = [books EXCEPT ![i] = c],
           placed' = [placed EXCEPT ![i] = x],
           moved' = [moved EXCEPT ![i] = m]
    PROVE  IInv'
  <1>1. Shelf(books', placed', moved')
    BY ShelfUpdate DEF IInv
  <1>2. Inherited(books', books)
    BY InheritedUpdate
  <1> QED BY <1>1, <1>2, BooksIInv

(* register_instrument.                                                    *)
LEMMA RegisterIInv ==
    ASSUME IInv, NEW i \in Instrument, RegisterInstrument(i)
    PROVE  IInv'
  <1>1. /\ DOMAIN books' = DOMAIN books \cup {i}
        /\ \A j \in DOMAIN books : books'[j] = books[j]
        /\ i \notin DOMAIN books => books'[i] = EmptyBook
        /\ placed' = placed /\ moved' = moved
    BY DEF RegisterInstrument
  <1>2. ASSUME NEW j \in DOMAIN books', j \notin DOMAIN books
        PROVE  /\ books'[j] = EmptyBook /\ placed[j] = << >>
               /\ j \in Instrument
    BY <1>1, <1>2 DEF IInv, Shelf
  <1>3. ASSUME NEW j \in DOMAIN books'
        PROVE  GoodBook(books'[j], placed[j], moved[j])
    <2>1. CASE j \in DOMAIN books
      BY <2>1, <1>1 DEF IInv, Shelf
    <2>2. CASE j \notin DOMAIN books
      <3>1. moved[j] \subseteq OrderId
        BY <2>2, <1>2 DEF IInv, Shelf
      <3>2. CrossingsMoved(EmptyBook, << >>, moved[j])
        BY EmptyHistory DEF CrossingsMoved
      <3> QED BY <2>2, <3>1, <3>2, <1>2, EmptyHistory DEF GoodBook
    <2> QED BY <2>1, <2>2
  <1>4. Shelf(books', placed', moved')
    BY <1>1, <1>3 DEF IInv, Shelf
  <1>5. Inherited(books', books)
    BY <1>1, <1>2, EmptyHistory DEF Inherited
  <1> QED BY <1>4, <1>5, BooksIInv DEF RegisterInstrument

(* unregister_instrument.                                                  *)
LEMMA UnregisterIInv ==
    ASSUME IInv, NEW i \in Instrument, UnregisterInstrument(i)
    PROVE  IInv'
  <1>1. /\ DOMAIN books' = DOMAIN books \ {i}
        /\ \A j \in DOMAIN books' : books'[j] = books[j]
    BY DEF UnregisterInstrument
  <1>2. /\ placed' = [placed EXCEPT ![i] = << >>]
        /\ moved' = [moved EXCEPT ![i] = {}]
    BY DEF UnregisterInstrument
  <1>3. /\ placed' \in [Instrument -> Seq(OrderId)]
        /\ moved' \in [Instrument -> SUBSET OrderId]
        /\ placed'[i] = << >>
        /\ \A j \in Instrument : j # i => placed'[j] = placed[j] /\ moved'[j] = moved[j]
    BY <1>2 DEF IInv, Shelf
  <1>4. ASSUME NEW j \in DOMAIN books'
        PROVE  GoodBook(books'[j], placed'[j], moved'[j])
    BY <1>1, <1>3 DEF IInv, Shelf
  <1>5. \A j \in Instrument \ DOMAIN books' : placed'[j] = << >>
    BY <1>1, <1>3 DEF IInv, Shelf
  <1>6. Shelf(books', placed', moved')
    BY <1>1, <1>3, <1>4, <1>5 DEF IInv, Shelf
  <1>7. Inherited(books', books)
    BY <1>1 DEF Inherited
  <1> QED BY <1>6, <1>7, BooksIInv DEF UnregisterInstrument

(* clear: with the orders gone, the counter may restart.                   *)
LEMMA ClearIInv ==
    ASSUME IInv, Clear
    PROVE  IInv'
  <1>1. DOMAIN books' = {}
    BY DEF Clear
  <1>2. Shelf(books', placed', moved')
    BY <1>1 DEF Clear, Shelf
  <1>3. Numbered(books', nextSeq')
    BY <1>1 DEF Numbered, Unused
  <1>4. nextSeq' \in 1 .. (MaxSequence + 1)
    BY EngineAssumption DEF Clear
  <1>5. phase' = "idle" /\ tape' = << >> /\ result' = NoResult
    BY DEF Clear, Idle, NoSubmission
  <1> QED BY <1>2, <1>3, <1>4, <1>5 DEF IInv

(* A refused submission changes only what is reported.                     *)
LEMMA RefusedIInv ==
    ASSUME IInv, NEW id, SubmitRefused(id) \/ SubmitNull
    PROVE  IInv'
  <1>1. result'.status = "Rejected" /\ tape' = << >>
    BY DEF SubmitRefused, SubmitNull, Report
  <1>2. UNCHANGED << books, nextSeq, phase, taker, placed, moved >>
    BY DEF SubmitRefused, SubmitNull
  <1>3. tape' \in Seq(Trade) /\ result'.status \in SubmitStatus
    BY <1>1 DEF SubmitStatus
  <1>4. phase' = "idle"
    BY <1>2 DEF SubmitRefused, SubmitNull, Idle
  <1> QED BY <1>2, <1>3, <1>4 DEF IInv

(* What the engine needs of a request, from a client or from a replay.     *)
RequestOK(r) ==
    /\ r.id \in OrderId \cup {0}
    /\ r.side \in Side
    /\ r.type \in {"Limit", "Market"}
    /\ r.tif \in {"GTC", "IOC", "FOK"}
    /\ r.price \in Price \cup {NoPrice}
    /\ r.trader \in TraderId \cup {0}

(* Clients make such requests.                                             *)
LEMMA ClientRequest ==
    ASSUME NEW r \in Request PROVE RequestOK(r)
  BY EngineAssumption DEF Request, RequestOK

(* A submission that passes the checks takes a number no order has.        *)
LEMMA SubmitIInv ==
    ASSUME IInv, NEW r, RequestOK(r), Submit(r)
    PROVE  IInv'
  <1>0. nextSeq \in Nat /\ nextSeq >= 1 /\ MaxSequence \in Nat
    BY EngineAssumption DEF IInv
  <1>1. /\ r.quantity \in Quantity /\ r.instrument \in DOMAIN books
        /\ r.type = "Limit" => r.price \in Price
        /\ nextSeq + r.quantity <= MaxSequence
    BY DEF Submit, Valid
  <1>2. r.quantity \in Nat /\ r.quantity >= 1 /\ r.quantity \in 0 .. MaxQuantity
    BY <1>1, BookAssumption DEF Quantity
  <1>3. AssignedId(r.id) \in OrderId
    <2>1. nextSeq \in 1 .. MaxSequence
      BY <1>0, <1>1, <1>2
    <2>2. r.id \in OrderId \cup {0}
      BY DEF RequestOK
    <2> QED BY <2>1, <2>2, EngineAssumption DEF AssignedId
  <1>4. /\ taker' = [id |-> AssignedId(r.id), instrument |-> r.instrument,
                     side |-> r.side, type |-> r.type, tif |-> r.tif,
                     price |-> r.price, quantity |-> r.quantity,
                     remaining |-> r.quantity, trader |-> r.trader,
                     sequence |-> nextSeq]
        /\ nextSeq' = nextSeq + 1
        /\ phase' = "matching" /\ tape' = << >> /\ result' = NoResult
        /\ books' = books /\ placed' = placed /\ moved' = moved
    BY DEF Submit
  <1>5. /\ r.side \in Side /\ r.type \in {"Limit", "Market"}
        /\ r.tif \in {"GTC", "IOC", "FOK"}
        /\ r.price \in Price \cup {NoPrice} /\ r.trader \in TraderId \cup {0}
        /\ r.instrument \in Instrument
    BY <1>1 DEF RequestOK, IInv, Shelf
  <1>6. taker' \in Taker
    BY <1>0, <1>1, <1>2, <1>3, <1>4, <1>5 DEF Taker
  <1>7. Unused(books, nextSeq)
    <2> SUFFICES ASSUME NEW i \in DOMAIN books, NEW id \in Live(books[i]),
                        books[i].index[id].sequence = nextSeq
                 PROVE  FALSE
      BY DEF Unused
    <2>1. books[i].index[id].sequence < nextSeq
      BY DEF IInv, Numbered
    <2> QED BY <2>1, <1>0
  <1>8. TakerOK(taker', books', nextSeq')
    BY <1>0, <1>1, <1>2, <1>4, <1>6, <1>7 DEF TakerOK
  <1>9. Numbered(books', nextSeq')
    <2>1. Inherited(books, books)
      BY DEF Inherited
    <2>2. nextSeq <= nextSeq + 1 /\ nextSeq + 1 \in Nat
      BY <1>0
    <2>3. Numbered(books, nextSeq + 1)
      BY <1>0, <2>1, <2>2, NumberedKept DEF IInv
    <2> QED BY <1>4, <2>3
  <1>10. nextSeq' \in 1 .. (MaxSequence + 1) /\ tape' \in Seq(Trade)
    BY <1>0, <1>1, <1>2, <1>4
  <1>11. Shelf(books', placed', moved')
    BY <1>4 DEF IInv
  <1>12. Traded(tape') = taker'.quantity - taker'.remaining
    BY <1>2, <1>4, TradedNothing
  <1> QED BY <1>4, <1>8, <1>9, <1>10, <1>11, <1>12 DEF IInv

(* A turn of the match loop.                                               *)
LEMMA MatchIInv ==
    ASSUME IInv, MatchStep
    PROVE  IInv'
  <1> DEFINE opp == Opposite(taker.side)
             i   == taker.instrument
             b   == TakerBook
             id  == BestOrder(b, opp)
             q   == MatchQuantity(b.index[id])
             e   == Consumes(b, id, q)
             c   == FillOrder(b, id, q)
             x   == IF e THEN Unlink(placed[i], id) ELSE placed[i]
             m   == IF e THEN moved[i] \ {id} ELSE moved[i]
  <1>1. phase = "matching" /\ CanMatch /\ TakerOK(taker, books, nextSeq)
    BY DEF MatchStep, IInv
  <1>2. /\ opp \in Side /\ b.ladder[opp] # {} /\ IsFront(b, id) /\ BookOK(b)
        /\ b.index[id].price = BestPrice(b, opp)
        /\ q \in Quantity /\ q <= taker.remaining
    BY <1>1, MatchFacts
  <1>3. q \in Int /\ q >= 1
    BY <1>2, BookAssumption DEF Quantity
  <1>4. i \in DOMAIN books /\ i \in Instrument /\ taker \in Taker
        /\ b = books[i] /\ GoodBook(b, placed[i], moved[i])
    BY <1>1 DEF TakerOK, IInv, Shelf, TakerBook
  <1>5. /\ books' = [books EXCEPT ![i] = c]
        /\ placed' = [placed EXCEPT ![i] = x]
        /\ moved' = [moved EXCEPT ![i] = m]
        /\ taker' = [taker EXCEPT !.remaining = taker.remaining - q]
    BY <1>4 DEF MatchStep, TakerBook
  <1>6. /\ nextSeq' = nextSeq + 1 /\ phase' = phase /\ result' = result
    BY DEF MatchStep
  <1>7. PICK tr \in TraderRead(b.index[id], e) :
           tape' = Append(tape, [id |-> nextSeq, maker |-> id, trader |-> tr,
                                 price |-> BestPrice(b, opp), quantity |-> q,
                                 sequence |-> taker.sequence])
    BY DEF MatchStep
  <1>8. /\ id \in OrderId /\ b.index[id].trader \in TraderId \cup {0}
        /\ BestPrice(b, opp) \in Price
    <2>1. IsBook(b) /\ id \in Live(b)
      BY <1>2 DEF BookOK, IsFront
    <2>2. id \in OrderId /\ b.index[id] \in Order
      BY <2>1, LiveOrder
    <2> QED BY <2>1, <2>2, <1>2, BestPriceIsBest DEF Order
  <1>9. tr \in TraderId \cup {Garbage}
    BY <1>7, <1>8 DEF TraderRead, Garbage
  <1>10. nextSeq \in Nat /\ MaxSequence \in Nat /\ taker.sequence \in Nat
         /\ taker.remaining \in 0 .. MaxQuantity /\ taker.quantity \in Nat
         /\ taker.sequence < nextSeq /\ taker.remaining <= taker.quantity
         /\ nextSeq + taker.remaining <= MaxSequence + 1
    BY <1>1, <1>4, EngineAssumption, BookAssumption DEF IInv, TakerOK, Taker, Quantity
  <1> HIDE DEF opp, b, id, q, e
  <1>11. tape' \in Seq(Trade) /\ Traded(tape') = Traded(tape) + q
    <2> DEFINE tt == [id |-> nextSeq, maker |-> id, trader |-> tr,
                      price |-> BestPrice(b, opp), quantity |-> q,
                      sequence |-> taker.sequence]
    <2>1. tt \in Trade
      BY <1>2, <1>8, <1>9, <1>10 DEF Trade
    <2>2. tape' = Append(tape, tt)
      BY <1>7
    <2>3. tt.quantity = q
      OBVIOUS
    <2> HIDE DEF tt
    <2>4. tape \in Seq(Trade)
      BY DEF IInv
    <2>5. Traded(tape') = Traded(tape) + q
      BY <2>1, <2>2, <2>3, <2>4, TradedMore
    <2> QED BY <2>1, <2>2, <2>4, <2>5
  <1>12. GoodBook(c, x, m) /\ Inherits(c, b)
    BY <1>2, <1>3, <1>4, FillBook DEF e
  <1> HIDE DEF c, x, m
  <1>13. Shelf(books', placed', moved')
    BY <1>4, <1>5, <1>12, ShelfUpdate DEF IInv
  <1>14. Inherited(books', books) /\ DOMAIN books' = DOMAIN books
    BY <1>4, <1>5, <1>12, InheritedUpdate
  <1>15. Numbered(books', nextSeq') /\ Unused(books', taker.sequence)
    <2>1. nextSeq <= nextSeq + 1 /\ nextSeq + 1 \in Nat
      BY <1>10
    <2>2. /\ Numbered(books', nextSeq + 1)
          /\ \A k : Unused(books, k) => Unused(books', k)
      BY <1>10, <1>14, <2>1, NumberedKept DEF IInv
    <2> QED BY <1>1, <1>6, <2>2 DEF TakerOK
  <1>16. /\ taker' \in Taker
         /\ taker'.remaining = taker.remaining - q
         /\ taker'.instrument = i /\ taker'.quantity = taker.quantity
         /\ taker'.type = taker.type /\ taker'.price = taker.price
         /\ taker'.sequence = taker.sequence
    <2>1. taker.remaining - q \in 0 .. MaxQuantity
      BY <1>2, <1>3, <1>10, BookAssumption
    <2> QED BY <2>1, <1>4, <1>5 DEF Taker
  <1>17. TakerOK(taker', books', nextSeq')
    <2>1. taker'.remaining <= taker'.quantity /\ taker'.sequence < nextSeq'
          /\ nextSeq' + taker'.remaining <= MaxSequence + 1
      BY <1>3, <1>6, <1>10, <1>16
    <2>2. taker'.type = "Limit" => taker'.price \in Price
      BY <1>1, <1>16 DEF TakerOK
    <2> QED BY <2>1, <2>2, <1>4, <1>14, <1>15, <1>16 DEF TakerOK
  <1>18. nextSeq' \in 1 .. (MaxSequence + 1)
    BY <1>2, <1>3, <1>6, <1>10
  <1>19. Traded(tape') = taker'.quantity - taker'.remaining
    <2>1. Traded(tape) = taker.quantity - taker.remaining
      BY <1>1 DEF IInv
    <2> QED BY <2>1, <1>3, <1>10, <1>11, <1>16
  <1> QED BY <1>6, <1>11, <1>13, <1>15, <1>17, <1>18, <1>19 DEF IInv

(* A submission that leaves nothing in the book.                           *)
LEMMA FinishIInv ==
    ASSUME IInv, NEW st \in SubmitStatus, NEW f, NEW rest, Finish(st, f, rest),
           UNCHANGED << books, placed, moved >>
    PROVE  IInv'
  BY DEF Finish, Report, IInv

(* The rest of a limit order comes to rest, where no opposite order        *)
(* crosses it, or its id is live and nothing changes.                      *)
LEMMA RestIInv ==
    ASSUME IInv, FinishRest
    PROVE  IInv' /\ (Sound => Sound')
  <1> DEFINE i  == taker.instrument
             b  == TakerBook
             o  == [side |-> taker.side, price |-> taker.price,
                    remaining |-> taker.remaining, status |-> "Open",
                    trader |-> taker.trader, sequence |-> taker.sequence]
             ok == InsertOK(b, taker.id, o)
             c  == IF ok THEN InsertOrder(b, taker.id, o) ELSE b
             x  == IF ok THEN Append(placed[i], taker.id) ELSE placed[i]
  <1>1. /\ phase = "matching" /\ ~ CanMatch /\ taker.remaining > 0
        /\ taker.type = "Limit" /\ TakerOK(taker, books, nextSeq) /\ Sound
    BY DEF FinishRest, Matched, IInv
  <1>2. /\ i \in DOMAIN books /\ i \in Instrument /\ b = books[i]
        /\ GoodBook(b, placed[i], moved[i]) /\ ~ b.corrupt
    BY <1>1 DEF TakerOK, IInv, Shelf, TakerBook, Sound
  <1>3. Clears(b, taker.side, taker.price)
    BY <1>1, MatchedClears
  <1>4. /\ taker.id \in OrderId /\ o \in Order /\ IsOpen(o)
        /\ o.side = taker.side /\ o.price = taker.price /\ o.sequence = taker.sequence
    BY <1>1 DEF TakerOK, Taker, Order, IsOpen
  <1>5. /\ books' = [books EXCEPT ![i] = c]
        /\ placed' = [placed EXCEPT ![i] = x]
        /\ moved' = moved
        /\ phase' = "idle" /\ nextSeq' = nextSeq /\ tape' = tape
        /\ result'.status \in {"Accepted", "Rejected"}
    BY <1>2 DEF FinishRest, Finish, Report, TakerBook
  <1>6. moved' = [moved EXCEPT ![i] = moved[i]]
    BY <1>2, <1>5 DEF IInv, Shelf
  <1> HIDE DEF b, o
  <1>7. CASE ok
    <2>1. /\ GoodBook(c, x, moved[i]) /\ ~ c.corrupt
          /\ Live(c) = Live(b) \cup {taker.id}
          /\ c.index[taker.id] = o
          /\ \A y \in Live(b) : c.index[y] = b.index[y]
      BY <1>2, <1>3, <1>4, <1>7, InsertBook
    <2> HIDE DEF c, x
    <2>2. Shelf(books', placed', moved')
      <3>1. Shelf(books, placed, moved)
        BY DEF IInv
      <3>2. Shelf([books EXCEPT ![i] = c], [placed EXCEPT ![i] = x],
                  [moved EXCEPT ![i] = moved[i]])
        BY <1>2, <2>1, <3>1, ShelfUpdate
      <3> QED BY <1>5, <1>6, <3>2, Zenon
    <2>3. /\ DOMAIN books' = DOMAIN books /\ books'[i] = c
          /\ \A j \in DOMAIN books : j # i => books'[j] = books[j]
      BY <1>2, <1>5
    <2>4. ASSUME NEW j \in DOMAIN books', NEW y \in Live(books'[j])
          PROVE  \/ /\ y \in Live(books[j])
                    /\ books'[j].index[y].sequence = books[j].index[y].sequence
                 \/ /\ j = i /\ y = taker.id
                    /\ books'[j].index[y].sequence = taker.sequence
      BY <1>2, <1>4, <2>1, <2>3
    <2>5. Unused(books, taker.sequence) /\ taker.sequence < nextSeq
      BY <1>1 DEF TakerOK
    <2>6. Numbered(books', nextSeq)
      <3>1. ASSUME NEW j \in DOMAIN books', NEW y \in Live(books'[j])
            PROVE  books'[j].index[y].sequence < nextSeq
        BY <2>3, <2>4, <2>5 DEF IInv, Numbered
      <3>2. ASSUME NEW j \in DOMAIN books', NEW k \in DOMAIN books',
                   NEW y \in Live(books'[j]), NEW z \in Live(books'[k]),
                   books'[j].index[y].sequence = books'[k].index[z].sequence
            PROVE  j = k /\ y = z
        BY <3>2, <2>3, <2>4, <2>5 DEF IInv, Numbered, Unused
      <3>3. Unused(books', 0)
        BY <1>1, <2>3, <2>4 DEF IInv, Numbered, Unused, TakerOK, Taker
      <3> QED BY <3>1, <3>2, <3>3 DEF Numbered
    <2>7. Sound'
      BY <1>1, <2>1, <2>3 DEF Sound
    <2>8. result'.status \in SubmitStatus
      BY <1>5 DEF SubmitStatus
    <2> QED BY <1>5, <2>2, <2>6, <2>7, <2>8 DEF IInv
  <1>8. CASE ~ ok
    <2>1. books' = [books EXCEPT ![i] = books[i]] /\ placed' = [placed EXCEPT ![i] = placed[i]]
      BY <1>2, <1>5, <1>8
    <2>2. Shelf(books', placed', moved')
      <3>1. Shelf(books, placed, moved) /\ GoodBook(books[i], placed[i], moved[i])
        BY <1>2 DEF IInv
      <3>2. Shelf([books EXCEPT ![i] = books[i]], [placed EXCEPT ![i] = placed[i]],
                  [moved EXCEPT ![i] = moved[i]])
        BY <1>2, <3>1, ShelfUpdate
      <3> QED BY <1>6, <2>1, <3>2, Zenon
    <2>3. Inherited(books', books)
      BY <2>1 DEF Inherited
    <2>4. nextSeq \in Nat
      BY EngineAssumption DEF IInv
    <2>5. Numbered(books', nextSeq)
      BY <2>3, <2>4, NumberedKept DEF IInv
    <2>6. Sound'
      BY <1>1, <2>1 DEF Sound
    <2>7. result'.status \in SubmitStatus
      BY <1>5 DEF SubmitStatus
    <2> QED BY <1>5, <2>2, <2>5, <2>6, <2>7 DEF IInv
  <1> QED BY <1>7, <1>8

(* cancel.                                                                 *)
LEMMA CancelIInv ==
    ASSUME IInv, NEW i \in Instrument, NEW id \in OrderId, Cancel(i, id)
    PROVE  IInv'
  <1> DEFINE b == books[i]
             c == CancelOrder(b, id)
  <1>1. /\ Idle /\ NoSubmission /\ nextSeq' = nextSeq /\ i \in DOMAIN books
        /\ CancelOK(b, id)
        /\ books' = [books EXCEPT ![i] = c]
        /\ placed' = [placed EXCEPT ![i] = Unlink(placed[i], id)]
        /\ moved' = [moved EXCEPT ![i] = moved[i] \ {id}]
    BY DEF Cancel
  <1>2. GoodBook(b, placed[i], moved[i])
    BY <1>1 DEF IInv, Shelf
  <1>3. GoodBook(c, Unlink(placed[i], id), moved[i] \ {id}) /\ Inherits(c, b)
    BY <1>1, <1>2, CancelBook
  <1> QED BY <1>1, <1>3, OneBookIInv

(* A book whose orders keep their places.                                  *)
LEMMA InPlaceIInv ==
    ASSUME IInv, Idle, NoSubmission, nextSeq' = nextSeq, NEW i \in DOMAIN books,
           NEW c, GoodBook(c, placed[i], moved[i]), Inherits(c, books[i]),
           books' = [books EXCEPT ![i] = c], UNCHANGED << placed, moved >>
    PROVE  IInv'
  <1>1. i \in Instrument
    BY DEF IInv, Shelf
  <1>2. placed = [placed EXCEPT ![i] = placed[i]] /\ moved = [moved EXCEPT ![i] = moved[i]]
    BY <1>1 DEF IInv, Shelf
  <1>3. /\ placed' = [placed EXCEPT ![i] = placed[i]]
        /\ moved' = [moved EXCEPT ![i] = moved[i]]
    BY <1>2
  <1> QED BY <1>3, OneBookIInv

(* reduce.                                                                 *)
LEMMA ReduceIInv ==
    ASSUME IInv, NEW i \in Instrument, NEW id \in OrderId,
           NEW q \in 0 .. MaxQuantity, Reduce(i, id, q)
    PROVE  IInv'
  <1> DEFINE b == books[i]
             c == ShrinkOrder(b, id, q)
  <1>1. /\ Idle /\ NoSubmission /\ nextSeq' = nextSeq /\ i \in DOMAIN books
        /\ id \in Live(b) /\ q > 0
        /\ books' = [books EXCEPT ![i] = c] /\ UNCHANGED << placed, moved >>
    BY DEF Reduce, ReduceOK
  <1>2. GoodBook(b, placed[i], moved[i])
    BY <1>1 DEF IInv, Shelf
  <1>3. q \in Quantity
    BY <1>1, BookAssumption DEF Quantity
  <1>4. GoodBook(c, placed[i], moved[i]) /\ Inherits(c, b)
    BY <1>1, <1>2, <1>3, ShrinkBook
  <1> QED BY <1>1, <1>4, InPlaceIInv

(* modify, in place or by a replacement.                                   *)
LEMMA ModifyIInv ==
    ASSUME IInv, NEW i \in Instrument, NEW id \in OrderId, NEW q, NEW p,
           Modify(i, id, q, p)
    PROVE  IInv'
  <1> DEFINE b == books[i]
             res == ModifyResult(b, id, q, p)
             c == ModifyOrder(b, id, q, p)
  <1>1. /\ Idle /\ NoSubmission /\ nextSeq' = nextSeq /\ i \in DOMAIN books
        /\ res \in {"Modified", "Replaced"}
        /\ books' = [books EXCEPT ![i] = c]
    BY DEF Modify
  <1>2. GoodBook(b, placed[i], moved[i])
    BY <1>1 DEF IInv, Shelf
  <1>3. id \in Live(b) /\ q \in Quantity /\ p \in Price
    BY <1>1 DEF ModifyResult, CancelOK
  <1>4. CASE res = "Modified"
    <2>1. UNCHANGED << placed, moved >>
      BY <1>4 DEF Modify
    <2>2. c = IF q = b.index[id].remaining THEN b ELSE ShrinkOrder(b, id, q)
      BY <1>4 DEF ModifyOrder
    <2>3. GoodBook(c, placed[i], moved[i]) /\ Inherits(c, b)
      <3>1. Inherits(b, b)
        BY DEF Inherits
      <3>2. /\ GoodBook(ShrinkOrder(b, id, q), placed[i], moved[i])
            /\ Inherits(ShrinkOrder(b, id, q), b)
        BY <1>2, <1>3, ShrinkBook
      <3> QED BY <2>2, <3>1, <3>2, <1>2
    <2> QED BY <1>1, <2>1, <2>3, InPlaceIInv
  <1>5. CASE res = "Replaced"
    <2>1. /\ placed' = [placed EXCEPT ![i] = Append(Unlink(placed[i], id), id)]
          /\ moved' = [moved EXCEPT ![i] = moved[i] \cup {id}]
      BY <1>5 DEF Modify
    <2>2. c = ReplaceOrder(b, id, q, p)
      BY <1>5 DEF ModifyOrder
    <2>3. GoodBook(c, Append(Unlink(placed[i], id), id), moved[i] \cup {id}) /\ Inherits(c, b)
      BY <2>2, <1>2, <1>3, ReplaceBook
    <2> QED BY <1>1, <2>1, <2>3, OneBookIInv
  <1> QED BY <1>1, <1>4, <1>5

(* Every step preserves the invariant.                                     *)
LEMMA NextIInv ==
    ASSUME IInv, [Next]_vars
    PROVE  IInv'
  <1>1. CASE UNCHANGED vars
    BY <1>1 DEF vars, IInv
  <1>2. ASSUME NEW i \in Instrument, RegisterInstrument(i) PROVE IInv'
    BY <1>2, RegisterIInv
  <1>3. ASSUME NEW i \in Instrument, UnregisterInstrument(i) PROVE IInv'
    BY <1>3, UnregisterIInv
  <1>4. CASE Clear
    BY <1>4, ClearIInv
  <1>5. CASE SubmitNull
    BY <1>5, RefusedIInv
  <1>6. ASSUME NEW id \in ClientIds \cup {0}, SubmitRefused(id) PROVE IInv'
    BY <1>6, RefusedIInv
  <1>7. ASSUME NEW r \in Request, Submit(r) PROVE IInv'
    BY <1>7, ClientRequest, SubmitIInv
  <1>8. CASE MatchStep
    BY <1>8, MatchIInv
  <1>9. CASE FinishFilled
    BY <1>9, FinishIInv DEF FinishFilled, SubmitStatus
  <1>10. CASE FinishMarket
    BY <1>10, FinishIInv DEF FinishMarket, SubmitStatus
  <1>11. CASE FinishIOC
    BY <1>11, FinishIInv DEF FinishIOC, SubmitStatus
  <1>12. CASE FinishRest
    BY <1>12, RestIInv
  <1>13. ASSUME NEW i \in Instrument, NEW id \in OrderId, Cancel(i, id) PROVE IInv'
    BY <1>13, CancelIInv
  <1>14. ASSUME NEW i \in Instrument, NEW id \in OrderId, NEW q \in 0 .. (MaxQuantity + 1),
                NEW p \in Price \cup {NoPrice}, Modify(i, id, q, p)
         PROVE  IInv'
    BY <1>14, ModifyIInv
  <1>15. ASSUME NEW i \in Instrument, NEW id \in OrderId, NEW q \in 0 .. MaxQuantity,
                Reduce(i, id, q)
         PROVE  IInv'
    BY <1>15, ReduceIInv
  <1> QED BY <1>1, <1>2, <1>3, <1>4, <1>5, <1>6, <1>7, <1>8, <1>9, <1>10, <1>11,
             <1>12, <1>13, <1>14, <1>15 DEF Next

(* The invariant of the engine: good books, distinct sequence numbers, and *)
(* during a submission a taker whose number no resting order has.          *)
THEOREM Invariant == Spec => []IInv
  <1>1. Init => IInv
    BY InitIInv
  <1>2. IInv /\ [Next]_vars => IInv'
    BY NextIInv
  <1> QED BY <1>1, <1>2, PTL DEF Spec

(* In every state a client or a TradeSink can see, every book is           *)
(* consistent, whatever the instruments, ids, prices and quantities.       *)
THEOREM Consistent == Spec => []BooksConsistent
  <1>1. IInv => BooksConsistent
    <2> SUFFICES ASSUME IInv PROVE BooksConsistent
      OBVIOUS
    <2>1. ASSUME NEW i \in DOMAIN books PROVE IsBook(books[i]) /\ QueuesMatchIndex(books[i])
      BY DEF IInv, Shelf, GoodBook, BookAndHistory, BookOK
    <2>2. phase = "matching" => /\ taker.instrument \in DOMAIN books
                                /\ taker.remaining \in 0 .. taker.quantity
      <3>1. phase = "matching" => /\ taker.instrument \in DOMAIN books
                                  /\ taker.remaining \in 0 .. MaxQuantity
                                  /\ taker.quantity \in Quantity
                                  /\ taker.remaining <= taker.quantity
        BY DEF IInv, TakerOK, Taker
      <3> QED BY <3>1, BookAssumption DEF Quantity
    <2> QED BY <2>1, <2>2 DEF BooksConsistent, TypeOK, IInv, Shelf
  <1> QED BY <1>1, Invariant, PTL

(* No two live orders of the engine, in one book or in two, share a        *)
(* sequence number, and the counter is ahead of them, across clear,        *)
(* unregistration and ids that clients choose.                             *)
THEOREM UniqueSequences == Spec => []SequencesDistinct
  <1>1. IInv => SequencesDistinct
    BY DEF IInv, Numbered, SequencesDistinct
  <1> QED BY <1>1, Invariant, PTL

(* No submission leaves a crossed book: of a bid and an ask that cross,    *)
(* the later one was placed by modify.                                     *)
THEOREM Uncrossed == Spec => []CrossedOnlyByModify
  <1>1. IInv => CrossedOnlyByModify
    BY DEF IInv, Shelf, GoodBook, CrossingsMoved, CrossedOnlyByModify, PlacedBefore, Precedes
  <1> QED BY <1>1, Invariant, PTL

(* A fill corrupts no book.                                                *)
LEMMA MatchSound ==
    ASSUME IInv, MatchStep, Sound
    PROVE  Sound'
  <1> DEFINE i  == taker.instrument
             b  == TakerBook
             id == BestOrder(b, Opposite(taker.side))
             q  == MatchQuantity(b.index[id])
             c  == FillOrder(b, id, q)
  <1>1. phase = "matching" /\ CanMatch /\ TakerOK(taker, books, nextSeq)
    BY DEF MatchStep, IInv
  <1>2. IsFront(b, id) /\ q \in Quantity
    BY <1>1, MatchFacts
  <1>3. i \in DOMAIN books /\ b = books[i] /\ GoodBook(b, placed[i], moved[i])
    BY <1>1 DEF TakerOK, IInv, Shelf, TakerBook
  <1>4. books' = [books EXCEPT ![i] = c]
    BY <1>3 DEF MatchStep, TakerBook
  <1>5. q \in Int
    BY <1>2, BookAssumption DEF Quantity
  <1> HIDE DEF b, id, q
  <1>6. c.corrupt <=> b.corrupt
    BY <1>2, <1>3, <1>5, FillBook
  <1> HIDE DEF c
  <1> QED BY <1>3, <1>4, <1>6 DEF Sound

(* A submission frees no Level that a ladder points to: an order rests     *)
(* only where the opposite side has no level at its price.                 *)
THEOREM LevelsKept == Spec => SubmitKeepsLevels
  <1>1. IInv /\ [Next]_vars => [(Sound /\ phase = "matching") => Sound']_vars
    <2> SUFFICES ASSUME IInv, Next, Sound, phase = "matching"
                 PROVE  Sound'
      OBVIOUS
    <2>1. CASE MatchStep
      BY <2>1, MatchSound
    <2>2. CASE FinishRest
      BY <2>2, RestIInv
    <2>3. CASE FinishFilled \/ FinishMarket \/ FinishIOC
      BY <2>3 DEF FinishFilled, FinishMarket, FinishIOC, Sound
    <2> QED BY <2>1, <2>2, <2>3
            DEF Next, RegisterInstrument, UnregisterInstrument, Clear, SubmitNull,
                SubmitRefused, Submit, Cancel, Modify, Reduce, Idle
  <1> QED BY <1>1, Invariant, PTL DEF Spec, SubmitKeepsLevels

(* What a turn of the loop trades: the maker, its price and its place.     *)
LEMMA MatchPriority ==
    ASSUME IInv, MatchStep
    PROVE  LET i == taker.instrument
               b == books[i]
               s == Opposite(taker.side)
               id == BestOrder(b, s)
               p == BestPrice(b, s)
           IN  /\ Last(tape').maker = id
               /\ Last(tape').price = p
               /\ id \in Live(b)
               /\ b.index[id].side = s
               /\ b.index[id].price = p
               /\ taker.type = "Limit" => ~ Better(taker.side, p, taker.price)
               /\ \A other \in {x \in Live(b) : b.index[x].side = s} \ {id} :
                      \/ Better(s, p, b.index[other].price)
                      \/ /\ p = b.index[other].price
                         /\ PlacedBefore(i, id, other)
  <1> DEFINE i == taker.instrument
             b == books[i]
             s == Opposite(taker.side)
             id == BestOrder(b, s)
             p == BestPrice(b, s)
             q == MatchQuantity(b.index[id])
  <1>1. phase = "matching" /\ CanMatch /\ TakerOK(taker, books, nextSeq)
    BY DEF MatchStep, IInv
  <1>2. /\ s \in Side /\ b.ladder[s] # {} /\ BookOK(b) /\ IsFront(b, id)
        /\ b.index[id].side = s /\ b.index[id].price = p
    BY <1>1, MatchFacts DEF TakerBook
  <1>3. BookAndHistory(b, placed[i])
    BY <1>1 DEF IInv, TakerOK, Shelf, GoodBook
  <1>4. /\ IsBook(b) /\ QueuesByContent(b) /\ id \in Live(b)
    BY <1>2, ByContent DEF BookOK, IsFront
  <1>5. PICK tr : tape' = Append(tape, [id |-> nextSeq, maker |-> id, trader |-> tr,
                                        price |-> p, quantity |-> q,
                                        sequence |-> taker.sequence])
    BY DEF MatchStep, TakerBook
  <1>6. taker.type = "Limit" => Crosses(taker.side, taker.price, p)
    BY <1>1 DEF CanMatch, TakerBook
  <1>7. /\ p \in b.ladder[s] /\ p \in Price
        /\ \A r \in b.ladder[s] \ {p} : Better(s, p, r)
    BY <1>2, <1>4, BestPriceIsBest
  <1>8. \A x \in Live(b) : At(b, x, s, p) /\ x # id => Precedes(b.queue[s][p], id, x)
    BY <1>2, BestOrderIsFront
  <1>9. taker.type = "Limit" => taker.price \in Price
    BY <1>1 DEF TakerOK
  <1>10. taker.side \in Side
    BY <1>1 DEF TakerOK, Taker
  <1> HIDE DEF i, b, s, id, p, q
  <1>11. Last(tape').maker = id /\ Last(tape').price = p
    <2> DEFINE tt == [id |-> nextSeq, maker |-> id, trader |-> tr,
                      price |-> p, quantity |-> q, sequence |-> taker.sequence]
    <2>1. tape' = Append(tape, tt)
      BY <1>5
    <2>2. tt.maker = id /\ tt.price = p
      OBVIOUS
    <2> HIDE DEF tt
    <2>3. tape \in Seq(Trade)
      BY DEF IInv
    <2>4. Len(tape) \in Nat
      BY <2>3
    <2>5. Len(Append(tape, tt)) = Len(tape) + 1 /\ Append(tape, tt)[Len(tape) + 1] = tt
      BY <2>3
    <2>6. Last(tape') = tt
      BY <2>1, <2>5 DEF Last
    <2> QED BY <2>2, <2>6
  <1>12. taker.type = "Limit" => ~ Better(taker.side, p, taker.price)
    BY <1>6, <1>7, <1>9, <1>10, BookAssumption DEF Crosses, Better, Price, Side
  <1>13. ASSUME NEW other \in Live(b), b.index[other].side = s, other # id
         PROVE  \/ Better(s, p, b.index[other].price)
                \/ /\ p = b.index[other].price
                   /\ PlacedBefore(i, id, other)
    <2> DEFINE r == b.index[other].price
    <2>1. r \in Price /\ other \in OrderId /\ id \in OrderId
      BY <1>4, LiveOrder
    <2>2. r \in b.ladder[s]
      <3>1. Holds(b.queue[s][r], other)
        BY <1>4, <1>13 DEF QueuesByContent
      <3>2. \E k \in DOMAIN b.queue[s][r] : TRUE
        BY <3>1 DEF Holds
      <3>3. b.queue[s][r] # << >>
        BY <3>2
      <3> QED BY <2>1, <3>3, <1>2, <1>4 DEF QueuesByContent
    <2>3. CASE r # p
      BY <2>2, <2>3, <1>7
    <2>4. CASE r = p
      <3>1. Precedes(b.queue[s][p], id, other)
        BY <2>4, <1>8, <1>13 DEF At
      <3>2. Precedes(placed[i], id, other)
        BY <3>1, <2>1, <1>2, <1>3, <1>7 DEF BookAndHistory, QueuesFollow
      <3>3. PlacedBefore(i, id, other)
        BY <3>2 DEF Precedes, PlacedBefore
      <3> QED BY <2>4, <3>3
    <2> QED BY <2>3, <2>4
  <1> QED BY <1>2, <1>4, <1>11, <1>12, <1>13 DEF i, b, s, id, p

(* Price-time priority of every trade, for any number of orders, prices    *)
(* and instruments, also in books that a modify has crossed.               *)
THEOREM Priority == Spec => PriceTimePriority
  <1> DEFINE Fair(t) ==
        LET i == taker.instrument
            b == books[i]
            s == Opposite(taker.side)
        IN  /\ t.maker \in Live(b)
            /\ b.index[t.maker].side = s
            /\ t.price = b.index[t.maker].price
            /\ taker.type = "Limit" => ~ Better(taker.side, t.price, taker.price)
            /\ \A other \in {id \in Live(b) : b.index[id].side = s} \ {t.maker} :
                   \/ Better(s, t.price, b.index[other].price)
                   \/ /\ t.price = b.index[other].price
                      /\ PlacedBefore(i, t.maker, other)
  <1>1. IInv /\ [Next]_vars => [Len(tape') > Len(tape) => Fair(Last(tape'))]_vars
    <2> SUFFICES ASSUME IInv, Next, Len(tape') > Len(tape)
                 PROVE  Fair(Last(tape'))
      OBVIOUS
    <2>1. CASE MatchStep
      BY <2>1, MatchPriority
    <2>2. Len(tape) \in Nat
      BY DEF IInv
    <2>3. tape' # tape /\ tape' # << >>
      BY <2>2
    <2>4. MatchStep
      BY <2>3 DEF Next, RegisterInstrument, UnregisterInstrument, Clear, SubmitNull,
                  SubmitRefused, Submit, Cancel, Modify, Reduce, NoSubmission,
                  FinishFilled, FinishMarket, FinishIOC, FinishRest, Finish
    <2> QED BY <2>1, <2>4
  <1> QED BY <1>1, Invariant, PTL DEF Spec, PriceTimePriority
-----------------------------------------------------------------------------
(* The results.                                                            *)

(* The order of a result rests in a book of bs as the result says.         *)
RestsAs(r, bs) ==
    \E i \in DOMAIN bs : \E id \in Live(bs[i]) :
        /\ id = r.order_id
        /\ bs[i].index[id].sequence = r.sequence
        /\ bs[i].index[id].remaining = r.resting

(* A result that reports the trades on the tape and claims no more of the  *)
(* books than they hold.                                                   *)
LEMMA ReportMatches ==
    ASSUME NEW st, NEW id, NEW seq, NEW f, NEW rest,
           result' = Report(st, id, seq, f, rest), f = Traded(tape'),
           st = "Accepted" <=> RestsAs(result', books'),
           st \in {"FullyFilled", "PartiallyFilled"} => f > 0
    PROVE  ResultMatchesTrades'
  <1>1. result'.status = st /\ result'.filled = f
    BY DEF Report
  <1>2. TradedQuantity' = Traded(tape')
    BY DEF TradedQuantity, Traded
  <1> QED BY <1>1, <1>2 DEF ResultMatchesTrades, RestsAs

(* A submission that rests nothing: no order of the books has its number.  *)
LEMMA FinishMatches ==
    ASSUME IInv, Matched, NEW st, NEW rest,
           Finish(st, taker.quantity - taker.remaining, rest),
           Unused(books', taker.sequence), st # "Accepted",
           st \in {"FullyFilled", "PartiallyFilled"} => taker.quantity - taker.remaining > 0
    PROVE  ResultMatchesTrades'
  <1> DEFINE f == taker.quantity - taker.remaining
  <1>1. Traded(tape) = f
    BY DEF Matched, IInv
  <1>2. result' = Report(st, taker.id, taker.sequence, f, rest) /\ tape' = tape
    BY DEF Finish
  <1>3. ~ RestsAs(result', books')
    <2>1. result'.sequence = taker.sequence
      BY <1>2 DEF Report
    <2> QED BY <2>1 DEF RestsAs, Unused
  <1> QED BY <1>1, <1>2, <1>3, ReportMatches

(* A limit order whose rest is offered to the book.                        *)
LEMMA RestMatches ==
    ASSUME IInv, FinishRest
    PROVE  ResultMatchesTrades'
  <1> DEFINE i  == taker.instrument
             b  == TakerBook
             o  == [side |-> taker.side, price |-> taker.price,
                    remaining |-> taker.remaining, status |-> "Open",
                    trader |-> taker.trader, sequence |-> taker.sequence]
             ok == InsertOK(b, taker.id, o)
  <1>1. /\ TakerOK(taker, books, nextSeq) /\ taker.remaining > 0
        /\ taker.type = "Limit" /\ Matched
        /\ Traded(tape) = taker.quantity - taker.remaining
    BY DEF FinishRest, Matched, IInv
  <1>2. /\ books' = [books EXCEPT ![i] = IF ok THEN InsertOrder(b, taker.id, o) ELSE b]
        /\ Finish(IF ok THEN "Accepted" ELSE "Rejected",
                  taker.quantity - taker.remaining, taker.remaining)
    BY <1>1 DEF FinishRest, TakerBook, TakerOK, FilledQuantity
  <1>3. /\ i \in DOMAIN books /\ b = books[i] /\ BookOK(b)
        /\ taker.id \in OrderId /\ o \in Order
        /\ o.remaining = taker.remaining /\ o.sequence = taker.sequence
    BY <1>1 DEF TakerOK, Taker, Order, IInv, Shelf, TakerBook, GoodBook, BookAndHistory
  <1> HIDE DEF b, o, ok
  <1>4. CASE ~ ok
    <2>1. Unused(books', taker.sequence)
      BY <1>1, <1>2, <1>3, <1>4 DEF Unused, TakerOK
    <2> QED BY <1>1, <1>2, <1>4, <2>1, FinishMatches
  <1>5. CASE ok
    <2> DEFINE c == InsertOrder(b, taker.id, o)
    <2>1. taker.id \in Live(c) /\ c.index[taker.id] = o
      BY <1>3, InsertShape DEF Added
    <2> HIDE DEF c
    <2>2. i \in DOMAIN books' /\ books'[i] = c
      BY <1>2, <1>3, <1>5 DEF c
    <2>3. /\ result' = Report("Accepted", taker.id, taker.sequence,
                              taker.quantity - taker.remaining, taker.remaining)
          /\ tape' = tape
      BY <1>2, <1>5 DEF Finish
    <2>4. /\ result'.order_id = taker.id /\ result'.sequence = taker.sequence
          /\ result'.resting = taker.remaining
      BY <2>3 DEF Report
    <2>5. RestsAs(result', books')
      BY <1>3, <2>1, <2>2, <2>4 DEF RestsAs
    <2> QED BY <1>1, <2>3, <2>5, ReportMatches
  <1> QED BY <1>4, <1>5

(* A refused submission has no trades, and its number 0 is no order's.     *)
LEMMA RefusedMatches ==
    ASSUME IInv, NEW id, SubmitRefused(id) \/ SubmitNull
    PROVE  ResultMatchesTrades'
  <1>1. PICK x : result' = Report("Rejected", x, 0, 0, 0)
    BY DEF SubmitRefused, SubmitNull
  <1>2. books' = books /\ tape' = << >>
    BY DEF SubmitRefused, SubmitNull
  <1>3. ~ RestsAs(result', books')
    <2>1. result'.sequence = 0
      BY <1>1 DEF Report
    <2> QED BY <1>2, <2>1 DEF RestsAs, IInv, Numbered, Unused
  <1>4. Traded(tape') = 0
    BY <1>2, TradedNothing
  <1> QED BY <1>1, <1>3, <1>4, ReportMatches

(* What every result reports as filled is the sum of its trades, it says   *)
(* Accepted exactly when an order of its number rests with what it says,   *)
(* and a fill is never empty.                                              *)
THEOREM ResultsMatch == Spec => []ResultMatchesTrades
  <1>1. Init => ResultMatchesTrades
    BY DEF Init, ResultMatchesTrades
  <1>2. IInv /\ ResultMatchesTrades /\ [Next]_vars => ResultMatchesTrades'
    <2> SUFFICES ASSUME IInv, ResultMatchesTrades, [Next]_vars
                 PROVE  ResultMatchesTrades'
      OBVIOUS
    <2>1. CASE UNCHANGED vars
      BY <2>1 DEF vars, ResultMatchesTrades, TradedQuantity
    <2>2. CASE result' = NoResult
      BY <2>2 DEF ResultMatchesTrades
    <2>3. CASE SubmitNull
      BY <2>3, RefusedMatches
    <2>4. ASSUME NEW id \in ClientIds \cup {0}, SubmitRefused(id)
          PROVE  ResultMatchesTrades'
      BY <2>4, RefusedMatches
    <2>5. CASE MatchStep
      BY <2>5 DEF MatchStep, ResultMatchesTrades
    <2>6. ASSUME Matched
          PROVE  /\ taker.quantity \in Nat /\ taker.quantity > 0
                 /\ taker.remaining \in Nat
                 /\ Unused(books, taker.sequence)
      BY <2>6, BookAssumption DEF Matched, IInv, TakerOK, Taker, Quantity
    <2>7. CASE FinishFilled
      <3>1. /\ Matched /\ books' = books /\ taker.remaining = 0
            /\ Finish("FullyFilled", taker.quantity, 0)
        BY <2>7 DEF FinishFilled
      <3>2. taker.quantity - taker.remaining = taker.quantity /\ taker.quantity > 0
        BY <2>6, <3>1
      <3> QED BY <3>1, <3>2, <2>6, FinishMatches
    <2>8. CASE FinishMarket \/ FinishIOC
      <3> DEFINE f == taker.quantity - taker.remaining
      <3>1. /\ Matched /\ books' = books
            /\ \/ Finish(IF f > 0 THEN "PartiallyFilled" ELSE "Rejected", f, 0)
               \/ Finish(IF f > 0 THEN "PartiallyFilled" ELSE "Cancelled", f, 0)
        BY <2>8 DEF FinishMarket, FinishIOC, FilledQuantity
      <3>2. PICK st \in {"PartiallyFilled", "Rejected", "Cancelled"} :
               Finish(st, f, 0) /\ (st = "PartiallyFilled" => f > 0)
        BY <3>1
      <3> QED BY <3>1, <3>2, <2>6, FinishMatches
    <2>9. CASE FinishRest
      BY <2>9, RestMatches
    <2> QED BY <2>1, <2>2, <2>3, <2>4, <2>5, <2>7, <2>8, <2>9
            DEF Next, RegisterInstrument, UnregisterInstrument, Clear, Submit,
                Cancel, Modify, Reduce, NoSubmission
  <1> QED BY <1>1, <1>2, Invariant, PTL DEF Spec
-----------------------------------------------------------------------------
(* The market data publisher: the cached tops of book and the event ring,  *)
(* for every set of instruments, book and ring capacity.                   *)

Event ==
    [kind : {"Trade", "OrderRested", "OrderFilled", "OrderPartiallyFilled",
             "OrderCancelled", "OrderRejected"},
     sequence : Nat]

(* The ring r holds the list l: walking back from the head meets the       *)
(* latest event first.                                                     *)
RingHolds(r, l) ==
    /\ r.head \in 0 .. (RingCapacity - 1)
    /\ r.count \in 0 .. RingCapacity
    /\ DOMAIN r.slot = 0 .. (RingCapacity - 1)
    /\ l \in Seq(Event)
    /\ Len(l) = r.count
    /\ \A k \in 1 .. r.count :
           r.slot[(r.head + RingCapacity - k) % RingCapacity] = l[r.count + 1 - k]

(* A snapshot that is not stale is of a registered instrument, and is the  *)
(* top of its book.                                                        *)
CacheHolds(c, st, bs) ==
    \A i \in DOMAIN c \ st : i \in DOMAIN bs /\ c[i] = SnapshotOf(bs[i])

PubInv ==
    /\ RingHolds(ring, latest)
    /\ CacheHolds(snapshots, stale, books)

-----------------------------------------------------------------------------
(* The ring.                                                               *)

(* The slot k places behind the head, without the modulus.                 *)
LEMMA SlotBehind ==
    ASSUME NEW c \in Nat \ {0}, NEW h \in 0 .. (c - 1), NEW k \in 1 .. c
    PROVE  /\ (h + c - k) % c = IF k <= h THEN h - k ELSE h + c - k
           /\ (h + 1) % c = IF h + 1 = c THEN 0 ELSE h + 1
  <1>1. ASSUME NEW a \in 0 .. (c - 1) PROVE a % c = a
    OBVIOUS
  <1>2. ASSUME NEW a \in 0 .. (c - 1) PROVE (a + c) % c = a
    <2>1. /\ (a + c) % c \in 0 .. (c - 1)
          /\ a + c = c * ((a + c) \div c) + ((a + c) % c)
          /\ (a + c) \div c \in Int
      BY Z3
    <2>2. PICK q \in Int, r \in 0 .. (c - 1) : a + c = c * q + r /\ (a + c) % c = r
      BY <2>1
    <2>3. c * (q - 1) = a - r
      BY <2>2
    <2>4. q - 1 >= 1 => c * (q - 1) >= c
      OBVIOUS
    <2>5. q - 1 <= -1 => c * (q - 1) <= -c
      OBVIOUS
    <2> QED BY <2>2, <2>3, <2>4, <2>5
  <1>3. CASE k <= h
    <2>1. h - k \in 0 .. (c - 1) /\ h + c - k = (h - k) + c
      BY <1>3
    <2> QED BY <2>1, <1>1, <1>2, <1>3
  <1>4. CASE k > h
    <2>1. h + c - k \in 0 .. (c - 1)
      BY <1>4
    <2> QED BY <2>1, <1>1, <1>4
  <1>5. (h + 1) % c = IF h + 1 = c THEN 0 ELSE h + 1
    <2>1. CASE h + 1 = c
      BY <2>1, <1>2
    <2>2. CASE h + 1 # c
      BY <2>2, <1>1
    <2> QED BY <2>1, <2>2
  <1> QED BY <1>3, <1>4, <1>5

(* Recording an event forgets the oldest one when the ring is full, and    *)
(* nothing else.                                                           *)
LEMMA NotifyRing ==
    ASSUME RingHolds(ring, latest), NEW e \in Event, NotifyEvent(e)
    PROVE  RingHolds(ring', latest')
  <1> DEFINE c == RingCapacity
             h == ring.head
             n == ring.count
             g == (h + 1) % c
             m == IF n < c THEN n + 1 ELSE n
             l == Append(latest, e)
  <1>1. /\ c \in Nat \ {0} /\ h \in 0 .. (c - 1) /\ n \in 0 .. c
        /\ DOMAIN ring.slot = 0 .. (c - 1)
        /\ latest \in Seq(Event) /\ Len(latest) = n
    BY RingAssumption DEF RingHolds
  <1>2. /\ ring'.slot = [ring.slot EXCEPT ![h] = e]
        /\ ring'.head = g /\ ring'.count = m
    BY DEF NotifyEvent
  <1>3. g = (IF h + 1 = c THEN 0 ELSE h + 1) /\ g \in 0 .. (c - 1)
    <2>1. 1 \in 1 .. c
      BY <1>1
    <2>2. (h + 1) % c = IF h + 1 = c THEN 0 ELSE h + 1
      BY <1>1, <2>1, SlotBehind
    <2> HIDE DEF c, h
    <2> QED BY <1>1, <2>2
  <1>4. /\ DOMAIN ring'.slot = 0 .. (c - 1)
        /\ ring'.slot[h] = e
        /\ \A k \in 0 .. (c - 1) : k # h => ring'.slot[k] = ring.slot[k]
    BY <1>1, <1>2
  <1>5. /\ l \in Seq(Event) /\ Len(l) = n + 1 /\ l[n + 1] = e
        /\ \A k \in 1 .. n : l[k] = latest[k]
    BY <1>1
  <1>6. /\ latest' \in Seq(Event) /\ Len(latest') = m
        /\ \A k \in 1 .. m : latest'[m + 1 - k] = l[n + 2 - k]
    <2>0. latest' = IF Len(l) > c THEN Tail(l) ELSE l
      BY DEF NotifyEvent
    <2> HIDE DEF l
    <2>1. CASE n < c
      BY <2>0, <2>1, <1>1, <1>5, SMTT(20)
    <2>2. CASE ~ (n < c)
      <3>1. n = c /\ latest' = Tail(l) /\ m = n
        BY <2>0, <2>2, <1>1, <1>5
      <3>2. /\ Tail(l) \in Seq(Event) /\ Len(Tail(l)) = n
            /\ \A k \in 1 .. n : Tail(l)[k] = l[k + 1]
        BY <1>1, <1>5
      <3>3. ASSUME NEW k \in 1 .. n
            PROVE  Tail(l)[n + 1 - k] = l[n + 2 - k]
        <4>1. n + 1 - k \in 1 .. n /\ (n + 1 - k) + 1 = n + 2 - k
          BY <1>1
        <4> QED BY <4>1, <3>2
      <3> QED BY <3>1, <3>2, <3>3
    <2> QED BY <2>1, <2>2
  <1>7. ASSUME NEW k \in 1 .. m
        PROVE  ring'.slot[(g + c - k) % c] = latest'[m + 1 - k]
    <2> DEFINE a == (g + c - k) % c
    <2>0. k \in 1 .. c /\ m \in Nat
      BY <1>1
    <2>1. a = IF k <= g THEN g - k ELSE g + c - k
      <3> HIDE DEF g, m
      <3> QED BY <2>0, <1>1, <1>3, SlotBehind
    <2>2. latest'[m + 1 - k] = l[n + 2 - k]
      BY <1>6
    <2>3. CASE k = 1
      <3>1. a = h
        <4> HIDE DEF a, g, c, h
        <4> QED BY <2>1, <2>3, <1>1, <1>3
      <3>2. l[n + 2 - k] = e
        BY <2>3, <1>1, <1>5
      <3> QED BY <3>1, <3>2, <2>2, <1>4
    <2>4. CASE k # 1
      <3>1. k - 1 \in 1 .. n /\ k - 1 \in 1 .. c /\ k - 1 # c
        BY <2>0, <2>4, <1>1
      <3>2. (h + c - (k - 1)) % c = IF k - 1 <= h THEN h - (k - 1) ELSE h + c - (k - 1)
        BY <3>1, <1>1, SlotBehind
      <3>3. a = (h + c - (k - 1)) % c /\ a \in 0 .. (c - 1) /\ a # h
        <4> DEFINE z == (h + c - (k - 1)) % c
        <4>1. z = IF k - 1 <= h THEN h - (k - 1) ELSE h + c - (k - 1)
          BY <3>2
        <4>2. a = z /\ z \in 0 .. (c - 1) /\ z # h
          <5> HIDE DEF a, z, g, c, h
          <5> QED BY <2>0, <2>1, <4>1, <3>1, <1>1, <1>3
        <4> QED BY <4>2
      <3>4. ring.slot[(h + c - (k - 1)) % c] = latest[n + 1 - (k - 1)]
        BY <3>1 DEF RingHolds
      <3>5. l[n + 2 - k] = latest[n + 1 - (k - 1)]
        <4>1. n + 2 - k \in 1 .. n /\ n + 1 - (k - 1) = n + 2 - k
          BY <3>1, <2>0, <1>1
        <4> QED BY <4>1, <1>5
      <3> QED BY <3>3, <3>4, <3>5, <2>2, <1>4
    <2> QED BY <2>3, <2>4
  <1>8. m \in 0 .. c
    BY <1>1
  <1> HIDE DEF g, m, l
  <1> QED BY <1>2, <1>3, <1>4, <1>6, <1>7, <1>8 DEF RingHolds

-----------------------------------------------------------------------------
(* The cached tops of book.                                                *)

(* The books other than i are as they were.                                *)
OnlyBook(i) ==
    \A j \in DOMAIN books : j # i => j \in DOMAIN books' /\ books'[j] = books[j]

(* A refresh after a change of one book makes its snapshot current.        *)
LEMMA NotifyCache ==
    ASSUME CacheHolds(snapshots, stale, books), NEW i, i \in DOMAIN books',
           OnlyBook(i), NotifyTob(i)
    PROVE  CacheHolds(snapshots', stale', books')
  <1> SUFFICES ASSUME NEW j \in DOMAIN snapshots' \ stale'
               PROVE  j \in DOMAIN books' /\ snapshots'[j] = SnapshotOf(books'[j])
    BY DEF CacheHolds
  <1> HIDE DEF SnapshotOf
  <1>1. /\ snapshots' = [k \in DOMAIN snapshots \cup {i} |->
                            IF k = i THEN SnapshotOf(books'[i]) ELSE snapshots[k]]
        /\ stale' = stale \ {i}
    BY DEF NotifyTob
  <1>2. j \in DOMAIN snapshots \cup {i}
    BY <1>1
  <1>3. CASE j = i
    BY <1>1, <1>2, <1>3
  <1>4. CASE j # i
    <2>1. j \in DOMAIN snapshots \ stale
      BY <1>1, <1>2, <1>4
    <2>2. j \in DOMAIN books /\ snapshots[j] = SnapshotOf(books[j])
      BY <2>1 DEF CacheHolds
    <2>3. j \in DOMAIN books' /\ books'[j] = books[j]
      BY <2>2, <1>4 DEF OnlyBook
    <2>4. snapshots'[j] = snapshots[j]
      BY <1>1, <1>2, <1>4
    <2> QED BY <2>2, <2>3, <2>4
  <1> QED BY <1>3, <1>4

(* Without a refresh a snapshot stays current as long as its book does.    *)
LEMMA SilentCache ==
    ASSUME CacheHolds(snapshots, stale, books), snapshots' = snapshots,
           stale \subseteq stale',
           \A j \in (DOMAIN snapshots \ stale') \cap DOMAIN books :
               j \in DOMAIN books' /\ books'[j] = books[j]
    PROVE  CacheHolds(snapshots', stale', books')
  <1> SUFFICES ASSUME NEW j \in DOMAIN snapshots \ stale'
               PROVE  j \in DOMAIN books' /\ snapshots[j] = SnapshotOf(books'[j])
    BY DEF CacheHolds
  <1>1. j \in DOMAIN books /\ snapshots[j] = SnapshotOf(books[j])
    BY DEF CacheHolds
  <1>2. j \in DOMAIN books' /\ books'[j] = books[j]
    BY <1>1
  <1> QED BY <1>1, <1>2

-----------------------------------------------------------------------------
(* The steps.                                                              *)

(* An operation on the book of i that calls no sink.                       *)
LEMMA UnnoticedStep ==
    ASSUME PubInv, NEW i, Unnoticed(i), OnlyBook(i)
    PROVE  PubInv'
  <1>1. RingHolds(ring', latest')
    BY DEF PubInv, Unnoticed
  <1>2. /\ snapshots' = snapshots /\ stale' = stale \cup {i}
        /\ CacheHolds(snapshots, stale, books)
    BY DEF PubInv, Unnoticed
  <1>3. \A j \in (DOMAIN snapshots \ stale') \cap DOMAIN books :
            j \in DOMAIN books' /\ books'[j] = books[j]
    BY <1>2 DEF OnlyBook
  <1>4. CacheHolds(snapshots', stale', books')
    BY <1>2, <1>3, SilentCache
  <1> QED BY <1>1, <1>4 DEF PubInv

(* A step that leaves the publisher alone, and the books it knows of.      *)
LEMMA QuietStep ==
    ASSUME PubInv, UNCHANGED pubVars,
           \A j \in DOMAIN books : j \in DOMAIN books' /\ books'[j] = books[j]
    PROVE  PubInv'
  <1>1. RingHolds(ring', latest')
    BY DEF PubInv, pubVars
  <1>2. /\ snapshots' = snapshots /\ stale' = stale
        /\ CacheHolds(snapshots, stale, books)
    BY DEF PubInv, pubVars
  <1>3. CacheHolds(snapshots', stale', books')
    BY <1>2, SilentCache
  <1> QED BY <1>1, <1>3 DEF PubInv

(* A result is reported: when the book changed, the report refreshes it.   *)
LEMMA ResultStep ==
    ASSUME PubInv, NEW i, OnSubmitResult(i), result'.status \in SubmitStatus,
           result'.sequence \in Nat,
           Refreshes(result'.status) => i \in DOMAIN books' /\ OnlyBook(i),
           ~ Refreshes(result'.status) =>
               \A j \in DOMAIN books : j \in DOMAIN books' /\ books'[j] = books[j]
    PROVE  PubInv'
  <1> DEFINE e == [kind |-> EventKind(result'.status), sequence |-> result'.sequence]
  <1>1. e \in Event
    BY DEF Event, EventKind, SubmitStatus
  <1>2. RingHolds(ring, latest) /\ CacheHolds(snapshots, stale, books) /\ NotifyEvent(e)
    BY DEF PubInv, OnSubmitResult
  <1>3. RingHolds(ring', latest')
    <2> HIDE DEF e
    <2> QED BY <1>1, <1>2, NotifyRing
  <1>4. CASE Refreshes(result'.status)
    <2>1. NotifyTob(i)
      BY <1>4 DEF OnSubmitResult
    <2>2. CacheHolds(snapshots', stale', books')
      BY <2>1, <1>2, <1>4, NotifyCache
    <2> QED BY <1>3, <2>2 DEF PubInv
  <1>5. CASE ~ Refreshes(result'.status)
    <2>1. snapshots' = snapshots /\ stale' = stale
      BY <1>5 DEF OnSubmitResult
    <2>2. CacheHolds(snapshots', stale', books')
      BY <2>1, <1>2, <1>5, SilentCache
    <2> QED BY <1>3, <2>2 DEF PubInv
  <1> QED BY <1>4, <1>5

(* A fill, announced while the submission is still in progress.            *)
LEMMA TradeStep ==
    ASSUME IInv, PubInv, PubMatch
    PROVE  PubInv'
  <1> DEFINE i == taker.instrument
             e == [kind |-> "Trade", sequence |-> taker.sequence]
  <1>1. i \in DOMAIN books /\ taker.sequence \in Nat
    BY DEF PubMatch, MatchStep, IInv, TakerOK, Taker
  <1>2. \E c : books' = [books EXCEPT ![i] = c]
    BY DEF PubMatch, MatchStep
  <1>3. i \in DOMAIN books' /\ OnlyBook(i)
    BY <1>1, <1>2 DEF OnlyBook
  <1>4. NotifyEvent(e) /\ NotifyTob(i)
    BY DEF PubMatch, OnTrade
  <1>5. e \in Event
    BY <1>1 DEF Event
  <1>6. RingHolds(ring', latest')
    <2> HIDE DEF e
    <2> QED BY <1>4, <1>5, NotifyRing DEF PubInv
  <1>7. CacheHolds(snapshots', stale', books')
    <2> HIDE DEF i
    <2> QED BY <1>3, <1>4, NotifyCache DEF PubInv
  <1> QED BY <1>6, <1>7 DEF PubInv

(* The end of a submission.  Only a rest that is inserted changes a book,  *)
(* and its result is one that refreshes.                                   *)
LEMMA FinishStep ==
    ASSUME IInv, PubInv, PubFinish
    PROVE  PubInv'
  <1> DEFINE i == taker.instrument
  <1>1. phase = "matching" /\ i \in DOMAIN books /\ taker.sequence \in Nat
    <2>1. phase = "matching"
      BY DEF PubFinish, FinishFilled, FinishMarket, FinishIOC, FinishRest, Matched
    <2> QED BY <2>1 DEF IInv, TakerOK, Taker
  <1>2. OnSubmitResult(i)
    BY DEF PubFinish
  <1>3. ASSUME FinishFilled \/ FinishMarket \/ FinishIOC
        PROVE  books' = books /\ result'.status \in SubmitStatus /\ result'.sequence \in Nat
    BY <1>1, <1>3 DEF FinishFilled, FinishMarket, FinishIOC, Finish, Report, SubmitStatus
  <1>4. ASSUME FinishRest
        PROVE  /\ result'.status \in SubmitStatus /\ result'.sequence \in Nat
               /\ i \in DOMAIN books' /\ OnlyBook(i)
               /\ ~ Refreshes(result'.status) => books'[i] = books[i]
    <2> DEFINE o  == [side |-> taker.side, price |-> taker.price,
                      remaining |-> taker.remaining, status |-> "Open",
                      trader |-> taker.trader, sequence |-> taker.sequence]
               ok == InsertOK(TakerBook, taker.id, o)
               c  == IF ok THEN InsertOrder(books[i], taker.id, o) ELSE books[i]
    <2>1. books' = [books EXCEPT ![i] = c]
      BY <1>4 DEF FinishRest
    <2>2. /\ result'.status = IF ok THEN "Accepted" ELSE "Rejected"
          /\ result'.sequence = taker.sequence
      BY <1>4 DEF FinishRest, Finish, Report
    <2> HIDE DEF ok, o
    <2>3. DOMAIN books' = DOMAIN books /\ books'[i] = c /\ OnlyBook(i)
      BY <2>1, <1>1 DEF OnlyBook
    <2> QED BY <2>2, <2>3, <1>1 DEF SubmitStatus, Refreshes
  <1>5. CASE FinishFilled \/ FinishMarket \/ FinishIOC
    <2>1. OnlyBook(i) /\ i \in DOMAIN books'
      BY <1>1, <1>3, <1>5 DEF OnlyBook
    <2> HIDE DEF i
    <2> QED BY <2>1, <1>2, <1>3, <1>5, ResultStep
  <1>6. CASE FinishRest
    <2>1. ~ Refreshes(result'.status) =>
              \A j \in DOMAIN books : j \in DOMAIN books' /\ books'[j] = books[j]
      BY <1>4, <1>6 DEF OnlyBook
    <2> HIDE DEF i
    <2> QED BY <2>1, <1>2, <1>4, <1>6, ResultStep
  <1> QED BY <1>5, <1>6 DEF PubFinish

(* A submission that is refused changes no book.                           *)
LEMMA RefusedStep ==
    ASSUME PubInv, NEW id, PubRefused(id) \/ PubNull
    PROVE  PubInv'
  <1>1. /\ OnSubmitResult(0) /\ books' = books
        /\ result'.status = "Rejected" /\ result'.sequence = 0
    BY DEF PubRefused, PubNull, SubmitRefused, SubmitNull, Report
  <1>2. result'.status \in SubmitStatus /\ ~ Refreshes(result'.status)
    BY <1>1 DEF SubmitStatus, Refreshes
  <1> QED BY <1>1, <1>2, ResultStep

(* Every step of an engine with a publisher is a step of the engine.       *)
LEMMA EngineStep ==
    ASSUME [MDNext]_mdVars
    PROVE  [Next]_vars
  BY DEF MDNext, mdVars, Next, PubRegister, PubUnregister, PubClear, PubCancel,
         PubModify, PubReduce, PubSubmit, PubRefused, PubNull, PubMatch, PubFinish

LEMMA PubNext ==
    ASSUME IInv, PubInv, [MDNext]_mdVars
    PROVE  PubInv'
  <1>1. CASE UNCHANGED mdVars
    BY <1>1, QuietStep DEF mdVars, vars
  <1>2. ASSUME NEW i \in Instrument, PubRegister(i) PROVE PubInv'
    <2>1. \A j \in DOMAIN books : j \in DOMAIN books' /\ books'[j] = books[j]
      BY <1>2 DEF PubRegister, RegisterInstrument
    <2> QED BY <1>2, <2>1, QuietStep DEF PubRegister
  <1>3. ASSUME NEW i \in Instrument, PubUnregister(i) PROVE PubInv'
    <2>1. OnlyBook(i)
      BY <1>3 DEF PubUnregister, UnregisterInstrument, OnlyBook
    <2> QED BY <1>3, <2>1, UnnoticedStep DEF PubUnregister
  <1>4. CASE PubClear
    <2>1. RingHolds(ring', latest')
      BY <1>4 DEF PubInv, PubClear
    <2>2. CacheHolds(snapshots', stale', books')
      BY <1>4 DEF PubClear, CacheHolds
    <2> QED BY <2>1, <2>2 DEF PubInv
  <1>5. ASSUME NEW i \in Instrument, NEW id \in OrderId, PubCancel(i, id) PROVE PubInv'
    <2>1. OnlyBook(i)
      BY <1>5 DEF PubCancel, Cancel, OnlyBook
    <2> QED BY <1>5, <2>1, UnnoticedStep DEF PubCancel
  <1>6. ASSUME NEW i \in Instrument, NEW id \in OrderId, NEW q, NEW p,
               PubModify(i, id, q, p)
        PROVE  PubInv'
    <2>1. OnlyBook(i)
      BY <1>6 DEF PubModify, Modify, OnlyBook
    <2> QED BY <1>6, <2>1, UnnoticedStep DEF PubModify
  <1>7. ASSUME NEW i \in Instrument, NEW id \in OrderId, NEW q, PubReduce(i, id, q)
        PROVE  PubInv'
    <2>1. OnlyBook(i)
      BY <1>7 DEF PubReduce, Reduce, OnlyBook
    <2> QED BY <1>7, <2>1, UnnoticedStep DEF PubReduce
  <1>8. ASSUME NEW r \in Request, PubSubmit(r) PROVE PubInv'
    <2>1. books' = books
      BY <1>8 DEF PubSubmit, Submit
    <2> QED BY <1>8, <2>1, QuietStep DEF PubSubmit
  <1>9. ASSUME NEW id, PubRefused(id) \/ PubNull PROVE PubInv'
    BY <1>9, RefusedStep
  <1>10. CASE PubMatch
    BY <1>10, TradeStep
  <1>11. CASE PubFinish
    BY <1>11, FinishStep
  <1> QED BY <1>1, <1>2, <1>3, <1>4, <1>5, <1>6, <1>7, <1>8, <1>9, <1>10, <1>11
          DEF MDNext

-----------------------------------------------------------------------------

(* An engine with a publisher keeps the engine's invariant, and the ring   *)
(* and the cache keep theirs.                                              *)
THEOREM Published == MDSpec => [](IInv /\ PubInv)
  <1>1. MDInit => IInv /\ PubInv
    <2> SUFFICES ASSUME MDInit PROVE IInv /\ PubInv
      OBVIOUS
    <2>1. RingHolds(ring, latest)
      BY RingAssumption DEF MDInit, RingHolds
    <2>2. CacheHolds(snapshots, stale, books)
      BY DEF MDInit, CacheHolds
    <2> QED BY <2>1, <2>2, InitIInv DEF MDInit, PubInv
  <1>2. (IInv /\ PubInv) /\ [MDNext]_mdVars => (IInv /\ PubInv)'
    BY EngineStep, NextIInv, PubNext
  <1> QED BY <1>1, <1>2, PTL DEF MDSpec

(* top_of_book returns the top of the book, in every state of a submission *)
(* that a listener can see, unless the book changed without a callback.    *)
THEOREM CurrentTop == MDSpec => []TopOfBookCurrent
  <1>1. PubInv => TopOfBookCurrent
    BY DEF PubInv, CacheHolds, TopOfBookCurrent, TopOfBook
  <1> QED BY <1>1, Published, PTL

(* recent_events returns the latest events, newest first, for every        *)
(* capacity of the ring, wherever its head is.                             *)
THEOREM LatestEvents == MDSpec => []RecentEventsAreLatest
  <1>1. PubInv => RecentEventsAreLatest
    <2> SUFFICES ASSUME PubInv, NEW n \in 0 .. (RingCapacity + 1)
                 PROVE  RecentEvents(n) =
                            LET k == IF n < Len(latest) THEN n ELSE Len(latest)
                            IN  [i \in 1 .. k |-> latest[Len(latest) + 1 - i]]
      BY DEF RecentEventsAreLatest
    <2> DEFINE m == IF n < ring.count THEN n ELSE ring.count
    <2>1. Len(latest) = ring.count /\ ring.count \in Nat
      BY RingAssumption DEF PubInv, RingHolds
    <2>2. \A k \in 1 .. m : ring.slot[(ring.head + RingCapacity - k) % RingCapacity]
                                = latest[ring.count + 1 - k]
      <3>1. \A k \in 1 .. m : k \in 1 .. ring.count
        BY <2>1
      <3> QED BY <3>1 DEF PubInv, RingHolds
    <2> QED BY <2>1, <2>2 DEF RecentEvents
  <1> QED BY <1>1, Published, PTL

-----------------------------------------------------------------------------
(* The event log and its replay.                                           *)

OrderKinds == {"OrderRested", "OrderFilled", "OrderPartiallyFilled",
               "OrderCancelled", "OrderRejected"}

(* A record of the result of an order, of a trade, or of a refusal.        *)
Record ==
    [kind : OrderKinds, sequence : Nat, id : OrderId, instrument : Instrument,
     side : Side, price : Price \cup {NoPrice}, quantity : Int]
    \cup [kind : {"Trade", "OrderRejected"}, sequence : Nat]

(* The file holds such records, and from the crash on the engine has no    *)
(* order that a modify moved: the new engine starts empty, and a replay    *)
(* only submits.                                                           *)
LogInv ==
    /\ file \in [header : BOOLEAN, records : Seq(Record)]
    /\ todo \in Seq(Record)
    /\ mode # "live" => \A i \in Instrument : moved[i] = {}
    /\ mode = "down" => Init

(* The log keeps its records.                                              *)
LEMMA AppendKeeps ==
    ASSUME LogInv, NEW e \in Record, AppendRecord(e)
    PROVE  file' \in [header : BOOLEAN, records : Seq(Record)]
  <1>1. file.records \in Seq(Record) /\ file.header \in BOOLEAN
    BY DEF LogInv
  <1> DEFINE r == Append(file.records, e)
  <1>2. r \in Seq(Record)
    BY <1>1
  <1>3. file' = IF log = "open" THEN [file EXCEPT !.records = r] ELSE file
    BY DEF AppendRecord
  <1> HIDE DEF r
  <1> QED BY <1>1, <1>2, <1>3 DEF LogInv

(* The record of a submission that was matched.                            *)
LEMMA ResultRecord ==
    ASSUME IInv, FinishAny
    PROVE  OrderRecord(result') \in Record
  <1>1. phase = "matching"
    BY DEF FinishAny, FinishFilled, FinishMarket, FinishIOC, FinishRest, Matched
  <1>2. taker \in Taker
    BY <1>1 DEF IInv, TakerOK
  <1>3. /\ result'.status \in SubmitStatus /\ result'.order_id = taker.id
        /\ result'.sequence = taker.sequence
        /\ result'.filled \in {taker.quantity, taker.quantity - taker.remaining}
        /\ result'.resting \in {0, taker.remaining}
    <2>1. CASE FinishFilled
      BY <2>1 DEF FinishFilled, Finish, Report, SubmitStatus
    <2>2. CASE FinishMarket
      <3>1. /\ result'.status \in {"PartiallyFilled", "Rejected"}
            /\ result'.order_id = taker.id /\ result'.sequence = taker.sequence
            /\ result'.filled = FilledQuantity /\ result'.resting = 0
        BY <2>2 DEF FinishMarket, Finish, Report
      <3> QED BY <3>1 DEF SubmitStatus, FilledQuantity
    <2>3. CASE FinishIOC
      <3>1. /\ result'.status \in {"PartiallyFilled", "Cancelled"}
            /\ result'.order_id = taker.id /\ result'.sequence = taker.sequence
            /\ result'.filled = FilledQuantity /\ result'.resting = 0
        BY <2>3 DEF FinishIOC, Finish, Report
      <3> QED BY <3>1 DEF SubmitStatus, FilledQuantity
    <2>4. CASE FinishRest
      <3>1. \E st \in {"Accepted", "Rejected"} : Finish(st, FilledQuantity, taker.remaining)
        BY <2>4 DEF FinishRest
      <3>2. /\ result'.status \in {"Accepted", "Rejected"}
            /\ result'.order_id = taker.id /\ result'.sequence = taker.sequence
            /\ result'.filled = FilledQuantity /\ result'.resting = taker.remaining
        BY <3>1 DEF Finish, Report
      <3> QED BY <3>2 DEF SubmitStatus, FilledQuantity
    <2> QED BY <2>1, <2>2, <2>3, <2>4 DEF FinishAny
  <1>5. /\ taker.id \in OrderId /\ taker.instrument \in Instrument /\ taker.side \in Side
        /\ taker.price \in Price \cup {NoPrice} /\ taker.sequence \in Nat
        /\ taker.quantity \in Int /\ taker.remaining \in Int
    BY <1>2, BookAssumption DEF Taker, Quantity
  <1>6. PersistedQuantity(result') \in Int
    BY <1>3, <1>5 DEF PersistedQuantity
  <1>7. RecordKind(result'.status) \in OrderKinds
    BY <1>3 DEF RecordKind, SubmitStatus, OrderKinds
  <1> DEFINE k == RecordKind(result'.status)
             q == PersistedQuantity(result')
  <1>8. OrderRecord(result') = [kind |-> k, sequence |-> taker.sequence, id |-> taker.id,
                                instrument |-> taker.instrument, side |-> taker.side,
                                price |-> taker.price, quantity |-> q]
    BY <1>3 DEF OrderRecord
  <1> HIDE DEF k, q
  <1> QED BY <1>5, <1>6, <1>7, <1>8 DEF Record, k, q

(* While the engine lives, its steps with a log are its own steps.         *)
LEMMA LiveStep ==
    ASSUME [PNext]_pVars, mode = "live", mode' = "live"
    PROVE  [Next]_vars
  <1>1. \A q \in Quantity : q \in 0 .. MaxQuantity /\ q \in 0 .. (MaxQuantity + 1)
    BY BookAssumption DEF Quantity
  <1>2. CASE OpenTruncate \/ OpenAppend \/ CloseLog
    BY <1>2 DEF OpenTruncate, OpenAppend, CloseLog
  <1>3. CASE \E i \in Instrument : LiveRegister(i) \/ LiveUnregister(i)
    BY <1>3 DEF LiveRegister, LiveUnregister, Next
  <1>4. CASE LiveClear
    BY <1>4 DEF LiveClear, Next
  <1>5. CASE \E i \in Instrument, id \in OrderId : LiveCancel(i, id)
    BY <1>5 DEF LiveCancel, Next
  <1>6. ASSUME NEW i \in Instrument, NEW id \in OrderId, NEW q \in Quantity, NEW p \in Price,
               LiveModify(i, id, q, p)
        PROVE  Next
    BY <1>1, <1>6 DEF LiveModify, Next
  <1>7. ASSUME NEW i \in Instrument, NEW id \in OrderId, NEW q \in Quantity,
               LiveReduce(i, id, q)
        PROVE  Next
    BY <1>1, <1>7 DEF LiveReduce, Next
  <1>8. CASE \E r \in Request : LiveSubmit(r)
    BY <1>8 DEF LiveSubmit, Next
  <1>9. CASE \E id \in ClientIds \cup {0} : LiveRefused(id)
    BY <1>9 DEF LiveRefused, Next
  <1>10. CASE LiveMatch \/ LiveFinish
    BY <1>10 DEF LiveMatch, LiveFinish, FinishAny, Next
  <1>11. CASE UNCHANGED pVars
    BY <1>11 DEF pVars
  <1>12. ~ Crash /\ ~ Replay
    BY DEF Crash, Replay, StartReplay, ReplaySkip, ReplaySubmit, ReplayProcess, ReplayEnd,
           Replaying
  <1> QED BY <1>2, <1>3, <1>4, <1>5, <1>6, <1>7, <1>8, <1>9, <1>10, <1>11, <1>12 DEF PNext

(* ... and the file keeps its records.                                     *)
LEMMA LiveLog ==
    ASSUME IInv, LogInv, [PNext]_pVars, mode = "live", mode' = "live"
    PROVE  LogInv'
  <1>1. CASE UNCHANGED << file, todo >>
    BY <1>1 DEF LogInv
  <1>2. CASE OpenTruncate
    BY <1>2 DEF OpenTruncate, LogInv
  <1>3. ASSUME NEW id, LiveRefused(id) PROVE LogInv'
    <2>1. [kind |-> "OrderRejected", sequence |-> 0] \in Record
      BY DEF Record
    <2>2. todo' = todo /\ file' \in [header : BOOLEAN, records : Seq(Record)]
      BY <1>3, <2>1, AppendKeeps DEF LiveRefused
    <2> QED BY <2>2 DEF LogInv
  <1>4. CASE LiveMatch
    <2>1. phase = "matching" /\ taker.sequence \in Nat
      BY <1>4 DEF LiveMatch, MatchStep, IInv, TakerOK, Taker
    <2>2. [kind |-> "Trade", sequence |-> taker.sequence] \in Record
      BY <2>1 DEF Record
    <2>3. todo' = todo /\ file' \in [header : BOOLEAN, records : Seq(Record)]
      BY <1>4, <2>2, AppendKeeps DEF LiveMatch, LogTrade
    <2> QED BY <2>3 DEF LogInv
  <1>5. CASE LiveFinish
    <2>1. OrderRecord(result') \in Record
      BY <1>5, ResultRecord DEF LiveFinish
    <2>2. todo' = todo /\ file' \in [header : BOOLEAN, records : Seq(Record)]
      BY <1>5, <2>1, AppendKeeps DEF LiveFinish, LogResult
    <2> QED BY <2>2 DEF LogInv
  <1>6. ~ Crash /\ ~ Replay
    BY DEF Crash, Replay, StartReplay, ReplaySkip, ReplaySubmit, ReplayProcess, ReplayEnd,
           Replaying
  <1> QED BY <1>1, <1>2, <1>3, <1>4, <1>5, <1>6
          DEF PNext, pVars, logVars, OpenAppend, CloseLog, LiveRegister, LiveUnregister, LiveClear,
              LiveCancel, LiveModify, LiveReduce, LiveSubmit, Unlogged

(* The crash leaves a new engine.                                          *)
LEMMA CrashStep ==
    ASSUME LogInv, Crash
    PROVE  IInv' /\ LogInv'
  <1>1. Init'
    BY DEF Crash, Init
  <1>2. Init' => IInv'
    BY InitIInv, PTL
  <1>3. \A i \in Instrument : moved'[i] = {}
    BY DEF Crash
  <1> QED BY <1>1, <1>2, <1>3 DEF LogInv, Crash

(* The new process registers its instruments, whose books are empty.       *)
LEMMA StartStep ==
    ASSUME IInv, LogInv, StartReplay
    PROVE  IInv' /\ LogInv'
  <1>1. Init /\ (\A i \in Instrument : moved[i] = {})
    BY DEF StartReplay, LogInv
  <1>2. /\ DOMAIN books' = Instrument /\ \A i \in Instrument : books'[i] = EmptyBook
        /\ placed' = placed /\ moved' = moved /\ nextSeq' = nextSeq /\ phase' = phase
        /\ taker' = taker /\ tape' = tape /\ result' = result
    BY DEF StartReplay
  <1>3. Idle /\ NoSubmission
    BY <1>1, <1>2 DEF Init, Idle, Sound, NoSubmission
  <1>4. \A i \in Instrument : GoodBook(EmptyBook, placed[i], moved[i])
    BY <1>1, EmptyHistory DEF Init, GoodBook, CrossingsMoved
  <1>5. Shelf(books', placed', moved')
    BY <1>2, <1>4 DEF IInv, Shelf
  <1>6. Inherited(books', books)
    BY <1>2, EmptyHistory DEF Inherited
  <1>7. IInv'
    BY <1>2, <1>3, <1>5, <1>6, BooksIInv
  <1>8. file' = file /\ todo' \in Seq(Record) /\ mode' = "replay"
    BY DEF StartReplay, ReadAll, LogInv
  <1> QED BY <1>1, <1>2, <1>7, <1>8 DEF LogInv

(* A replay submits and matches as any other caller, and modifies nothing. *)
LEMMA ReplayStep ==
    ASSUME IInv, LogInv, ReplaySkip \/ ReplaySubmit \/ ReplayProcess \/ ReplayEnd
    PROVE  IInv' /\ LogInv'
  <1>1. mode = "replay" /\ file' = file /\ mode' \in {"replay", "recovered"}
        /\ \A i \in Instrument : moved[i] = {}
    BY DEF ReplaySkip, ReplaySubmit, ReplayProcess, ReplayEnd, Replaying, LogInv, logVars
  <1>2. todo' \in Seq(Record)
    <2>1. todo \in Seq(Record)
      BY DEF LogInv
    <2>2. todo' = todo \/ (todo # << >> /\ todo' = Tail(todo))
      BY DEF ReplaySkip, ReplaySubmit, ReplayProcess, ReplayEnd, Replaying, logVars
    <2> QED BY <2>1, <2>2
  <1>3. CASE ReplaySkip \/ ReplayEnd
    <2>1. UNCHANGED vars
      BY <1>3 DEF ReplaySkip, ReplayEnd
    <2>2. IInv'
      BY <2>1, NextIInv
    <2> QED BY <1>1, <1>2, <2>1, <2>2 DEF LogInv, vars
  <1>4. CASE ReplaySubmit
    <2> DEFINE e == Head(todo)
               r == [id |-> e.id, instrument |-> e.instrument, side |-> e.side,
                     type |-> IF e.quantity > 0 THEN "Limit" ELSE "Market",
                     tif |-> "GTC", price |-> e.price, quantity |-> e.quantity,
                     trader |-> 0]
    <2>1. e \in Record /\ e.kind \in {"OrderRested", "OrderFilled", "OrderPartiallyFilled"}
      BY <1>4 DEF ReplaySubmit, Replaying, LogInv
    <2>2. Submit(r)
      BY <1>4 DEF ReplaySubmit
    <2> HIDE DEF e
    <2>3. e.id \in OrderId /\ e.side \in Side /\ e.price \in Price \cup {NoPrice}
      BY <2>1 DEF Record
    <2>4. RequestOK(r)
      BY <2>3 DEF RequestOK
    <2> HIDE DEF r
    <2>5. IInv'
      BY <2>2, <2>4, SubmitIInv
    <2>6. moved' = moved
      BY <2>2 DEF Submit
    <2> QED BY <1>1, <1>2, <2>5, <2>6 DEF LogInv
  <1>5. CASE ReplayProcess
    <2>1. MatchStep \/ FinishAny
      BY <1>5 DEF ReplayProcess
    <2>2. IInv'
      BY <2>1, NextIInv DEF Next, FinishAny
    <2>3. \A i \in Instrument : moved'[i] = {}
      <3>1. CASE MatchStep
        <4>1. \E x : moved' = [moved EXCEPT ![taker.instrument] =
                                   IF x THEN @ \ {BestOrder(TakerBook, Opposite(taker.side))} ELSE @]
          BY <3>1 DEF MatchStep
        <4> QED BY <4>1, <1>1 DEF IInv, Shelf
      <3>2. CASE FinishAny
        <4>1. moved' = moved
          BY <3>2 DEF FinishAny, FinishFilled, FinishMarket, FinishIOC, FinishRest
        <4> QED BY <4>1, <1>1
      <3> QED BY <2>1, <3>1, <3>2
    <2> QED BY <1>1, <1>2, <2>2, <2>3 DEF LogInv
  <1> QED BY <1>3, <1>4, <1>5

(* The engine's invariant holds before the crash, after it and throughout  *)
(* the replay, whatever the file holds.                                    *)
THEOREM Logged == PSpec => [](IInv /\ LogInv)
  <1>1. PInit => IInv /\ LogInv
    BY InitIInv DEF PInit, LogInv, NoFile
  <1>2. ASSUME IInv, LogInv, [PNext]_pVars PROVE IInv' /\ LogInv'
    <2>1. CASE mode = "live" /\ mode' = "live"
      BY <1>2, <2>1, LiveStep, LiveLog, NextIInv
    <2>2. CASE UNCHANGED pVars
      <3>1. IInv'
        BY <1>2, <2>2, NextIInv DEF pVars
      <3> QED BY <1>2, <2>2, <3>1 DEF LogInv, pVars, logVars, vars, Init
    <2>3. CASE Crash
      BY <1>2, <2>3, CrashStep
    <2>4. CASE Replay
      BY <1>2, <2>4, StartStep, ReplayStep DEF Replay
    <2>5. PNext => Crash \/ Replay \/ (mode = "live" /\ mode' = "live")
      BY DEF PNext, OpenTruncate, OpenAppend, CloseLog, LogIdle, LiveRegister, LiveUnregister,
             LiveClear, LiveCancel, LiveModify, LiveReduce, LiveSubmit, LiveRefused, LiveMatch,
             LiveFinish, Unlogged
    <2> QED BY <1>2, <2>1, <2>2, <2>3, <2>4, <2>5
  <1> QED BY <1>1, <1>2, PTL DEF PSpec

(* A replay of any file brings every book up uncrossed, even if a modify   *)
(* had crossed the books of the engine that crashed: the replay submits    *)
(* every order again, and no submission leaves a crossed pair.             *)
THEOREM ComesUpUncrossed == PSpec => []RecoveredUncrossed
  <1>1. IInv /\ LogInv => RecoveredUncrossed
    <2> SUFFICES ASSUME IInv, LogInv, mode = "recovered", NEW i \in DOMAIN books,
                        NEW bid \in Live(books[i]), NEW ask \in Live(books[i]),
                        books[i].index[bid].side = "Buy", books[i].index[ask].side = "Sell"
                 PROVE  books[i].index[bid].price < books[i].index[ask].price
      BY DEF RecoveredUncrossed
    <2>1. i \in Instrument /\ moved[i] = {} /\ GoodBook(books[i], placed[i], moved[i])
      BY DEF IInv, Shelf, LogInv
    <2>2. ~ (books[i].index[bid].price >= books[i].index[ask].price)
      BY <2>1 DEF GoodBook, CrossingsMoved
    <2>3. books[i].index[bid].price \in Int /\ books[i].index[ask].price \in Int
      BY <2>1, LiveOrder, BookAssumption DEF GoodBook, BookAndHistory, BookOK, Price
    <2> QED BY <2>2, <2>3
  <1> QED BY <1>1, Logged, PTL

-----------------------------------------------------------------------------
(* What a book does depends on its view only.                              *)

(* Two books have the same view if these fields agree.                     *)
LEMMA ViewFields ==
    ASSUME NEW b, NEW c
    PROVE  View(b) = View(c) <=>
               /\ b.queue = c.queue
               /\ b.total = c.total
               /\ Live(b) = Live(c)
               /\ \A id \in Live(b) : b.index[id].remaining = c.index[id].remaining
  <1> DEFINE f == [id \in Live(b) |-> b.index[id].remaining]
             g == [id \in Live(c) |-> c.index[id].remaining]
  <1>1. View(b) = View(c) <=> b.queue = c.queue /\ b.total = c.total /\ f = g
    BY DEF View
  <1>2. f = g <=> Live(b) = Live(c) /\ \A id \in Live(b) : b.index[id].remaining = c.index[id].remaining
    <2>1. f = g => DOMAIN f = DOMAIN g /\ \A id \in Live(b) : f[id] = g[id]
      OBVIOUS
    <2> QED BY <2>1
  <1> QED BY <1>1, <1>2

(* ... and if these agree level by level.                                  *)
LEMMA ViewLevels ==
    ASSUME NEW b, NEW c, IsBook(b), IsBook(c), Live(b) = Live(c),
           \A id \in Live(b) : b.index[id].remaining = c.index[id].remaining,
           \A s \in Side, p \in Price :
               b.queue[s][p] = c.queue[s][p] /\ b.total[s][p] = c.total[s][p]
    PROVE  View(b) = View(c)
  <1>1. b.queue \in [Side -> [Price -> Seq(OrderId)]] /\ c.queue \in [Side -> [Price -> Seq(OrderId)]]
    BY DEF IsBook, Queues
  <1>2. b.total \in [Side -> [Price -> Int]] /\ c.total \in [Side -> [Price -> Int]]
    BY DEF IsBook, Totals
  <1>3. \A s \in Side : b.queue[s] = c.queue[s] /\ b.total[s] = c.total[s]
    BY <1>1, <1>2
  <1>4. b.queue = c.queue /\ b.total = c.total
    BY <1>1, <1>2, <1>3
  <1> QED BY <1>4, ViewFields

(* The best price and the best order.                                      *)
LEMMA SameBest ==
    ASSUME NEW b, BookOK(b), NEW c, BookOK(c), View(b) = View(c), NEW s \in Side
    PROVE  /\ b.ladder[s] = c.ladder[s]
           /\ BestPrice(b, s) = BestPrice(c, s)
           /\ BestOrder(b, s) = BestOrder(c, s)
  <1>1. b.queue = c.queue
    BY ViewFields
  <1>2. b.ladder[s] \subseteq Price /\ c.ladder[s] \subseteq Price
    BY DEF BookOK, IsBook, Ladders
  <1>3. b.ladder[s] = c.ladder[s]
    BY <1>1, <1>2 DEF BookOK, QueuesMatchIndex, LaddersMatchQueues
  <1>4. BestPrice(b, s) = BestPrice(c, s)
    BY <1>3 DEF BestPrice
  <1> QED BY <1>1, <1>3, <1>4 DEF BestOrder

(* The turn of the match loop for a limit order of side s at p with r      *)
(* left: its condition, the quantity of its trade and the book it leaves.  *)
CanTurn(b, s, p, r) ==
    /\ r > 0
    /\ BestPrice(b, Opposite(s)) # NoPrice
    /\ Crosses(s, p, BestPrice(b, Opposite(s)))
    /\ BestOrder(b, Opposite(s)) # 0

TurnQuantity(b, s, r) ==
    LET o == b.index[BestOrder(b, Opposite(s))]
    IN  IF r > o.remaining THEN o.remaining ELSE r

Turned(b, s, r) == FillOrder(b, BestOrder(b, Opposite(s)), TurnQuantity(b, s, r))

LEMMA TurnFacts ==
    ASSUME NEW b, BookOK(b), NEW s \in Side, NEW p, NEW r \in Int, CanTurn(b, s, p, r)
    PROVE  LET id == BestOrder(b, Opposite(s))
           IN  /\ Opposite(s) \in Side
               /\ IsFront(b, id)
               /\ b.index[id].side = Opposite(s)
               /\ b.index[id].price = BestPrice(b, Opposite(s))
               /\ b.index[id].remaining \in Quantity
               /\ TurnQuantity(b, s, r) \in Int
               /\ TurnQuantity(b, s, r) >= 1
               /\ TurnQuantity(b, s, r) <= r
               /\ TurnQuantity(b, s, r) <= b.index[id].remaining
               /\ FillQuantity(b, id, TurnQuantity(b, s, r)) = TurnQuantity(b, s, r)
               /\ Consumes(b, id, TurnQuantity(b, s, r))
                      <=> TurnQuantity(b, s, r) = b.index[id].remaining
  <1> DEFINE opp == Opposite(s)
             id == BestOrder(b, opp)
             o == b.index[id]
             q == TurnQuantity(b, s, r)
  <1>1. opp \in Side
    BY DEF Opposite, Side
  <1>2. b.ladder[opp] # {}
    BY DEF CanTurn, BestPrice
  <1>3. IsFront(b, id) /\ o.side = opp /\ o.price = BestPrice(b, opp)
    BY <1>1, <1>2, BestOrderIsFront
  <1>4. o.remaining \in Quantity
    BY <1>3 DEF BookOK, OrdersOpen, IsFront
  <1>5. r > 0 /\ q = IF r > o.remaining THEN o.remaining ELSE r
    BY DEF CanTurn, TurnQuantity
  <1> HIDE DEF q, o
  <1>6. q \in Int /\ q >= 1 /\ q <= r /\ q <= o.remaining
    BY <1>4, <1>5, BookAssumption DEF Quantity
  <1>7. FillFront(b, id) = id
    BY <1>3 DEF IsFront
  <1>8. /\ FillQuantity(b, id, q) = IF q <= 0 THEN 0 ELSE IF q > o.remaining THEN o.remaining ELSE q
        /\ Consumes(b, id, q) <=> q > 0 /\ q >= o.remaining
    BY <1>7 DEF FillQuantity, Consumes, o
  <1>9. FillQuantity(b, id, q) = q /\ (Consumes(b, id, q) <=> q = o.remaining)
    BY <1>4, <1>6, <1>8, BookAssumption DEF Quantity
  <1> QED BY <1>1, <1>3, <1>4, <1>6, <1>9 DEF q, o

(* A turn of two books with the same view.                                 *)
LEMMA SameTurn ==
    ASSUME NEW b, BookOK(b), NEW c, BookOK(c), View(b) = View(c),
           NEW s \in Side, NEW p, NEW r \in Int
    PROVE  /\ CanTurn(b, s, p, r) <=> CanTurn(c, s, p, r)
           /\ CanTurn(b, s, p, r) =>
                  /\ TurnQuantity(b, s, r) = TurnQuantity(c, s, r)
                  /\ View(Turned(b, s, r)) = View(Turned(c, s, r))
  <1> DEFINE opp == Opposite(s)
             id == BestOrder(b, opp)
             q == TurnQuantity(b, s, r)
             x == FillOrder(b, id, q)
             y == FillOrder(c, id, q)
  <1>1. opp \in Side
    BY DEF Opposite, Side
  <1>2. BestPrice(b, opp) = BestPrice(c, opp) /\ BestOrder(b, opp) = BestOrder(c, opp)
    BY <1>1, SameBest
  <1>3. CanTurn(b, s, p, r) <=> CanTurn(c, s, p, r)
    BY <1>2 DEF CanTurn
  <1> SUFFICES ASSUME CanTurn(b, s, p, r), CanTurn(c, s, p, r)
               PROVE  TurnQuantity(b, s, r) = TurnQuantity(c, s, r)
                      /\ View(Turned(b, s, r)) = View(Turned(c, s, r))
    BY <1>3
  <1>4. /\ b.queue = c.queue /\ b.total = c.total /\ Live(b) = Live(c)
        /\ \A i \in Live(b) : b.index[i].remaining = c.index[i].remaining
    BY ViewFields
  <1>5. /\ IsFront(b, id) /\ b.index[id].side = opp /\ b.index[id].price = BestPrice(b, opp)
        /\ q \in Int /\ FillQuantity(b, id, q) = q
        /\ Consumes(b, id, q) <=> q = b.index[id].remaining
    BY TurnFacts
  <1>6. id \in Live(b) /\ id \in Live(c) /\ b.index[id].remaining = c.index[id].remaining
    BY <1>4, <1>5 DEF IsFront
  <1>7. TurnQuantity(c, s, r) = q
    BY <1>2, <1>6 DEF TurnQuantity
  <1>8. /\ IsFront(c, id) /\ c.index[id].side = opp /\ c.index[id].price = BestPrice(b, opp)
        /\ FillQuantity(c, id, q) = q
        /\ Consumes(c, id, q) <=> q = c.index[id].remaining
    <2> HIDE DEF q
    <2> QED BY TurnFacts, <1>2, <1>7
  <1>9. /\ TurnQuantity(b, s, r) = TurnQuantity(c, s, r)
        /\ Turned(b, s, r) = x /\ Turned(c, s, r) = y
    BY <1>2, <1>7 DEF Turned
  <1> DEFINE p0 == BestPrice(b, opp)
             t == b.total[opp][p0] - q
  <1> HIDE DEF q, id, opp, p0
  <1>10. Retotalled(x, b, opp, p0, t) /\ Retotalled(y, c, opp, p0, t)
    BY <1>4, <1>5, <1>8, FillTotals DEF p0
  <1>11. \A s2 \in Side, p2 \in Price : x.total[s2][p2] = y.total[s2][p2]
    BY <1>4, <1>10 DEF Retotalled
  <1>12. CASE q = b.index[id].remaining
    <2>1. Removed(x, b, id) /\ Removed(y, c, id)
      BY <1>5, <1>6, <1>8, <1>12, FillShape
    <2>2. \A s2 \in Side, p2 \in Price : At(b, id, s2, p2) <=> At(c, id, s2, p2)
      BY <1>5, <1>8 DEF At
    <2> HIDE DEF x, y
    <2>3. \A s2 \in Side, p2 \in Price : x.queue[s2][p2] = y.queue[s2][p2]
      BY <1>4, <2>1, <2>2 DEF Removed
    <2>4. Live(x) = Live(y) /\ \A i \in Live(x) : x.index[i].remaining = y.index[i].remaining
      BY <1>4, <2>1 DEF Removed
    <2>5. IsBook(x) /\ IsBook(y)
      BY <2>1 DEF Removed
    <2>6. View(x) = View(y)
      BY <1>11, <2>3, <2>4, <2>5, ViewLevels
    <2> QED BY <1>9, <2>6
  <1>13. CASE q # b.index[id].remaining
    <2>1. /\ Resized(x, b, id) /\ x.index[id].remaining = b.index[id].remaining - q
          /\ Resized(y, c, id) /\ y.index[id].remaining = c.index[id].remaining - q
      BY <1>5, <1>6, <1>8, <1>13, FillShape
    <2> HIDE DEF x, y
    <2>2. \A s2 \in Side, p2 \in Price : x.queue[s2][p2] = y.queue[s2][p2]
      BY <1>4, <2>1 DEF Resized
    <2>3. Live(x) = Live(y) /\ \A i \in Live(x) : x.index[i].remaining = y.index[i].remaining
      BY <1>4, <1>6, <2>1 DEF Resized
    <2>4. IsBook(x) /\ IsBook(y)
      BY <2>1 DEF Resized
    <2>5. View(x) = View(y)
      BY <1>11, <2>2, <2>3, <2>4, ViewLevels
    <2> QED BY <1>9, <2>5
  <1> QED BY <1>12, <1>13

(* An insertion into two books with the same view, of orders that differ   *)
(* in their trader and their number only.                                  *)
LEMMA SameInsert ==
    ASSUME NEW b, BookOK(b), NEW c, BookOK(c), View(b) = View(c),
           NEW id \in OrderId, NEW o \in Order, NEW n \in Order,
           o.side = n.side, o.price = n.price, o.remaining = n.remaining
    PROVE  /\ InsertOK(b, id, o) <=> InsertOK(c, id, n)
           /\ View(InsertOrder(b, id, o)) = View(InsertOrder(c, id, n))
  <1> DEFINE x == InsertOrder(b, id, o)
             y == InsertOrder(c, id, n)
             t == IF o.price \in b.ladder[o.side] THEN b.total[o.side][o.price] ELSE 0
  <1>1. /\ b.queue = c.queue /\ b.total = c.total /\ Live(b) = Live(c)
        /\ \A i \in Live(b) : b.index[i].remaining = c.index[i].remaining
    BY ViewFields
  <1>2. o.side \in Side /\ o.price \in Price
    BY DEF Order
  <1>3. b.ladder[o.side] = c.ladder[o.side]
    BY <1>2, SameBest
  <1>4. Added(x, b, id, o) /\ Added(y, c, id, n)
    BY InsertShape
  <1>5. Retotalled(x, b, o.side, o.price, t + o.remaining)
        /\ Retotalled(y, c, o.side, o.price, t + o.remaining)
    BY <1>1, <1>3, InsertTotals
  <1> HIDE DEF x, y, t
  <1>6. \A s \in Side, p \in Price :
            x.queue[s][p] = y.queue[s][p] /\ x.total[s][p] = y.total[s][p]
    BY <1>1, <1>4, <1>5 DEF Added, Retotalled
  <1>7. Live(x) = Live(y) /\ \A i \in Live(x) : x.index[i].remaining = y.index[i].remaining
    BY <1>1, <1>4 DEF Added
  <1>8. IsBook(x) /\ IsBook(y)
    BY <1>4 DEF Added
  <1>9. View(x) = View(y)
    BY <1>6, <1>7, <1>8, ViewLevels
  <1> QED BY <1>1, <1>9 DEF InsertOK, x, y

-----------------------------------------------------------------------------
(* What a file tells.                                                      *)

(* One turn of the match loop for a limit order of side s and quantity q   *)
(* at the price p, between the states [view, filled] x and y.              *)
Turn(s, p, q, x, y) ==
    \E b : /\ BookOK(b)
           /\ View(b) = x.view
           /\ CanTurn(b, s, p, q - x.filled)
           /\ y.view = View(Turned(b, s, q - x.filled))
           /\ y.filled = x.filled + TurnQuantity(b, s, q - x.filled)

(* w is a run of m turns that starts at the view v.                        *)
Walk(s, p, q, v, w, m) ==
    /\ m \in Nat
    /\ w[0].view = v
    /\ w[0].filled = 0
    /\ \A k \in 0 .. (m - 1) : Turn(s, p, q, w[k], w[k + 1])
    /\ \A k \in 0 .. m : w[k].filled \in Nat /\ w[k].filled <= w[m].filled
    /\ w[m].filled <= q

(* The order that the replay of the record e leaves with r unfilled.       *)
Leftover(e, r) ==
    [side |-> e.side, price |-> e.price, remaining |-> r, status |-> "Open",
     trader |-> 0, sequence |-> 0]

(* The loop has ended in the state x, and the rest of e makes the view v.  *)
Settles(e, x, v) ==
    \E b : /\ BookOK(b)
           /\ View(b) = x.view
           /\ ~ CanTurn(b, e.side, e.price, e.quantity - x.filled)
           /\ IF x.filled = e.quantity
              THEN v = x.view
              ELSE /\ InsertOK(b, e.id, Leftover(e, e.quantity - x.filled))
                   /\ v = View(InsertOrder(b, e.id, Leftover(e, e.quantity - x.filled)))

(* The views vs with that of i replaced.                                   *)
With(vs, i, v) == [j \in Instrument |-> IF j = i THEN v ELSE vs[j]]

(* A record that a replay resubmits as a limit order.                      *)
Resubmittable(e) ==
    /\ e.kind \in {"OrderRested", "OrderFilled", "OrderPartiallyFilled"}
    /\ e.id \in OrderId
    /\ e.instrument \in Instrument
    /\ e.side \in Side
    /\ e.price \in Price
    /\ e.quantity \in Quantity

(* The run w of m turns for the record e takes the state x of the engine,  *)
(* its views and its next number, to y.                                    *)
Course(e, x, y, w, m) ==
    /\ Walk(e.side, e.price, e.quantity, x.views[e.instrument], w, m)
    /\ \E v : Settles(e, w[m], v) /\ y.views = With(x.views, e.instrument, v)
    /\ y.next = x.next + 1 + m

Carries(e, x, y) == Resubmittable(e) /\ \E w, m : Course(e, x, y, w, m)

(* h is the history of an engine that is given the records one by one.     *)
Skipped(e) == e.kind \in {"Trade", "OrderRejected"}

Retold(recs, h) ==
    /\ h[0].views = Views([i \in {} |-> EmptyBook])
    /\ h[0].next = 1
    /\ \A k \in 0 .. Len(recs) : h[k].next \in Nat
    /\ \A k \in 1 .. Len(recs) :
           (Skipped(recs[k]) /\ h[k] = h[k - 1]) \/ Carries(recs[k], h[k - 1], h[k])

(* The engine would have chosen the ids of the records itself, or higher.  *)
OwnIds(recs, h) ==
    \A k \in 1 .. Len(recs) : Skipped(recs[k]) \/ recs[k].id <= h[k - 1].next

(* The engine, which writes a log, has come from x to where it is.         *)
LiveAt(x) ==
    /\ phase = "idle" => Views(books) = x.views /\ (counted => nextSeq <= x.next)
    /\ phase = "matching" =>
           /\ taker.remaining = taker.quantity => Views(books) = x.views
           /\ taker.type = "Limit" => \E w, m :
                  /\ Walk(taker.side, taker.price, taker.quantity,
                          x.views[taker.instrument], w, m)
                  /\ w[m].view = View(TakerBook)
                  /\ w[m].filled = taker.quantity - taker.remaining
                  /\ Views(books) = With(x.views, taker.instrument, View(TakerBook))
                  /\ counted => taker.id <= x.next /\ nextSeq <= x.next + 1 + m

(* The engine is on the course from x to y that the record e tells.        *)
OnCourse(e, x, y) ==
    /\ taker.id = e.id /\ taker.instrument = e.instrument /\ taker.side = e.side
    /\ taker.price = e.price /\ taker.quantity = e.quantity
    /\ taker.type = "Limit" /\ taker.tif = "GTC"
    /\ Resubmittable(e)
    /\ \E w, m : Course(e, x, y, w, m) /\ \E k \in 0 .. m :
           /\ w[k].view = View(TakerBook)
           /\ w[k].filled = taker.quantity - taker.remaining
           /\ nextSeq = x.next + 1 + k
    /\ Views(books) = With(x.views, taker.instrument, View(TakerBook))

(* The replay has looked at n records.                                     *)
Replayed(h, n) ==
    /\ n \in 0 .. Len(file.records)
    /\ Len(todo) = Len(file.records) - n
    /\ \A k \in 1 .. Len(todo) : todo[k] = file.records[n + k]
    /\ phase = "idle" => Views(books) = h[n].views /\ nextSeq = h[n].next
    /\ phase = "matching" => n >= 1 /\ OnCourse(file.records[n], h[n - 1], h[n])

(* The next number of the engine is above all ids it knows.                *)
FreshIds ==
    /\ \A i \in DOMAIN books : \A id \in Live(books[i]) : id < nextSeq
    /\ phase = "matching" => taker.id < nextSeq

(* The file tells the history h, of which the engine is at the end while   *)
(* it lives, and which the replay follows.                                 *)
Told(h) ==
    /\ Retold(file.records, h)
    /\ counted => OwnIds(file.records, h)
    /\ h[Len(file.records)].views = logged
    /\ (mode = "live" /\ log = "open") => LiveAt(h[Len(file.records)])
    /\ mode \in {"replay", "recovered"} => /\ \E n : Replayed(h, n)
                                           /\ counted => FreshIds

(* As long as the file tells everything it tells a history; from the crash *)
(* on it has its header, the engine that replays it has all its books, and *)
(* a replay ends after the last record or at one it does not know.         *)
RecInv ==
    /\ plain => \E h : Told(h)
    /\ mode # "live" => file.header
    /\ mode \in {"replay", "recovered"} => DOMAIN books = Instrument
    /\ mode = "recovered" =>
           phase = "idle" /\ (todo = << >> \/ Head(todo).kind = "OrderCancelled")

(* The views of all books.                                                 *)
LEMMA ViewsUpdate ==
    ASSUME NEW bs, NEW cs, DOMAIN cs = DOMAIN bs, NEW i \in Instrument, i \in DOMAIN bs,
           \A j \in DOMAIN bs : j # i => cs[j] = bs[j]
    PROVE  /\ Views(bs)[i] = View(bs[i])
           /\ Views(cs) = With(Views(bs), i, View(cs[i]))
           /\ Views(bs) = With(Views(bs), i, View(bs[i]))
  BY DEF Views, With

LEMMA WithTwice ==
    ASSUME NEW vs, NEW i \in Instrument, NEW u, NEW v
    PROVE  With(With(vs, i, u), i, v) = With(vs, i, v)
  BY DEF With

(* A run of no turns, and a history h up to n with one more state y.       *)
NoTurns(v) == [k \in {0} |-> [view |-> v, filled |-> 0]]

Longer(h, n, y) == [k \in 0 .. (n + 1) |-> IF k <= n THEN h[k] ELSE y]

LEMMA WalkStart ==
    ASSUME NEW s, NEW p, NEW q \in Nat, NEW v
    PROVE  /\ Walk(s, p, q, v, NoTurns(v), 0)
           /\ NoTurns(v)[0].view = v
           /\ NoTurns(v)[0].filled = 0
  <1> DEFINE w == NoTurns(v)
  <1>1. w[0].view = v /\ w[0].filled = 0
    BY DEF NoTurns
  <1>2. 0 .. (0 - 1) = {} /\ 0 .. 0 = {0}
    OBVIOUS
  <1> HIDE DEF w
  <1>3. Walk(s, p, q, v, w, 0)
    BY <1>1, <1>2 DEF Walk
  <1> QED BY <1>1, <1>3 DEF w

(* A run with one more turn.                                               *)
LEMMA WalkOn ==
    ASSUME NEW s, NEW p, NEW q \in Nat, NEW v, NEW w, NEW m, Walk(s, p, q, v, w, m),
           NEW y, Turn(s, p, q, w[m], y), y.filled \in Nat,
           w[m].filled <= y.filled, y.filled <= q
    PROVE  Walk(s, p, q, v, Longer(w, m, y), m + 1) /\ Longer(w, m, y)[m + 1] = y
  <1> DEFINE z == Longer(w, m, y)
  <1>1. m \in Nat
    BY DEF Walk
  <1>2. z[m + 1] = y /\ \A k \in 0 .. m : z[k] = w[k]
    BY <1>1 DEF Longer
  <1> HIDE DEF z
  <1>3. z[0] = w[0]
    BY <1>1, <1>2
  <1>4. \A k \in 0 .. (m + 1 - 1) : Turn(s, p, q, z[k], z[k + 1])
    <2> SUFFICES ASSUME NEW k \in 0 .. m PROVE Turn(s, p, q, z[k], z[k + 1])
      BY <1>1
    <2>1. CASE k = m
      BY <1>1, <1>2, <2>1
    <2>2. CASE k # m
      <3>1. k \in 0 .. (m - 1) /\ k + 1 \in 0 .. m
        BY <1>1, <2>2
      <3> QED BY <1>2, <3>1 DEF Walk
    <2> QED BY <2>1, <2>2
  <1>5. ASSUME NEW k \in 0 .. (m + 1)
        PROVE  z[k].filled \in Nat /\ z[k].filled <= z[m + 1].filled
    <2>1. CASE k = m + 1
      BY <1>2, <2>1
    <2>2. CASE k # m + 1
      <3>1. k \in 0 .. m /\ m \in 0 .. m
        BY <1>1, <2>2
      <3>2. w[k].filled \in Nat /\ w[k].filled <= w[m].filled /\ w[m].filled \in Nat
        BY <3>1 DEF Walk
      <3> QED BY <1>2, <3>1, <3>2
    <2> QED BY <2>1, <2>2
  <1>6. m + 1 \in Nat
    BY <1>1
  <1>7. Walk(s, p, q, v, z, m + 1)
    BY <1>2, <1>3, <1>4, <1>5, <1>6 DEF Walk
  <1> QED BY <1>2, <1>7 DEF z

(* A run that left something unfilled is also the run of an order for what *)
(* it filled: each of its turns consumed the order it met.                 *)
LEMMA WalkExact ==
    ASSUME NEW s \in Side, NEW p, NEW q \in Nat, NEW v, NEW w, NEW m, Walk(s, p, q, v, w, m)
    PROVE  Walk(s, p, w[m].filled, v, w, m)
  <1> DEFINE f == w[m].filled
  <1>1. m \in Nat /\ m \in 0 .. m /\ f \in Nat /\ f <= q
    BY DEF Walk
  <1>2. ASSUME NEW k \in 0 .. (m - 1) PROVE Turn(s, p, f, w[k], w[k + 1])
    <2> DEFINE g == w[k].filled
    <2>1. PICK b : /\ BookOK(b)
                   /\ View(b) = w[k].view
                   /\ CanTurn(b, s, p, q - g)
                   /\ w[k + 1].view = View(Turned(b, s, q - g))
                   /\ w[k + 1].filled = g + TurnQuantity(b, s, q - g)
      BY DEF Walk, Turn
    <2>2. k \in 0 .. m /\ k + 1 \in 0 .. m
      BY <1>1
    <2>3. g \in Nat /\ w[k + 1].filled \in Nat /\ w[k + 1].filled <= f
      BY <2>2 DEF Walk
    <2> DEFINE o == b.index[BestOrder(b, Opposite(s))]
               t == TurnQuantity(b, s, q - g)
    <2> HIDE DEF f, g
    <2>4. t \in Int /\ t >= 1 /\ o.remaining \in Quantity
      BY <1>1, <2>1, <2>3, TurnFacts
    <2>5. t = IF q - g > o.remaining THEN o.remaining ELSE q - g
      BY DEF TurnQuantity
    <2>6. TurnQuantity(b, s, f - g) = IF f - g > o.remaining THEN o.remaining ELSE f - g
      BY DEF TurnQuantity
    <2>7. o.remaining \in Int
      BY <2>4, BookAssumption DEF Quantity
    <2> HIDE DEF o, t
    <2>8. f - g > 0 /\ f - g >= t
      BY <1>1, <2>1, <2>3, <2>4 DEF t
    <2>9. TurnQuantity(b, s, f - g) = t
      BY <1>1, <2>3, <2>4, <2>5, <2>6, <2>7, <2>8
    <2>10. CanTurn(b, s, p, f - g)
      BY <2>1, <2>8 DEF CanTurn
    <2>11. Turned(b, s, f - g) = Turned(b, s, q - g)
      BY <2>9 DEF Turned, t
    <2> QED BY <2>1, <2>9, <2>10, <2>11 DEF Turn, t, g
  <1> HIDE DEF f
  <1>3. f <= f
    BY <1>1
  <1> QED BY <1>2, <1>3 DEF Walk, f

(* A file that tells all still does with a record of what came next.       *)
LEMMA RetoldMore ==
    ASSUME NEW recs \in Seq(Record), NEW h, Retold(recs, h), NEW e, NEW y, y.next \in Nat,
           (Skipped(e) /\ y = h[Len(recs)]) \/ Carries(e, h[Len(recs)], y)
    PROVE  \E g :
               /\ Retold(Append(recs, e), g)
               /\ g[Len(Append(recs, e))] = y
               /\ (OwnIds(recs, h) /\ (Skipped(e) \/ e.id <= h[Len(recs)].next))
                      => OwnIds(Append(recs, e), g)
  <1> DEFINE n == Len(recs)
             a == Append(recs, e)
             g == Longer(h, n, y)
  <1>1. n \in Nat /\ Len(a) = n + 1 /\ a[n + 1] = e /\ \A k \in 1 .. n : a[k] = recs[k]
    OBVIOUS
  <1>2. g[n + 1] = y /\ \A k \in 0 .. n : g[k] = h[k]
    BY <1>1 DEF Longer
  <1> HIDE DEF n, a, g
  <1>3. g[0] = h[0]
    BY <1>1, <1>2
  <1>4. \A k \in 0 .. (n + 1) : g[k].next \in Nat
    <2> SUFFICES ASSUME NEW k \in 0 .. (n + 1) PROVE g[k].next \in Nat
      OBVIOUS
    <2>1. CASE k = n + 1
      BY <1>2, <2>1
    <2>2. CASE k # n + 1
      <3>1. k \in 0 .. n
        BY <1>1, <2>2
      <3> QED BY <1>2, <3>1 DEF Retold, n
    <2> QED BY <2>1, <2>2
  <1>5. \A k \in 1 .. (n + 1) :
            \/ k = n + 1 /\ a[k] = e /\ g[k] = y /\ g[k - 1] = h[n]
            \/ k \in 1 .. n /\ a[k] = recs[k] /\ g[k] = h[k] /\ g[k - 1] = h[k - 1]
    <2> SUFFICES ASSUME NEW k \in 1 .. (n + 1), k # n + 1
                 PROVE  k \in 1 .. n /\ a[k] = recs[k] /\ g[k] = h[k] /\ g[k - 1] = h[k - 1]
      <3>1. (n + 1) - 1 = n /\ n \in 0 .. n
        BY <1>1
      <3> QED BY <1>1, <1>2, <3>1
    <2>1. k \in 1 .. n /\ k \in 0 .. n /\ k - 1 \in 0 .. n
      BY <1>1
    <2> QED BY <1>1, <1>2, <2>1
  <1>6. ASSUME NEW k \in 1 .. (n + 1)
        PROVE  (Skipped(a[k]) /\ g[k] = g[k - 1]) \/ Carries(a[k], g[k - 1], g[k])
    BY <1>5 DEF Retold, n
  <1>7. Retold(a, g)
    BY <1>1, <1>3, <1>4, <1>6 DEF Retold
  <1>8. ASSUME OwnIds(recs, h), Skipped(e) \/ e.id <= h[n].next
        PROVE  OwnIds(a, g)
    BY <1>1, <1>5, <1>8 DEF OwnIds, n
  <1>9. g[Len(a)] = y
    BY <1>1, <1>2
  <1> QED BY <1>7, <1>8, <1>9 DEF a, n

-----------------------------------------------------------------------------
(* The file while the engine lives.                                        *)

(* What a step has to show while the engine lives.                         *)
LEMMA ToldLive ==
    ASSUME NEW h, NEW x, mode' = "live", Retold(file'.records, h),
           counted' => OwnIds(file'.records, h), x = h[Len(file'.records)],
           x.views = logged', log' = "open" => LiveAt(x)'
    PROVE  Told(h)'
  BY DEF Told

(* What is told before a step while the engine lives.                      *)
LEMMA LiveTold ==
    ASSUME LogInv, RecInv, plain, mode = "live"
    PROVE  \E h, x : /\ Retold(file.records, h)
                     /\ counted => OwnIds(file.records, h)
                     /\ file.records \in Seq(Record)
                     /\ x = h[Len(file.records)]
                     /\ x.next \in Nat
                     /\ x.views = logged
                     /\ log = "open" => LiveAt(x)
  <1>1. file.records \in Seq(Record)
    BY DEF LogInv
  <1>2. Len(file.records) \in 0 .. Len(file.records)
    BY <1>1
  <1>3. PICK h : Told(h)
    BY DEF RecInv
  <1>4. h[Len(file.records)].next \in Nat
    BY <1>2, <1>3 DEF Told, Retold
  <1> QED BY <1>1, <1>3, <1>4 DEF Told

LEMMA Appends ==
    ASSUME LogInv, log = "open", NEW e, AppendRecord(e)
    PROVE  file'.records = Append(file.records, e)
  BY DEF LogInv, AppendRecord

(* An operation that calls no sink.                                        *)
LEMMA UnloggedTold ==
    ASSUME LogInv, RecInv, plain', Unlogged, phase = "idle", phase' = "idle",
           nextSeq \in Int, nextSeq' \in Int, nextSeq' <= nextSeq
    PROVE  \E h : Told(h)'
  <1>1. /\ plain /\ mode = "live" /\ mode' = "live" /\ file' = file /\ log' = log
        /\ logged' = logged /\ counted' = counted
        /\ log = "open" => Views(books)' = Views(books)
    BY DEF Unlogged
  <1>2. PICK h, x : /\ Retold(file.records, h) /\ (counted => OwnIds(file.records, h))
                    /\ x = h[Len(file.records)] /\ x.next \in Nat
                    /\ x.views = logged
                    /\ log = "open" => LiveAt(x)
    BY <1>1, LiveTold
  <1>3. log' = "open" => LiveAt(x)'
    BY <1>1, <1>2 DEF LiveAt
  <1>4. Told(h)'
    BY <1>1, <1>2, <1>3, ToldLive
  <1> QED BY <1>4

(* A log is opened, or is not written any more.                            *)
LEMMA OpenTold ==
    ASSUME LogInv, RecInv, plain', OpenTruncate \/ OpenAppend \/ CloseLog
    PROVE  \E h : Told(h)'
  <1>1. CASE OpenTruncate
    <2> DEFINE x == [views |-> Views([i \in {} |-> EmptyBook]), next |-> 1]
               h == [k \in {0} |-> x]
    <2>1. /\ file'.records = << >> /\ mode' = "live" /\ phase' = "idle" /\ books' = books
          /\ logged' = Views(books) /\ Views(books) = x.views /\ (counted' => nextSeq' = 1)
      BY <1>1 DEF OpenTruncate, LogIdle, Idle, vars
    <2>2. h[0] = x /\ x.next = 1
      OBVIOUS
    <2>3. x.views = Views([i \in {} |-> EmptyBook])
      OBVIOUS
    <2> HIDE DEF h, x
    <2>4. Len(file'.records) = 0 /\ 1 .. 0 = {} /\ 0 .. 0 = {0}
      BY <2>1
    <2>5. Retold(file'.records, h) /\ OwnIds(file'.records, h)
      BY <2>2, <2>3, <2>4 DEF Retold, OwnIds
    <2>6. LiveAt(x)'
      <3>1. Views(books)' = Views(books)
        BY <2>1 DEF Views
      <3> QED BY <2>1, <2>2, <3>1 DEF LiveAt
    <2>7. Told(h)'
      BY <2>1, <2>2, <2>4, <2>5, <2>6, ToldLive
    <2> QED BY <2>7
  <1>2. CASE OpenAppend \/ CloseLog
    <2>1. /\ plain /\ mode = "live" /\ mode' = "live" /\ file' = file /\ logged' = logged
          /\ counted' = counted /\ log' # "open"
      BY <1>2 DEF OpenAppend, CloseLog, LogIdle
    <2>2. PICK h, x : /\ Retold(file.records, h) /\ (counted => OwnIds(file.records, h))
                      /\ x = h[Len(file.records)] /\ x.views = logged
      BY <2>1, LiveTold
    <2>3. Told(h)'
      BY <2>1, <2>2, ToldLive
    <2> QED BY <2>3
  <1> QED BY <1>1, <1>2

(* A submission begins.                                                    *)
LEMMA SubmitTold ==
    ASSUME IInv, LogInv, RecInv, plain', NEW r \in Request, LiveSubmit(r)
    PROVE  \E h : Told(h)'
  <1>1. /\ plain /\ mode = "live" /\ mode' = "live" /\ file' = file /\ logged' = logged
        /\ log' = log /\ Submit(r)
        /\ counted' => counted /\ log = "open" /\ r.id = 0
    BY DEF LiveSubmit
  <1>2. PICK h, x : /\ Retold(file.records, h) /\ (counted => OwnIds(file.records, h))
                    /\ x = h[Len(file.records)] /\ x.next \in Nat
                    /\ x.views = logged
                    /\ log = "open" => LiveAt(x)
    BY <1>1, LiveTold
  <1>3. Retold(file'.records, h) /\ (counted' => OwnIds(file'.records, h))
    BY <1>1, <1>2
  <1>4. /\ phase = "idle" /\ phase' = "matching" /\ books' = books
        /\ taker'.remaining = taker'.quantity /\ taker'.instrument \in DOMAIN books
        /\ taker'.quantity \in Quantity /\ nextSeq' = nextSeq + 1
        /\ r.id = 0 => taker'.id = nextSeq
    BY <1>1 DEF Submit, Idle, Valid, AssignedId
  <1>5. taker'.instrument \in Instrument /\ nextSeq \in Int
    BY <1>4 DEF IInv, Shelf
  <1>6. ASSUME log' = "open" PROVE LiveAt(x)'
    <2>1. Views(books) = x.views /\ (counted => nextSeq <= x.next)
      BY <1>1, <1>2, <1>4, <1>6 DEF LiveAt
    <2>2. Views(books)' = Views(books)
      BY <1>4 DEF Views
    <2> DEFINE i == taker'.instrument
               q == taker'.quantity
    <2>3. TakerBook' = books[i]
      BY <1>4 DEF TakerBook
    <2>4. Views(books)[i] = View(books[i]) /\ Views(books) = With(Views(books), i, View(books[i]))
      BY <1>4, <1>5, ViewsUpdate
    <2>5. q \in Nat /\ q - taker'.remaining = 0
      BY <1>4, BookAssumption DEF Quantity
    <2> DEFINE w == NoTurns(x.views[i])
    <2>6. /\ Walk(taker'.side, taker'.price, q, x.views[i], w, 0)
          /\ w[0].view = x.views[i] /\ w[0].filled = 0
      BY <2>5, WalkStart
    <2> HIDE DEF w
    <2>7. counted' => taker'.id <= x.next /\ nextSeq' <= x.next + 1 + 0
      BY <1>1, <1>2, <1>4, <1>5, <2>1
    <2>8. View(TakerBook)' = View(books[i])
      BY <2>3 DEF View, Live
    <2>9. Views(books)' = With(x.views, i, View(TakerBook)')
      BY <2>1, <2>2, <2>4, <2>8
    <2>10. w[0].view = View(TakerBook)'
      BY <2>1, <2>4, <2>6, <2>8
    <2> QED BY <1>4, <2>1, <2>2, <2>5, <2>6, <2>7, <2>9, <2>10 DEF LiveAt
  <1>7. Told(h)'
    BY <1>1, <1>2, <1>3, <1>6, ToldLive
  <1> QED BY <1>7

(* A record that a replay skips is written, or the log is not open.        *)
LEMMA SkippedTold ==
    ASSUME LogInv, RecInv, plain, plain', mode = "live", mode' = "live", log' = log,
           NEW e, AppendRecord(e), Skipped(e),
           counted' => counted, logged' = logged,
           \A x : x.next \in Nat /\ x.views = logged /\ log = "open" /\ LiveAt(x) => LiveAt(x)'
    PROVE  \E h : Told(h)'
  <1>1. PICK h, x : /\ Retold(file.records, h) /\ (counted => OwnIds(file.records, h))
                    /\ file.records \in Seq(Record)
                    /\ x = h[Len(file.records)] /\ x.next \in Nat
                    /\ x.views = logged
                    /\ log = "open" => LiveAt(x)
    BY LiveTold
  <1>2. CASE log = "open"
    <2>1. file'.records = Append(file.records, e)
      BY <1>2, Appends
    <2>2. PICK g : /\ Retold(Append(file.records, e), g)
                   /\ g[Len(Append(file.records, e))] = x
                   /\ counted => OwnIds(Append(file.records, e), g)
      BY <1>1, RetoldMore
    <2>3. LiveAt(x)'
      BY <1>1, <1>2
    <2>4. Told(g)'
      BY <1>1, <2>1, <2>2, <2>3, ToldLive
    <2> QED BY <2>4
  <1>3. CASE log # "open"
    <2>1. file' = file
      BY <1>3 DEF AppendRecord
    <2>2. Told(h)'
      BY <1>1, <1>3, <2>1, ToldLive
    <2> QED BY <2>2
  <1> QED BY <1>2, <1>3

(* The taker of a submission and its book.                                 *)
LEMMA TakerFacts ==
    ASSUME IInv, phase = "matching"
    PROVE  /\ taker.instrument \in Instrument /\ taker.instrument \in DOMAIN books
           /\ taker.side \in Side /\ BookOK(TakerBook) /\ taker.id \in OrderId
           /\ taker.remaining \in Int /\ taker.remaining >= 0
           /\ taker.quantity \in Int /\ taker.remaining <= taker.quantity
           /\ taker.quantity \in Quantity /\ taker.type \in {"Limit", "Market"}
           /\ taker.type = "Limit" => taker.price \in Price
           /\ DOMAIN taker = {"id", "instrument", "side", "type", "tif", "price", "quantity",
                              "remaining", "trader", "sequence"}
  <1>1. taker \in Taker /\ TakerOK(taker, books, nextSeq)
    BY DEF IInv, TakerOK
  <1>2. BookOK(TakerBook)
    BY <1>1 DEF IInv, Shelf, GoodBook, BookAndHistory, TakerBook, TakerOK
  <1> QED BY <1>1, <1>2, BookAssumption DEF TakerOK, Taker, Quantity

(* A turn of the engine for a limit order.                                 *)
LEMMA MatchTurn ==
    ASSUME IInv, MatchStep, taker.type = "Limit"
    PROVE  LET b == TakerBook
               i == taker.instrument
               t == TurnQuantity(b, taker.side, taker.remaining)
           IN  /\ CanTurn(b, taker.side, taker.price, taker.remaining)
               /\ DOMAIN books' = DOMAIN books
               /\ books'[i] = Turned(b, taker.side, taker.remaining)
               /\ \A j \in DOMAIN books : j # i => books'[j] = books[j]
               /\ taker' = [taker EXCEPT !.remaining = taker.remaining - t]
               /\ t \in Int /\ t >= 1 /\ t <= taker.remaining
               /\ nextSeq' = nextSeq + 1
  <1> DEFINE b == TakerBook
             i == taker.instrument
             opp == Opposite(taker.side)
             id == BestOrder(b, opp)
             t == TurnQuantity(b, taker.side, taker.remaining)
  <1>1. /\ phase = "matching" /\ CanMatch /\ nextSeq' = nextSeq + 1
        /\ books' = [books EXCEPT ![i] = FillOrder(books[i], id, MatchQuantity(b.index[id]))]
        /\ taker' = [taker EXCEPT !.remaining = taker.remaining - MatchQuantity(b.index[id])]
    BY DEF MatchStep
  <1>2. i \in DOMAIN books /\ taker.side \in Side /\ BookOK(b) /\ taker.remaining \in Int
    BY <1>1, TakerFacts
  <1>3. CanTurn(b, taker.side, taker.price, taker.remaining)
    BY <1>1 DEF CanMatch, CanTurn
  <1>4. MatchQuantity(b.index[id]) = t
    BY DEF MatchQuantity, TurnQuantity
  <1>5. t \in Int /\ t >= 1 /\ t <= taker.remaining
    BY <1>2, <1>3, TurnFacts
  <1>6. FillOrder(books[i], id, t) = Turned(b, taker.side, taker.remaining)
    BY DEF Turned, TakerBook
  <1> HIDE DEF t
  <1> QED BY <1>1, <1>2, <1>3, <1>4, <1>5, <1>6 DEF t

(* Where the loop can take no turn.                                        *)
LEMMA MatchedTurn ==
    ASSUME phase = "matching", ~ CanMatch, taker.type = "Limit"
    PROVE  ~ CanTurn(TakerBook, taker.side, taker.price, taker.remaining)
  BY DEF CanMatch, CanTurn

(* The turn as a step of a run.                                            *)
LEMMA TurnTaken ==
    ASSUME NEW b, BookOK(b), NEW s, NEW p, NEW q \in Int, NEW r \in Int,
           CanTurn(b, s, p, r), NEW x, x.view = View(b), x.filled = q - r,
           NEW y, y.view = View(Turned(b, s, r)),
           y.filled = (q - r) + TurnQuantity(b, s, r)
    PROVE  Turn(s, p, q, x, y)
  <1>1. q - x.filled = r
    OBVIOUS
  <1> QED BY <1>1 DEF Turn

(* While a submission is matched the log stays in step.                    *)
LEMMA MatchLive ==
    ASSUME IInv, MatchStep, counted' => counted, NEW x, x.next \in Nat, LiveAt(x)
    PROVE  LiveAt(x)'
  <1>1. phase = "matching" /\ phase' = "matching"
    BY DEF MatchStep
  <1>2. /\ taker.instrument \in Instrument /\ taker.instrument \in DOMAIN books
        /\ taker.side \in Side /\ BookOK(TakerBook)
        /\ taker.remaining \in Int /\ taker.remaining >= 0
        /\ taker.quantity \in Int /\ taker.remaining <= taker.quantity
    BY <1>1, TakerFacts
  <1>3. /\ taker'.type = taker.type /\ taker'.quantity = taker.quantity
        /\ taker'.remaining # taker'.quantity
    <2> DEFINE q == MatchQuantity(TakerBook.index[BestOrder(TakerBook, Opposite(taker.side))])
    <2>1. q \in Quantity
      BY <1>1, MatchFacts DEF MatchStep
    <2>2. taker' = [taker EXCEPT !.remaining = taker.remaining - q]
      BY DEF MatchStep
    <2> HIDE DEF q
    <2>3. taker'.remaining = taker.remaining - q /\ taker'.type = taker.type
          /\ taker'.quantity = taker.quantity
      BY <1>1, <2>2, TakerFacts
    <2>4. q \in Int /\ q >= 1
      BY <2>1, BookAssumption DEF Quantity
    <2> QED BY <1>2, <2>3, <2>4
  <1>4. ASSUME taker.type = "Limit"
        PROVE  \E w, m :
                  /\ Walk(taker'.side, taker'.price, taker'.quantity,
                          x.views[taker'.instrument], w, m)
                  /\ w[m].view = View(TakerBook)'
                  /\ w[m].filled = taker'.quantity - taker'.remaining
                  /\ Views(books)' = With(x.views, taker'.instrument, View(TakerBook)')
                  /\ counted' => taker'.id <= x.next /\ nextSeq' <= x.next + 1 + m
    <2> DEFINE b == TakerBook
               i == taker.instrument
               s == taker.side
               p == taker.price
               q == taker.quantity
               r == taker.remaining
               t == TurnQuantity(b, s, r)
               c == Turned(b, s, r)
    <2>1. PICK w, m : /\ Walk(s, p, q, x.views[i], w, m)
                      /\ w[m].view = View(b)
                      /\ w[m].filled = q - r
                      /\ Views(books) = With(x.views, i, View(b))
                      /\ counted => taker.id <= x.next /\ nextSeq <= x.next + 1 + m
      BY <1>1, <1>4 DEF LiveAt
    <2>2. /\ CanTurn(b, s, p, r) /\ DOMAIN books' = DOMAIN books /\ books'[i] = c
          /\ \A j \in DOMAIN books : j # i => books'[j] = books[j]
          /\ taker' = [taker EXCEPT !.remaining = r - t]
          /\ t \in Int /\ t >= 1 /\ t <= r
          /\ nextSeq' = nextSeq + 1
      BY <1>4, MatchTurn
    <2>3. /\ taker'.instrument = i /\ taker'.side = s /\ taker'.price = p /\ taker'.quantity = q
          /\ taker'.remaining = r - t /\ taker'.id = taker.id
      BY <1>1, <2>2, TakerFacts
    <2>4. View(TakerBook)' = View(c)
      BY <2>2, <2>3 DEF TakerBook, View, Live
    <2> HIDE DEF t, c
    <2>5. Views(books)' = With(x.views, i, View(c))
      <3>1. Views(books') = With(Views(books), i, View(c))
        BY <1>2, <2>2, ViewsUpdate
      <3>2. With(Views(books), i, View(c)) = With(x.views, i, View(c))
        BY <1>2, <2>1, WithTwice
      <3> QED BY <3>1, <3>2
    <2> DEFINE y == [view |-> View(c), filled |-> (q - r) + t]
    <2>6. y.view = View(c) /\ y.filled = (q - r) + t
      OBVIOUS
    <2> HIDE DEF y
    <2>7. Turn(s, p, q, w[m], y)
      BY <1>2, <2>1, <2>2, <2>6, TurnTaken DEF t, c
    <2>8. /\ y.filled \in Nat /\ w[m].filled <= y.filled /\ y.filled <= q /\ q \in Nat
      BY <1>2, <2>1, <2>2, <2>6
    <2> DEFINE z == Longer(w, m, y)
    <2>9. Walk(s, p, q, x.views[i], z, m + 1) /\ z[m + 1] = y
      BY <2>1, <2>7, <2>8, WalkOn
    <2>10. m \in Nat /\ nextSeq \in Int
      BY <2>1 DEF Walk, IInv
    <2> HIDE DEF z
    <2>11. counted' => taker'.id <= x.next /\ nextSeq' <= x.next + 1 + (m + 1)
      BY <2>1, <2>2, <2>3, <2>10
    <2>12. y.filled = q - (r - t)
      BY <1>2, <2>2, <2>6
    <2> QED BY <2>3, <2>4, <2>5, <2>6, <2>9, <2>11, <2>12
  <1> QED BY <1>1, <1>3, <1>4 DEF LiveAt

(* A trade is written, and so is a refusal.                                *)
LEMMA TradeTold ==
    ASSUME IInv, LogInv, RecInv, plain', LiveMatch
    PROVE  \E h : Told(h)'
  <1> DEFINE e == [kind |-> "Trade", sequence |-> taker.sequence]
  <1>1. /\ plain /\ mode = "live" /\ mode' = "live" /\ log' = log /\ logged' = logged
        /\ counted' = counted /\ MatchStep /\ AppendRecord(e)
    BY DEF LiveMatch, LogTrade
  <1>2. Skipped(e)
    BY DEF Skipped
  <1> HIDE DEF e
  <1> QED BY <1>1, <1>2, MatchLive, SkippedTold

LEMMA RefusedTold ==
    ASSUME IInv, LogInv, RecInv, plain', NEW id, LiveRefused(id)
    PROVE  \E h : Told(h)'
  <1> DEFINE e == [kind |-> "OrderRejected", sequence |-> 0]
  <1>1. /\ plain /\ mode = "live" /\ mode' = "live" /\ log' = log /\ logged' = logged
        /\ counted' = counted /\ AppendRecord(e)
        /\ phase = "idle" /\ phase' = "idle" /\ books' = books /\ nextSeq' = nextSeq
    BY DEF LiveRefused, SubmitRefused, Idle
  <1>2. Skipped(e)
    BY DEF Skipped
  <1>3. Views(books)' = Views(books)
    BY <1>1 DEF Views
  <1>4. \A x : LiveAt(x) => LiveAt(x)'
    BY <1>1, <1>3 DEF LiveAt
  <1> HIDE DEF e
  <1> QED BY <1>1, <1>2, <1>4, SkippedTold

(* The record of a result of a limit order.                                *)
LEMMA RecordFields ==
    ASSUME IInv, phase = "matching", NEW st, NEW filled \in Int, NEW resting \in Int,
           Finish(st, filled, resting)
    PROVE  LET e == OrderRecord(result')
           IN  /\ e.kind = RecordKind(st) /\ e.id = taker.id
               /\ e.instrument = taker.instrument /\ e.side = taker.side
               /\ e.price = taker.price /\ e.quantity = filled + resting
               /\ result'.status = st /\ result'.filled = filled
               /\ phase' = "idle" /\ nextSeq' = nextSeq
  BY DEF Finish, Report, OrderRecord, PersistedQuantity

(* What the record e of a limit order that left the state x tells.         *)
Tells(e, x) ==
    /\ Resubmittable(e)
    /\ \E w, m, v :
           /\ Walk(e.side, e.price, e.quantity, x.views[e.instrument], w, m)
           /\ Settles(e, w[m], v)
           /\ Views(books') = With(x.views, e.instrument, v)
           /\ counted' => e.id <= x.next /\ nextSeq' <= x.next + 1 + m

LEMMA LiveCourse ==
    ASSUME IInv, phase = "matching", taker.type = "Limit", NEW x, LiveAt(x)
    PROVE  \E w, m :
               /\ Walk(taker.side, taker.price, taker.quantity, x.views[taker.instrument], w, m)
               /\ w[m].view = View(TakerBook)
               /\ w[m].filled = taker.quantity - taker.remaining
               /\ Views(books) = With(x.views, taker.instrument, View(TakerBook))
               /\ counted => taker.id <= x.next /\ nextSeq <= x.next + 1 + m
  BY DEF LiveAt

(* A limit order that was filled as far as its record says.                *)
LEMMA FilledTells ==
    ASSUME IInv, phase = "matching", taker.type = "Limit", NEW x, LiveAt(x),
           NEW st \in {"FullyFilled", "PartiallyFilled"},
           Finish(st, taker.quantity - taker.remaining, 0), books' = books,
           taker.quantity - taker.remaining > 0, counted' => counted
    PROVE  Tells(OrderRecord(result'), x)
  <1> DEFINE e == OrderRecord(result')
             i == taker.instrument
             f == taker.quantity - taker.remaining
             b == TakerBook
  <1>1. /\ i \in Instrument /\ taker.side \in Side /\ BookOK(b) /\ taker.id \in OrderId
        /\ taker.remaining \in Int /\ taker.remaining >= 0 /\ taker.quantity \in Quantity
        /\ taker.quantity \in Int /\ taker.price \in Price
    BY TakerFacts
  <1>2. f \in Int /\ f \in Quantity /\ f + 0 = f /\ taker.quantity \in Nat
    BY <1>1, BookAssumption DEF Quantity
  <1>3. PICK w, m :
               /\ Walk(taker.side, taker.price, taker.quantity, x.views[i], w, m)
               /\ w[m].view = View(b)
               /\ w[m].filled = f
               /\ Views(books) = With(x.views, i, View(b))
               /\ counted => taker.id <= x.next /\ nextSeq <= x.next + 1 + m
    BY LiveCourse
  <1>4. Walk(taker.side, taker.price, f, x.views[i], w, m)
    BY <1>1, <1>2, <1>3, WalkExact
  <1>5. /\ e.kind = RecordKind(st) /\ e.id = taker.id /\ e.instrument = i /\ e.side = taker.side
        /\ e.price = taker.price /\ e.quantity = f /\ nextSeq' = nextSeq
    BY <1>2, RecordFields
  <1>6. e.kind \in {"OrderFilled", "OrderPartiallyFilled"}
    BY <1>5 DEF RecordKind
  <1> HIDE DEF e, f, b, i
  <1>7. Resubmittable(e)
    BY <1>1, <1>2, <1>5, <1>6 DEF Resubmittable
  <1>8. ~ CanTurn(b, e.side, e.price, f - f)
    BY <1>2 DEF CanTurn
  <1>9. Settles(e, w[m], View(b))
    BY <1>1, <1>3, <1>5, <1>8 DEF Settles
  <1>10. Views(books') = With(x.views, i, View(b))
    BY <1>3
  <1>11. Tells(e, x)
    BY <1>3, <1>4, <1>5, <1>7, <1>9, <1>10 DEF Tells
  <1> QED BY <1>11 DEF e

(* A limit order that rests.                                               *)
LEMMA RestTells ==
    ASSUME IInv, phase = "matching", taker.type = "Limit", NEW x, LiveAt(x), ~ CanMatch,
           taker.remaining > 0, counted' => counted, NEW o,
           o = [side |-> taker.side, price |-> taker.price,
                remaining |-> taker.remaining, status |-> "Open",
                trader |-> taker.trader, sequence |-> taker.sequence],
           InsertOK(TakerBook, taker.id, o),
           DOMAIN books' = DOMAIN books,
           books'[taker.instrument] = InsertOrder(TakerBook, taker.id, o),
           \A j \in DOMAIN books : j # taker.instrument => books'[j] = books[j],
           Finish("Accepted", FilledQuantity, taker.remaining)
    PROVE  Tells(OrderRecord(result'), x)
  <1> DEFINE e == OrderRecord(result')
             i == taker.instrument
             q == taker.quantity
             r == taker.remaining
             b == TakerBook
             l == Leftover(e, r)
             v == View(InsertOrder(b, taker.id, o))
  <1>1. /\ i \in Instrument /\ i \in DOMAIN books /\ taker.side \in Side /\ BookOK(b)
        /\ taker.id \in OrderId /\ r \in Int /\ r >= 0 /\ r <= q /\ q \in Quantity
        /\ q \in Int /\ taker.price \in Price
    BY TakerFacts
  <1>2. FilledQuantity = q - r /\ q - r \in Int /\ (q - r) + r = q /\ q - r # q /\ q - (q - r) = r
    BY <1>1 DEF FilledQuantity
  <1>3. PICK w, m :
               /\ Walk(taker.side, taker.price, q, x.views[i], w, m)
               /\ w[m].view = View(b)
               /\ w[m].filled = q - r
               /\ Views(books) = With(x.views, i, View(b))
               /\ counted => taker.id <= x.next /\ nextSeq <= x.next + 1 + m
    BY LiveCourse
  <1>4. /\ e.kind = "OrderRested" /\ e.id = taker.id /\ e.instrument = i /\ e.side = taker.side
        /\ e.price = taker.price /\ e.quantity = q /\ nextSeq' = nextSeq
    BY <1>1, <1>2, RecordFields DEF RecordKind
  <1> HIDE DEF e
  <1>5. Resubmittable(e)
    BY <1>1, <1>4 DEF Resubmittable
  <1>6. ~ CanTurn(b, e.side, e.price, r)
    BY <1>4, MatchedTurn
  <1>7. o \in Order /\ l \in Order /\ o.side = l.side /\ o.price = l.price /\ o.remaining = l.remaining
    <2>1. taker.trader \in TraderId \cup {0} /\ taker.sequence \in Nat
      BY DEF IInv, TakerOK, Taker
    <2>2. r \in 0 .. MaxQuantity
      BY <1>1, BookAssumption DEF Quantity
    <2> HIDE DEF r
    <2> QED BY <1>1, <1>4, <2>1, <2>2 DEF Order, Leftover, r
  <1> HIDE DEF l
  <1>8. InsertOK(b, taker.id, l) /\ v = View(InsertOrder(b, taker.id, l))
    BY <1>1, <1>7, SameInsert
  <1>9. Views(books') = With(x.views, i, v)
    <2>1. Views(books') = With(Views(books), i, View(books'[i]))
      BY <1>1, ViewsUpdate
    <2>2. With(Views(books), i, v) = With(x.views, i, v)
      BY <1>1, <1>3, WithTwice
    <2> QED BY <2>1, <2>2
  <1> HIDE DEF v, b, i, q, r
  <1>10. Settles(e, w[m], v)
    BY <1>1, <1>2, <1>3, <1>4, <1>6, <1>8 DEF Settles, l
  <1>11. Tells(e, x)
    BY <1>3, <1>4, <1>5, <1>9, <1>10 DEF Tells
  <1> QED BY <1>11 DEF e

(* A faithful result tells what happened, or that nothing did.             *)
LEMMA FinishTells ==
    ASSUME IInv, FinishAny, Faithful, NEW x, LiveAt(x),
           counted' => counted /\ result'.status # "Rejected"
    PROVE  \/ /\ Skipped(OrderRecord(result'))
              /\ Views(books') = x.views
              /\ ~ counted'
           \/ Tells(OrderRecord(result'), x)
  <1>1. phase = "matching" /\ ~ CanMatch
    BY DEF FinishAny, FinishFilled, FinishMarket, FinishIOC, FinishRest, Matched
  <1>2. /\ taker.remaining \in Int /\ taker.quantity \in Int /\ taker.quantity >= 1
        /\ taker.instrument \in DOMAIN books /\ taker.type \in {"Limit", "Market"}
        /\ taker.remaining <= taker.quantity
    BY <1>1, TakerFacts, BookAssumption DEF Quantity
  <1>3. FilledQuantity = taker.quantity - taker.remaining /\ FilledQuantity \in Int
    BY <1>2 DEF FilledQuantity
  <1>4. ASSUME NEW rest \in Int, Finish("Rejected", FilledQuantity, rest),
               \A j \in DOMAIN books : books'[j] = books[j], DOMAIN books' = DOMAIN books
        PROVE  /\ Skipped(OrderRecord(result'))
               /\ Views(books') = x.views
               /\ ~ counted'
    <2>1. /\ OrderRecord(result').kind = RecordKind("Rejected")
          /\ result'.status = "Rejected" /\ result'.filled = FilledQuantity
      BY <1>1, <1>3, <1>4, RecordFields
    <2>2. Skipped(OrderRecord(result'))
      BY <2>1 DEF Skipped, RecordKind
    <2>3. taker.remaining = taker.quantity
      BY <1>2, <1>3, <2>1 DEF Faithful
    <2>4. Views(books) = x.views
      BY <1>1, <2>3 DEF LiveAt
    <2>5. Views(books') = Views(books)
      BY <1>4 DEF Views
    <2> QED BY <2>1, <2>2, <2>4, <2>5
  <1>5. CASE FinishFilled
    <2>1. /\ taker.remaining = 0 /\ Finish("FullyFilled", taker.quantity, 0) /\ books' = books
      BY <1>5 DEF FinishFilled
    <2>2. result'.filled = taker.quantity
      BY <1>1, <1>2, <2>1, RecordFields
    <2>3. taker.type = "Limit"
      BY <1>2, <2>2 DEF Faithful
    <2>4. taker.quantity - taker.remaining = taker.quantity /\ taker.quantity > 0
      BY <1>2, <2>1
    <2> QED BY <1>1, <2>1, <2>3, <2>4, FilledTells
  <1>6. CASE FinishMarket
    <2>1. /\ taker.type = "Market" /\ books' = books
          /\ Finish(IF FilledQuantity > 0 THEN "PartiallyFilled" ELSE "Rejected", FilledQuantity, 0)
      BY <1>6 DEF FinishMarket
    <2>2. result'.filled = FilledQuantity
      BY <1>1, <1>3, <2>1, RecordFields
    <2>3. ~ (FilledQuantity > 0)
      BY <1>3, <2>1, <2>2 DEF Faithful
    <2> QED BY <1>4, <2>1, <2>3
  <1>7. CASE FinishIOC
    <2>1. /\ taker.type = "Limit" /\ books' = books
          /\ Finish(IF FilledQuantity > 0 THEN "PartiallyFilled" ELSE "Cancelled", FilledQuantity, 0)
      BY <1>7 DEF FinishIOC
    <2>2. FilledQuantity > 0
      <3> SUFFICES ASSUME ~ (FilledQuantity > 0) PROVE FALSE
        OBVIOUS
      <3>1. Finish("Cancelled", FilledQuantity, 0)
        BY <2>1
      <3>2. result'.status = "Cancelled"
        BY <3>1 DEF Finish, Report
      <3> QED BY <3>2 DEF Faithful
    <2>3. Finish("PartiallyFilled", taker.quantity - taker.remaining, 0)
      BY <1>3, <2>1, <2>2
    <2> QED BY <1>1, <1>3, <2>1, <2>2, <2>3, FilledTells
  <1>8. CASE FinishRest
    <2> DEFINE o == [side |-> taker.side, price |-> taker.price,
                     remaining |-> taker.remaining, status |-> "Open",
                     trader |-> taker.trader, sequence |-> taker.sequence]
               i == taker.instrument
               ok == InsertOK(TakerBook, taker.id, o)
    <2>1. /\ taker.type = "Limit" /\ taker.remaining > 0
          /\ books' = [books EXCEPT ![i] = IF ok THEN InsertOrder(books[i], taker.id, o) ELSE books[i]]
          /\ Finish(IF ok THEN "Accepted" ELSE "Rejected", FilledQuantity, taker.remaining)
      BY <1>8 DEF FinishRest
    <2>2. CASE ok
      <3>1. /\ DOMAIN books' = DOMAIN books /\ books'[i] = InsertOrder(TakerBook, taker.id, o)
            /\ \A j \in DOMAIN books : j # i => books'[j] = books[j]
        BY <1>2, <2>1, <2>2 DEF TakerBook
      <3>2. Finish("Accepted", FilledQuantity, taker.remaining)
        BY <2>1, <2>2
      <3> QED BY <1>1, <2>1, <2>2, <3>1, <3>2, RestTells
    <2>3. CASE ~ ok
      <3>1. Finish("Rejected", FilledQuantity, taker.remaining)
        BY <2>1, <2>3
      <3>2. DOMAIN books' = DOMAIN books /\ \A j \in DOMAIN books : books'[j] = books[j]
        BY <2>1, <2>3
      <3> QED BY <1>2, <1>4, <3>1, <3>2
    <2> QED BY <2>2, <2>3
  <1> QED BY <1>5, <1>6, <1>7, <1>8 DEF FinishAny

(* A result is written.                                                    *)
LEMMA FinishTold ==
    ASSUME IInv, LogInv, RecInv, plain', LiveFinish
    PROVE  \E h : Told(h)'
  <1> DEFINE e == OrderRecord(result')
  <1>1. /\ plain /\ mode = "live" /\ mode' = "live" /\ log' = log /\ FinishAny /\ AppendRecord(e)
        /\ logged' = IF log = "open" THEN Views(books') ELSE logged
        /\ log = "open" => Faithful
        /\ counted' => counted /\ result'.status # "Rejected"
    BY DEF LiveFinish, LogResult
  <1>2. PICK h, x : /\ Retold(file.records, h) /\ (counted => OwnIds(file.records, h))
                    /\ file.records \in Seq(Record)
                    /\ x = h[Len(file.records)] /\ x.next \in Nat
                    /\ x.views = logged
                    /\ log = "open" => LiveAt(x)
    BY <1>1, LiveTold
  <1>3. phase' = "idle" /\ nextSeq' = nextSeq
    BY <1>1 DEF FinishAny, FinishFilled, FinishMarket, FinishIOC, FinishRest, Finish
  <1>4. CASE log # "open"
    <2>1. file' = file
      BY <1>1, <1>4 DEF AppendRecord
    <2>2. Told(h)'
      BY <1>1, <1>2, <1>4, <2>1, ToldLive
    <2> QED BY <2>2
  <1>5. CASE log = "open"
    <2>1. file'.records = Append(file.records, e)
      BY <1>1, <1>5, Appends
    <2>2. \/ Skipped(e) /\ Views(books') = x.views /\ ~ counted'
          \/ Tells(e, x)
      BY <1>1, <1>2, <1>5, FinishTells
    <2> HIDE DEF e
    <2>3. CASE Skipped(e) /\ Views(books') = x.views /\ ~ counted'
      <3>1. PICK g : /\ Retold(Append(file.records, e), g)
                     /\ g[Len(Append(file.records, e))] = x
        BY <1>2, <2>3, RetoldMore
      <3>2. LiveAt(x)'
        BY <1>3, <2>3 DEF LiveAt
      <3>3. Told(g)'
        BY <1>1, <1>5, <2>1, <2>3, <3>1, <3>2, ToldLive
      <3> QED BY <3>3
    <2>4. CASE Tells(e, x)
      <3>1. PICK w, m, v :
               /\ Walk(e.side, e.price, e.quantity, x.views[e.instrument], w, m)
               /\ Settles(e, w[m], v)
               /\ Views(books') = With(x.views, e.instrument, v)
               /\ counted' => e.id <= x.next /\ nextSeq' <= x.next + 1 + m
        BY <2>4 DEF Tells
      <3>2. PICK y : y.views = With(x.views, e.instrument, v) /\ y.next = x.next + 1 + m
        <4> WITNESS [views |-> With(x.views, e.instrument, v), next |-> x.next + 1 + m]
        <4> QED OBVIOUS
      <3>3. m \in Nat /\ y.next \in Nat
        BY <1>2, <3>1, <3>2 DEF Walk
      <3>4. Carries(e, x, y)
        BY <2>4, <3>1, <3>2 DEF Tells, Carries, Course
      <3>5. PICK g : /\ Retold(Append(file.records, e), g)
                     /\ g[Len(Append(file.records, e))] = y
                     /\ (OwnIds(file.records, h) /\ e.id <= x.next)
                            => OwnIds(Append(file.records, e), g)
        BY <1>2, <3>3, <3>4, RetoldMore, ZenonT(30)
      <3>6. counted' => OwnIds(file'.records, g)
        BY <1>1, <1>2, <2>1, <3>1, <3>5
      <3>7. LiveAt(y)'
        BY <1>3, <3>1, <3>2 DEF LiveAt
      <3>8. Told(g)'
        BY <1>1, <1>5, <2>1, <3>1, <3>2, <3>5, <3>6, <3>7, ToldLive
      <3> QED BY <3>8
    <2> QED BY <2>2, <2>3, <2>4
  <1> QED BY <1>4, <1>5

-----------------------------------------------------------------------------
(* The replay follows the course that the file tells.                      *)

(* The engine can take a turn exactly where the course goes on, and takes  *)
(* it to the next state of the course.                                     *)
LEMMA CourseTurn ==
    ASSUME NEW e, Resubmittable(e), NEW x, NEW y, NEW w, NEW m, Course(e, x, y, w, m),
           NEW k \in 0 .. m, NEW b, BookOK(b), View(b) = w[k].view,
           NEW r \in Int, r = e.quantity - w[k].filled
    PROVE  /\ CanTurn(b, e.side, e.price, r) <=> k < m
           /\ k < m => /\ w[k + 1].view = View(Turned(b, e.side, r))
                       /\ w[k + 1].filled = w[k].filled + TurnQuantity(b, e.side, r)
  <1>1. m \in Nat /\ e.side \in Side
    BY DEF Course, Walk, Resubmittable
  <1>2. CASE k < m
    <2>1. k \in 0 .. (m - 1)
      BY <1>1, <1>2
    <2>2. Turn(e.side, e.price, e.quantity, w[k], w[k + 1])
      BY <2>1 DEF Course, Walk
    <2>3. PICK c : /\ BookOK(c)
                   /\ View(c) = w[k].view
                   /\ CanTurn(c, e.side, e.price, r)
                   /\ w[k + 1].view = View(Turned(c, e.side, r))
                   /\ w[k + 1].filled = w[k].filled + TurnQuantity(c, e.side, r)
      BY <2>2 DEF Turn
    <2> QED BY <1>1, <1>2, <2>3, SameTurn
  <1>3. CASE ~ (k < m)
    <2>1. k = m
      BY <1>1, <1>3
    <2>2. PICK v : Settles(e, w[m], v)
      BY DEF Course
    <2>3. PICK c : BookOK(c) /\ View(c) = w[m].view /\ ~ CanTurn(c, e.side, e.price, r)
      BY <2>1, <2>2 DEF Settles
    <2> QED BY <1>1, <1>3, <2>1, <2>3, SameTurn
  <1> QED BY <1>2, <1>3

(* At its end the engine does with the rest what the course says.          *)
LEMMA CourseEnd ==
    ASSUME NEW e, Resubmittable(e), NEW x, NEW y, NEW w, NEW m, Course(e, x, y, w, m),
           NEW b, BookOK(b), View(b) = w[m].view, NEW r \in Int, r = e.quantity - w[m].filled
    PROVE  /\ r = 0 => y.views = With(x.views, e.instrument, View(b))
           /\ \A o \in Order :
                  (r # 0 /\ o.side = e.side /\ o.price = e.price /\ o.remaining = r) =>
                      /\ InsertOK(b, e.id, o)
                      /\ y.views = With(x.views, e.instrument, View(InsertOrder(b, e.id, o)))
  <1>1. PICK v : Settles(e, w[m], v) /\ y.views = With(x.views, e.instrument, v)
    BY DEF Course
  <1>2. /\ e.quantity \in Int /\ w[m].filled \in Int /\ e.id \in OrderId
        /\ e.side \in Side /\ e.price \in Price
    <2>1. m \in 0 .. m
      BY DEF Course, Walk
    <2> QED BY <2>1, BookAssumption DEF Course, Walk, Resubmittable, Quantity
  <1>3. PICK c : /\ BookOK(c)
                 /\ View(c) = w[m].view
                 /\ IF w[m].filled = e.quantity
                    THEN v = w[m].view
                    ELSE /\ InsertOK(c, e.id, Leftover(e, r))
                         /\ v = View(InsertOrder(c, e.id, Leftover(e, r)))
    BY <1>1 DEF Settles
  <1>4. r = 0 => v = View(b)
    BY <1>2, <1>3
  <1>5. ASSUME NEW o \in Order, r # 0, o.side = e.side, o.price = e.price, o.remaining = r
        PROVE  InsertOK(b, e.id, o) /\ v = View(InsertOrder(b, e.id, o))
    <2> DEFINE l == Leftover(e, r)
    <2>1. InsertOK(c, e.id, l) /\ v = View(InsertOrder(c, e.id, l))
      BY <1>2, <1>3, <1>5
    <2>2. r \in 0 .. MaxQuantity
      BY <1>5 DEF Order
    <2>3. l \in Order /\ l.side = e.side /\ l.price = e.price /\ l.remaining = r
      BY <1>2, <2>2 DEF Leftover, Order
    <2> HIDE DEF l
    <2> QED BY <1>2, <1>3, <1>5, <2>1, <2>3, SameInsert
  <1> QED BY <1>1, <1>4, <1>5

(* What a step has to show during the replay.                              *)
LEMMA ToldReplay ==
    ASSUME NEW h, Told(h), mode \in {"replay", "recovered"}, mode' \in {"replay", "recovered"},
           file' = file, counted' = counted, logged' = logged,
           NEW n, Replayed(h, n)', counted => FreshIds'
    PROVE  Told(h)'
  BY DEF Told

LEMMA StartTold ==
    ASSUME LogInv, RecInv, plain', StartReplay
    PROVE  \E h : Told(h)'
  <1>1. /\ plain /\ mode = "down" /\ mode' = "replay" /\ file' = file /\ logged' = logged
        /\ counted' = counted /\ books' = [i \in Instrument |-> EmptyBook]
        /\ phase' = phase /\ nextSeq' = nextSeq /\ todo' = ReadAll
    BY DEF StartReplay
  <1>2. phase = "idle" /\ nextSeq = 1 /\ file.header /\ file.records \in Seq(Record)
    BY <1>1 DEF LogInv, RecInv, Init
  <1>3. PICK h : Told(h)
    BY <1>1 DEF RecInv
  <1>4. todo' = file.records
    BY <1>1, <1>2 DEF ReadAll
  <1>5. Views(books') = Views([i \in {} |-> EmptyBook])
    BY <1>1 DEF Views
  <1>6. Views(books') = h[0].views /\ h[0].next = 1
    BY <1>3, <1>5 DEF Told, Retold
  <1>7. Len(file.records) \in Nat /\ \A k \in 1 .. Len(file.records) : 0 + k = k
    BY <1>2
  <1>8. Replayed(h, 0)'
    BY <1>1, <1>2, <1>4, <1>6, <1>7 DEF Replayed
  <1>9. FreshIds'
    <2>1. \A i \in DOMAIN books' : Live(books'[i]) = {}
      BY <1>1, EmptyHistory
    <2> QED BY <1>1, <1>2, <2>1 DEF FreshIds
  <1>10. Told(h)'
    BY <1>1, <1>3, <1>8, <1>9 DEF Told
  <1> QED BY <1>10

(* The next record, which is of a kind that is resubmitted or skipped.     *)
LEMMA NextRecord ==
    ASSUME LogInv, NEW h, Retold(file.records, h), NEW n, Replayed(h, n), todo # << >>
    PROVE  /\ n + 1 \in 1 .. Len(file.records)
           /\ Head(todo) = file.records[n + 1]
           /\ \/ Skipped(Head(todo)) /\ h[n + 1] = h[n]
              \/ Carries(Head(todo), h[n], h[n + 1])
           /\ OwnIds(file.records, h) => Skipped(Head(todo)) \/ Head(todo).id <= h[n].next
           /\ Len(Tail(todo)) = Len(file.records) - (n + 1)
           /\ \A k \in 1 .. Len(Tail(todo)) : Tail(todo)[k] = file.records[(n + 1) + k]
           /\ (n + 1) - 1 = n
           /\ h[n].next \in Nat
  <1>1. todo \in Seq(Record) /\ file.records \in Seq(Record)
    BY DEF LogInv
  <1>2. /\ n \in 0 .. Len(file.records) /\ Len(todo) = Len(file.records) - n
        /\ \A k \in 1 .. Len(todo) : todo[k] = file.records[n + k]
    BY DEF Replayed
  <1>3. Len(todo) \in Nat /\ Len(todo) >= 1 /\ Head(todo) = todo[1]
        /\ Len(file.records) \in Nat
    BY <1>1
  <1>4. n + 1 \in 1 .. Len(file.records) /\ Head(todo) = file.records[n + 1] /\ (n + 1) - 1 = n
    BY <1>2, <1>3
  <1>5. /\ \/ Skipped(Head(todo)) /\ h[n + 1] = h[n]
           \/ Carries(Head(todo), h[n], h[n + 1])
        /\ OwnIds(file.records, h) => Skipped(Head(todo)) \/ Head(todo).id <= h[n].next
    <2>1. PICK k \in 1 .. Len(file.records) : k = n + 1
      BY <1>4
    <2>2. \/ Skipped(file.records[k]) /\ h[k] = h[k - 1]
          \/ Carries(file.records[k], h[k - 1], h[k])
      BY DEF Retold
    <2>3. k - 1 = n
      BY <1>2, <1>3, <2>1
    <2>4. Head(todo) = file.records[k] /\ h[k - 1] = h[n] /\ h[k] = h[n + 1]
      BY <1>4, <2>1, <2>3, Zenon
    <2>5. OwnIds(file.records, h) => Skipped(file.records[k]) \/ file.records[k].id <= h[k - 1].next
      BY DEF OwnIds
    <2> QED BY <2>2, <2>4, <2>5
  <1>6. Len(Tail(todo)) = Len(todo) - 1 /\ \A k \in 1 .. Len(Tail(todo)) : Tail(todo)[k] = todo[k + 1]
    BY <1>1, <1>3
  <1>7. \A k \in 1 .. Len(Tail(todo)) : Tail(todo)[k] = file.records[(n + 1) + k]
    <2> SUFFICES ASSUME NEW k \in 1 .. Len(Tail(todo))
                 PROVE  Tail(todo)[k] = file.records[(n + 1) + k]
      OBVIOUS
    <2>1. k + 1 \in 1 .. Len(todo) /\ n + (k + 1) = (n + 1) + k
      BY <1>2, <1>3, <1>6
    <2> QED BY <1>2, <1>6, <2>1
  <1>8. Len(Tail(todo)) = Len(file.records) - (n + 1)
    BY <1>2, <1>3, <1>6
  <1>9. h[n].next \in Nat
    BY <1>2 DEF Retold
  <1> QED BY <1>4, <1>5, <1>7, <1>8, <1>9

LEMMA SkipTold ==
    ASSUME LogInv, RecInv, plain', ReplaySkip
    PROVE  \E h : Told(h)'
  <1>1. /\ plain /\ mode = "replay" /\ mode' = "replay" /\ file' = file /\ logged' = logged
        /\ counted' = counted /\ books' = books /\ phase = "idle" /\ phase' = "idle"
        /\ nextSeq' = nextSeq /\ todo' = Tail(todo) /\ todo # << >>
        /\ Head(todo).kind \in {"Trade", "OrderRejected"} /\ taker' = taker
    BY DEF ReplaySkip, Replaying, vars
  <1>2. PICK h : Told(h)
    BY <1>1 DEF RecInv
  <1>3. PICK n : Replayed(h, n)
    BY <1>1, <1>2 DEF Told
  <1>4. Retold(file.records, h)
    BY <1>2 DEF Told
  <1>5. h[n + 1] = h[n]
    <2>1. ~ Carries(Head(todo), h[n], h[n + 1])
      BY <1>1 DEF Carries, Resubmittable
    <2> QED BY <1>1, <1>3, <1>4, <2>1, NextRecord
  <1>6. Views(books') = h[n + 1].views /\ nextSeq' = h[n + 1].next
    BY <1>1, <1>3, <1>5 DEF Replayed
  <1>7. /\ n + 1 \in 1 .. Len(file.records) /\ Len(Tail(todo)) = Len(file.records) - (n + 1)
        /\ \A k \in 1 .. Len(Tail(todo)) : Tail(todo)[k] = file.records[(n + 1) + k]
    <2>1. todo # << >>
      BY <1>1
    <2> QED BY <1>3, <1>4, <2>1, NextRecord
  <1>8. n + 1 \in 0 .. Len(file.records)
    BY <1>7
  <1>9. Replayed(h, n + 1)'
    BY <1>1, <1>6, <1>7, <1>8 DEF Replayed
  <1>10. counted => FreshIds'
    BY <1>1, <1>2 DEF Told, FreshIds
  <1>11. Told(h)'
    BY <1>1, <1>2, <1>9, <1>10, ToldReplay
  <1> QED BY <1>11

(* The ids of live orders are numbers.                                     *)
LEMMA LiveId ==
    ASSUME IInv, NEW j \in DOMAIN books, NEW id \in Live(books[j])
    PROVE  id \in Nat
  <1>1. IsBook(books[j])
    BY DEF IInv, Shelf, GoodBook, BookAndHistory, BookOK
  <1>2. id \in OrderId
    BY <1>1, LiveOrder
  <1> QED BY <1>2, BookAssumption

(* A record is resubmitted: the engine is at the start of its course.      *)
LEMMA ResubmitTold ==
    ASSUME IInv, LogInv, RecInv, plain', ReplaySubmit
    PROVE  \E h : Told(h)'
  <1>1. PICK e : e = Head(todo)
    OBVIOUS
  <1>2. /\ plain /\ mode = "replay" /\ mode' = "replay" /\ file' = file /\ logged' = logged
        /\ counted' = counted /\ phase = "idle" /\ todo' = Tail(todo) /\ todo # << >>
        /\ e.kind \in {"OrderRested", "OrderFilled", "OrderPartiallyFilled"}
        /\ Submit([id |-> e.id, instrument |-> e.instrument, side |-> e.side,
                   type |-> IF e.quantity > 0 THEN "Limit" ELSE "Market",
                   tif |-> "GTC", price |-> e.price, quantity |-> e.quantity,
                   trader |-> 0])
    BY <1>1 DEF ReplaySubmit, Replaying
  <1>3. PICK h : Told(h)
    BY <1>2 DEF RecInv
  <1>4. PICK n : Replayed(h, n)
    BY <1>2, <1>3 DEF Told
  <1>5. Retold(file.records, h) /\ (counted => OwnIds(file.records, h)) /\ (counted => FreshIds)
    BY <1>2, <1>3 DEF Told
  <1>6. /\ n + 1 \in 1 .. Len(file.records) /\ e = file.records[n + 1]
        /\ Skipped(e) \/ Carries(e, h[n], h[n + 1])
        /\ counted => Skipped(e) \/ e.id <= h[n].next
        /\ Len(Tail(todo)) = Len(file.records) - (n + 1)
        /\ \A k \in 1 .. Len(Tail(todo)) : Tail(todo)[k] = file.records[(n + 1) + k]
        /\ (n + 1) - 1 = n /\ h[n].next \in Nat
    BY <1>1, <1>2, <1>4, <1>5, NextRecord
  <1>7. ~ Skipped(e)
    BY <1>2 DEF Skipped
  <1>8. Resubmittable(e)
    BY <1>6, <1>7 DEF Carries
  <1>9. PICK w, m : Course(e, h[n], h[n + 1], w, m)
    BY <1>6, <1>7 DEF Carries
  <1>10. /\ e.id \in OrderId /\ e.id # 0 /\ e.instrument \in Instrument /\ e.side \in Side
         /\ e.quantity > 0 /\ e.quantity \in Int /\ e.id \in Nat
    <2>1. /\ e.id \in OrderId /\ e.instrument \in Instrument /\ e.side \in Side
          /\ e.quantity \in Quantity
      BY <1>8 DEF Resubmittable
    <2>2. e.id \in Nat \ {0}
      BY <2>1, BookAssumption
    <2>3. e.quantity \in Int /\ e.quantity > 0
      BY <2>1, BookAssumption DEF Quantity
    <2> QED BY <2>1, <2>2, <2>3
  <1>11. /\ taker'.id = e.id /\ taker'.instrument = e.instrument /\ taker'.side = e.side
         /\ taker'.price = e.price /\ taker'.quantity = e.quantity
         /\ taker'.remaining = e.quantity /\ taker'.type = "Limit" /\ taker'.tif = "GTC"
         /\ nextSeq' = nextSeq + 1 /\ phase' = "matching" /\ books' = books
         /\ e.instrument \in DOMAIN books
    BY <1>2, <1>10 DEF Submit, Valid, AssignedId
  <1>12. Views(books) = h[n].views /\ nextSeq = h[n].next /\ nextSeq \in Nat
    BY <1>2, <1>4, <1>6 DEF Replayed
  <1> DEFINE i == e.instrument
  <1>13. View(TakerBook)' = View(books[i])
    BY <1>11 DEF TakerBook, View, Live
  <1>14. Views(books)[i] = View(books[i]) /\ Views(books) = With(Views(books), i, View(books[i]))
    BY <1>10, <1>11, ViewsUpdate
  <1>15. Views(books)' = Views(books)
    BY <1>11 DEF Views
  <1>16. /\ m \in Nat /\ 0 \in 0 .. m /\ w[0].view = h[n].views[i] /\ w[0].filled = 0
    BY <1>9 DEF Course, Walk
  <1>17. OnCourse(e, h[n], h[n + 1])'
    <2>1. w[0].view = View(TakerBook)'
      BY <1>12, <1>13, <1>14, <1>16
    <2>2. w[0].filled = taker'.quantity - taker'.remaining
      BY <1>10, <1>11, <1>16
    <2>3. nextSeq' = h[n].next + 1 + 0
      BY <1>11, <1>12
    <2>4. Views(books)' = With(h[n].views, taker'.instrument, View(TakerBook)')
      BY <1>11, <1>12, <1>13, <1>14, <1>15
    <2> QED BY <1>8, <1>9, <1>11, <1>16, <2>1, <2>2, <2>3, <2>4 DEF OnCourse
  <1>18. n + 1 \in 0 .. Len(file.records) /\ n + 1 >= 1
    BY <1>6
  <1>19. Replayed(h, n + 1)'
    <2>1. OnCourse(file.records[n + 1], h[(n + 1) - 1], h[n + 1])'
      BY <1>2, <1>6, <1>17 DEF OnCourse
    <2>2. (Len(todo) = Len(file.records) - (n + 1))'
      BY <1>2, <1>6
    <2>3. (\A k \in 1 .. Len(todo) : todo[k] = file.records[n + 1 + k])'
      BY <1>2, <1>6
    <2>4. (n + 1 \in 0 .. Len(file.records))'
      BY <1>2, <1>11, <1>18
    <2>6. (phase = "idle" => Views(books) = h[n + 1].views /\ nextSeq = h[n + 1].next)'
      BY <1>11
    <2>5. (phase = "matching" => n + 1 >= 1 /\ OnCourse(file.records[n + 1], h[(n + 1) - 1], h[n + 1]))'
      BY <1>18, <2>1
    <2> QED BY <2>2, <2>3, <2>4, <2>5, <2>6, Zenon DEF Replayed
  <1>20. counted => FreshIds'
    <2>1. ASSUME counted, NEW j \in DOMAIN books, NEW id \in Live(books[j]) PROVE id < nextSeq'
      <3>1. id \in Nat
        BY LiveId
      <3>2. id < nextSeq
        BY <1>5, <2>1 DEF FreshIds
      <3> QED BY <1>11, <1>12, <3>1, <3>2
    <2>2. counted => taker'.id < nextSeq'
      BY <1>6, <1>7, <1>10, <1>11, <1>12
    <2> QED BY <1>11, <2>1, <2>2 DEF FreshIds
  <1>21. Told(h)'
    BY <1>2, <1>3, <1>19, <1>20, ToldReplay
  <1> QED BY <1>21

(* A turn adds no order to the book.                                       *)
LEMMA TurnLive ==
    ASSUME NEW b, BookOK(b), NEW s \in Side, NEW p, NEW r \in Int, CanTurn(b, s, p, r)
    PROVE  Live(Turned(b, s, r)) \subseteq Live(b)
  <1> DEFINE id == BestOrder(b, Opposite(s))
             q == TurnQuantity(b, s, r)
  <1>1. IsFront(b, id) /\ q \in Int
    BY TurnFacts
  <1> HIDE DEF id, q
  <1>2. Removed(FillOrder(b, id, q), b, id) \/ Resized(FillOrder(b, id, q), b, id)
    BY <1>1, FillShape
  <1>3. Live(FillOrder(b, id, q)) \subseteq Live(b)
    BY <1>2 DEF Removed, Resized
  <1> QED BY <1>3 DEF Turned, id, q

(* A turn of the replaying engine is the next one of the course.           *)
LEMMA TurnFollows ==
    ASSUME IInv, MatchStep, NEW e, NEW x, x.next \in Nat, NEW y, OnCourse(e, x, y)
    PROVE  OnCourse(e, x, y)'
  <1> DEFINE b == TakerBook
             i == taker.instrument
             s == taker.side
             p == taker.price
             q == taker.quantity
             r == taker.remaining
             t == TurnQuantity(b, s, r)
             c == Turned(b, s, r)
  <1>1. phase = "matching"
    BY DEF MatchStep
  <1>2. /\ i \in Instrument /\ i \in DOMAIN books /\ s \in Side /\ BookOK(b)
        /\ r \in Int /\ q \in Int
    BY <1>1, TakerFacts
  <1>3. /\ taker.id = e.id /\ i = e.instrument /\ s = e.side /\ p = e.price /\ q = e.quantity
        /\ taker.type = "Limit" /\ taker.tif = "GTC" /\ Resubmittable(e)
        /\ Views(books) = With(x.views, i, View(b))
    BY DEF OnCourse
  <1>4. PICK w, m, k : /\ Course(e, x, y, w, m) /\ k \in 0 .. m /\ w[k].view = View(b)
                       /\ w[k].filled = q - r /\ nextSeq = x.next + 1 + k
    BY DEF OnCourse
  <1>5. /\ CanTurn(b, s, p, r) /\ DOMAIN books' = DOMAIN books /\ books'[i] = c
        /\ \A j \in DOMAIN books : j # i => books'[j] = books[j]
        /\ taker' = [taker EXCEPT !.remaining = r - t]
        /\ t \in Int /\ nextSeq' = nextSeq + 1
    BY <1>3, MatchTurn
  <1>6. /\ taker'.instrument = i /\ taker'.side = s /\ taker'.price = p /\ taker'.quantity = q
        /\ taker'.remaining = r - t /\ taker'.id = taker.id
        /\ taker'.type = taker.type /\ taker'.tif = taker.tif
    BY <1>1, <1>5, TakerFacts
  <1>7. View(TakerBook)' = View(c)
    BY <1>5, <1>6 DEF TakerBook, View, Live
  <1>8. r = e.quantity - w[k].filled
    BY <1>2, <1>3, <1>4
  <1>9. k < m /\ w[k + 1].view = View(c) /\ w[k + 1].filled = w[k].filled + t
    <2> HIDE DEF b, i, r, p, q, s
    <2> QED BY <1>2, <1>3, <1>4, <1>5, <1>8, CourseTurn DEF t, c
  <1> HIDE DEF t, c
  <1>10. Views(books)' = With(x.views, i, View(c))
    <2>1. Views(books') = With(Views(books), i, View(c))
      BY <1>2, <1>5, ViewsUpdate
    <2>2. With(Views(books), i, View(c)) = With(x.views, i, View(c))
      BY <1>2, <1>3, WithTwice
    <2> QED BY <2>1, <2>2
  <1>11. m \in Nat
    BY <1>4 DEF Course, Walk
  <1>12. k + 1 \in 0 .. m /\ nextSeq' = x.next + 1 + (k + 1)
    BY <1>4, <1>5, <1>9, <1>11
  <1>13. w[k + 1].filled = taker'.quantity - taker'.remaining
    BY <1>2, <1>4, <1>5, <1>6, <1>9
  <1>14. w[k + 1].view = View(TakerBook)'
    BY <1>7, <1>9
  <1> QED BY <1>3, <1>4, <1>6, <1>7, <1>10, <1>12, <1>13, <1>14 DEF OnCourse

(* The end of a submission of the replaying engine is that of the course.  *)
LEMMA FinishFollows ==
    ASSUME IInv, FinishAny, NEW e, NEW x, x.next \in Nat, NEW y, OnCourse(e, x, y)
    PROVE  /\ phase = "matching" /\ phase' = "idle"
           /\ Views(books') = y.views
           /\ nextSeq' = nextSeq /\ nextSeq' = y.next
           /\ DOMAIN books' = DOMAIN books
           /\ \A j \in DOMAIN books : Live(books'[j]) \subseteq Live(books[j]) \cup {taker.id}
  <1> DEFINE b == TakerBook
             i == taker.instrument
             r == taker.remaining
             q == taker.quantity
  <1>1. /\ phase = "matching" /\ phase' = "idle" /\ ~ CanMatch /\ nextSeq' = nextSeq
    BY DEF FinishAny, FinishFilled, FinishMarket, FinishIOC, FinishRest, Finish, Matched
  <1>2. /\ i \in Instrument /\ i \in DOMAIN books /\ taker.side \in Side /\ BookOK(b)
        /\ r \in Int /\ q \in Int /\ r >= 0 /\ q \in Quantity /\ r <= q
        /\ taker.id \in OrderId
    BY <1>1, TakerFacts
  <1>3. /\ taker.id = e.id /\ i = e.instrument /\ taker.side = e.side /\ taker.price = e.price
        /\ q = e.quantity /\ taker.type = "Limit" /\ taker.tif = "GTC" /\ Resubmittable(e)
        /\ Views(books) = With(x.views, i, View(b))
    BY DEF OnCourse
  <1>4. PICK w, m, k : /\ Course(e, x, y, w, m) /\ k \in 0 .. m /\ w[k].view = View(b)
                       /\ w[k].filled = q - r /\ nextSeq = x.next + 1 + k
    BY DEF OnCourse
  <1>5. ~ CanTurn(b, e.side, e.price, r)
    BY <1>1, <1>3, MatchedTurn
  <1>6. r = e.quantity - w[k].filled
    BY <1>2, <1>3, <1>4
  <1>7. m \in Nat
    BY <1>4 DEF Course, Walk
  <1>8. k = m
    <2>1. ~ (k < m)
      <3> HIDE DEF b, r
      <3> QED BY <1>2, <1>3, <1>4, <1>5, <1>6, CourseTurn
    <2> QED BY <1>4, <1>7, <2>1
  <1>9. nextSeq = y.next
    BY <1>4, <1>8 DEF Course
  <1>10. /\ r = 0 => y.views = With(x.views, i, View(b))
         /\ \A o \in Order :
                (r # 0 /\ o.side = e.side /\ o.price = e.price /\ o.remaining = r) =>
                    /\ InsertOK(b, e.id, o)
                    /\ y.views = With(x.views, i, View(InsertOrder(b, e.id, o)))
    <2> HIDE DEF b, r
    <2> QED BY <1>2, <1>3, <1>4, <1>6, <1>8, CourseEnd
  <1>11. CASE r = 0
    <2>1. books' = books
      BY <1>11 DEF FinishAny, FinishFilled, FinishMarket, FinishIOC, FinishRest
    <2>2. Views(books') = y.views
      BY <1>3, <1>10, <1>11, <2>1
    <2> QED BY <1>1, <1>9, <2>1, <2>2
  <1>12. CASE r # 0
    <2> DEFINE o == [side |-> taker.side, price |-> taker.price,
                     remaining |-> taker.remaining, status |-> "Open",
                     trader |-> taker.trader, sequence |-> taker.sequence]
    <2>1. books' = [books EXCEPT ![i] = IF InsertOK(b, taker.id, o)
                                        THEN InsertOrder(books[i], taker.id, o) ELSE books[i]]
      BY <1>3, <1>12 DEF FinishAny, FinishFilled, FinishMarket, FinishIOC, FinishRest
    <2>2. taker.trader \in TraderId \cup {0} /\ taker.sequence \in Nat
      BY <1>1 DEF IInv, TakerOK, Taker
    <2>3. r \in 0 .. MaxQuantity /\ taker.price \in Price
      BY <1>2, <1>3, BookAssumption DEF Quantity, Resubmittable
    <2>4. o \in Order /\ o.side = e.side /\ o.price = e.price /\ o.remaining = r
      BY <1>2, <1>3, <2>2, <2>3 DEF Order
    <2> HIDE DEF o, b, i, r
    <2>5. InsertOK(b, taker.id, o) /\ y.views = With(x.views, i, View(InsertOrder(b, taker.id, o)))
      BY <1>3, <1>10, <1>12, <2>4
    <2> DEFINE c == InsertOrder(b, taker.id, o)
    <2>6. /\ DOMAIN books' = DOMAIN books /\ books'[i] = c
          /\ \A j \in DOMAIN books : j # i => books'[j] = books[j]
      BY <1>2, <2>1, <2>5 DEF b, TakerBook, i
    <2>7. Live(c) = Live(b) \cup {taker.id}
      BY <1>2, <2>4, InsertShape DEF Added
    <2> HIDE DEF c
    <2>8. Views(books') = With(Views(books), i, View(c))
      BY <1>2, <2>6, ViewsUpdate
    <2>9. With(Views(books), i, View(c)) = With(x.views, i, View(c))
      BY <1>2, <1>3, WithTwice
    <2>10. Views(books') = y.views
      BY <2>5, <2>8, <2>9 DEF c
    <2>11. \A j \in DOMAIN books : Live(books'[j]) \subseteq Live(books[j]) \cup {taker.id}
      BY <2>6, <2>7 DEF b, i, TakerBook
    <2> QED BY <1>1, <1>9, <2>6, <2>10, <2>11
  <1> QED BY <1>11, <1>12

(* The engine processes an order of the file.                              *)
LEMMA ProcessTold ==
    ASSUME IInv, LogInv, RecInv, plain', ReplayProcess
    PROVE  \E h : Told(h)'
  <1>1. /\ plain /\ mode = "replay" /\ mode' = "replay" /\ file' = file /\ logged' = logged
        /\ counted' = counted /\ todo' = todo /\ (MatchStep \/ FinishAny)
    BY DEF ReplayProcess, logVars
  <1>2. PICK h : Told(h)
    BY <1>1 DEF RecInv
  <1>3. PICK n : Replayed(h, n)
    BY <1>1, <1>2 DEF Told
  <1>4. Retold(file.records, h) /\ (counted => FreshIds)
    BY <1>1, <1>2 DEF Told
  <1>5. phase = "matching"
    BY <1>1 DEF MatchStep, FinishAny, FinishFilled, FinishMarket, FinishIOC, FinishRest, Matched
  <1>6. PICK e, x, y : e = file.records[n] /\ x = h[n - 1] /\ y = h[n]
    OBVIOUS
  <1>7. n \in 0 .. Len(file.records) /\ n >= 1 /\ OnCourse(e, x, y)
    BY <1>3, <1>5, <1>6 DEF Replayed
  <1>8. x.next \in Nat
    <2>1. Len(file.records) \in Nat
      BY DEF LogInv
    <2>2. n - 1 \in 0 .. Len(file.records)
      BY <1>7, <2>1
    <2> QED BY <1>4, <1>6, <2>2 DEF Retold
  <1>9. nextSeq \in Int /\ taker.id \in Int
    <2>1. nextSeq \in Int /\ taker.id \in OrderId
      BY <1>5, TakerFacts DEF IInv
    <2>2. taker.id \in Nat
      BY <2>1, BookAssumption
    <2> QED BY <2>1, <2>2
  <1>10. CASE MatchStep
    <2>1. phase' = "matching" /\ nextSeq' = nextSeq + 1
      BY <1>10 DEF MatchStep
    <2>2. OnCourse(e, x, y)'
      BY <1>7, <1>8, <1>10, TurnFollows
    <2>3. OnCourse(file.records[n], h[n - 1], h[n])'
      BY <1>1, <1>6, <2>2 DEF OnCourse
    <2>4. Replayed(h, n)'
      BY <1>1, <1>3, <1>7, <2>1, <2>3 DEF Replayed
    <2>5. /\ DOMAIN books' = DOMAIN books /\ taker'.id = taker.id
          /\ \A j \in DOMAIN books : Live(books'[j]) \subseteq Live(books[j])
      <3> DEFINE i == taker.instrument
      <3>1. taker.type = "Limit"
        BY <1>7 DEF OnCourse
      <3>2. /\ CanTurn(TakerBook, taker.side, taker.price, taker.remaining)
            /\ DOMAIN books' = DOMAIN books
            /\ books'[i] = Turned(TakerBook, taker.side, taker.remaining)
            /\ \A j \in DOMAIN books : j # i => books'[j] = books[j]
        BY <1>10, <3>1, MatchTurn
      <3>3. Live(books'[i]) \subseteq Live(TakerBook)
        BY <1>5, <3>2, TakerFacts, TurnLive
      <3>4. taker'.id = taker.id
        BY <2>2, <1>7 DEF OnCourse
      <3> QED BY <3>2, <3>3, <3>4 DEF TakerBook
    <2>6. counted => FreshIds'
      <3>1. ASSUME counted, NEW j \in DOMAIN books, NEW id \in Live(books[j]) PROVE id < nextSeq'
        <4>1. id \in Nat /\ id < nextSeq
          BY <1>4, <3>1, LiveId DEF FreshIds
        <4> QED BY <1>9, <2>1, <4>1
      <3>2. counted => taker'.id < nextSeq'
        BY <1>4, <1>5, <1>9, <2>1, <2>5 DEF FreshIds
      <3> QED BY <2>5, <3>1, <3>2 DEF FreshIds
    <2>7. Told(h)'
      BY <1>1, <1>2, <2>4, <2>6, ToldReplay
    <2> QED BY <2>7
  <1>11. CASE FinishAny
    <2>1. /\ phase' = "idle" /\ Views(books') = y.views /\ nextSeq' = nextSeq /\ nextSeq' = y.next
          /\ DOMAIN books' = DOMAIN books
          /\ \A j \in DOMAIN books : Live(books'[j]) \subseteq Live(books[j]) \cup {taker.id}
      BY <1>7, <1>8, <1>11, FinishFollows
    <2>2. Replayed(h, n)'
      BY <1>1, <1>3, <1>6, <2>1 DEF Replayed
    <2>3. counted => FreshIds'
      BY <1>4, <1>5, <2>1 DEF FreshIds
    <2>4. Told(h)'
      BY <1>1, <1>2, <2>2, <2>3, ToldReplay
    <2> QED BY <2>4
  <1> QED BY <1>1, <1>10, <1>11

-----------------------------------------------------------------------------

(* A file that tells a history does so after every step.                   *)
LEMMA StepTold ==
    ASSUME IInv, LogInv, RecInv, [PNext]_pVars, plain'
    PROVE  \E h : Told(h)'
  <1>1. nextSeq \in Int /\ nextSeq >= 1
    BY DEF IInv
  <1>2. ASSUME Unlogged, Idle, NoSubmission, nextSeq' = nextSeq \/ nextSeq' = 1
        PROVE  \E h : Told(h)'
    <2>1. phase = "idle" /\ phase' = "idle"
      BY <1>2 DEF Idle, NoSubmission
    <2>2. nextSeq' \in Int /\ nextSeq' <= nextSeq
      BY <1>1, <1>2
    <2> QED BY <1>1, <1>2, <2>1, <2>2, UnloggedTold
  <1>3. CASE OpenTruncate \/ OpenAppend \/ CloseLog
    BY <1>3, OpenTold
  <1>4. CASE \E i \in Instrument : LiveRegister(i) \/ LiveUnregister(i)
    BY <1>2, <1>4 DEF LiveRegister, LiveUnregister, RegisterInstrument, UnregisterInstrument
  <1>5. CASE LiveClear
    BY <1>2, <1>5 DEF LiveClear, Clear
  <1>6. CASE \E i \in Instrument, id \in OrderId : LiveCancel(i, id)
    BY <1>2, <1>6 DEF LiveCancel, Cancel
  <1>7. ASSUME NEW i, NEW id, NEW q, NEW p, LiveModify(i, id, q, p)
        PROVE  \E h : Told(h)'
    BY <1>2, <1>7 DEF LiveModify, Modify
  <1>8. ASSUME NEW i, NEW id, NEW q, LiveReduce(i, id, q)
        PROVE  \E h : Told(h)'
    BY <1>2, <1>8 DEF LiveReduce, Reduce
  <1>9. CASE \E r \in Request : LiveSubmit(r)
    BY <1>9, SubmitTold
  <1>10. CASE \E id \in ClientIds \cup {0} : LiveRefused(id)
    BY <1>10, RefusedTold
  <1>11. CASE LiveMatch
    BY <1>11, TradeTold
  <1>12. CASE LiveFinish
    BY <1>12, FinishTold
  <1>13. CASE Crash
    <2>1. plain /\ file' = file /\ counted' = counted /\ logged' = logged /\ mode' = "down"
      BY <1>13 DEF Crash
    <2>2. PICK h : Told(h)
      BY <2>1 DEF RecInv
    <2>3. Told(h)'
      BY <2>1, <2>2 DEF Told
    <2> QED BY <2>3
  <1>14. CASE StartReplay \/ ReplaySkip \/ ReplaySubmit \/ ReplayProcess
    BY <1>14, StartTold, SkipTold, ResubmitTold, ProcessTold
  <1>15. CASE ReplayEnd
    <2>1. /\ plain /\ file' = file /\ counted' = counted /\ logged' = logged /\ todo' = todo
          /\ mode = "replay" /\ mode' = "recovered" /\ phase = "idle" /\ phase' = "idle"
          /\ books' = books /\ nextSeq' = nextSeq
      BY <1>15 DEF ReplayEnd, vars
    <2>2. PICK h : Told(h)
      BY <2>1 DEF RecInv
    <2>3. PICK n : Replayed(h, n)
      BY <2>1, <2>2 DEF Told
    <2>4. Views(books)' = Views(books)
      BY <2>1 DEF Views
    <2>5. Replayed(h, n)'
      BY <2>1, <2>3, <2>4 DEF Replayed
    <2>6. counted => FreshIds'
      BY <2>1, <2>2 DEF Told, FreshIds
    <2>7. Told(h)'
      BY <2>1, <2>2, <2>5, <2>6, ToldReplay
    <2> QED BY <2>7
  <1>16. CASE UNCHANGED pVars
    <2>1. PICK h : Told(h)
      BY <1>16 DEF RecInv, pVars, logVars
    <2>2. UNCHANGED << books, nextSeq, phase, taker, mode, file, log, todo, logged, counted >>
      BY <1>16 DEF pVars, logVars, vars
    <2>3. TakerBook' = TakerBook
      BY <2>2 DEF TakerBook
    <2>4. \A x : LiveAt(x) => LiveAt(x)'
      BY <2>2, <2>3 DEF LiveAt
    <2>5. \A n : Replayed(h, n) => Replayed(h, n)'
      BY <2>2, <2>3 DEF Replayed, OnCourse
    <2>6. FreshIds => FreshIds'
      BY <2>2 DEF FreshIds
    <2>7. CASE mode = "live"
      <3>1. PICK x : x = h[Len(file.records)]
        OBVIOUS
      <3>2. log' = "open" => LiveAt(x)'
        BY <2>1, <2>2, <2>4, <2>7, <3>1 DEF Told
      <3> QED BY <2>1, <2>2, <2>7, <3>1, <3>2, ToldLive DEF Told
    <2>8. CASE mode \in {"replay", "recovered"}
      <3>1. PICK n : Replayed(h, n)
        BY <2>1, <2>8 DEF Told
      <3>2. counted => FreshIds'
        BY <2>1, <2>6, <2>8 DEF Told
      <3>3. Replayed(h, n)'
        BY <2>5, <3>1
      <3> QED BY <2>1, <2>2, <2>8, <3>2, <3>3, ToldReplay
    <2>9. CASE mode \notin {"live", "replay", "recovered"}
      <3>1. Told(h)'
        BY <2>1, <2>2, <2>9 DEF Told
      <3> QED BY <3>1
    <2> QED BY <2>7, <2>8, <2>9
  <1> QED BY <1>3, <1>4, <1>5, <1>6, <1>7, <1>8, <1>9, <1>10, <1>11, <1>12, <1>13, <1>14, <1>15,
             <1>16 DEF PNext, Replay

LEMMA StepRec ==
    ASSUME IInv, LogInv, RecInv, [PNext]_pVars
    PROVE  RecInv'
  <1>1. CASE mode = "live" /\ mode' = "live"
    BY <1>1, StepTold DEF RecInv
  <1>2. CASE UNCHANGED pVars
    BY <1>2, StepTold DEF RecInv, pVars, logVars, vars
  <1>3. CASE Crash
    BY <1>3, StepTold DEF RecInv, Crash
  <1>4. CASE StartReplay
    BY <1>4, StepTold DEF RecInv, StartReplay
  <1>5. CASE ReplaySkip
    BY <1>5, StepTold DEF RecInv, ReplaySkip, Replaying, vars
  <1>6. CASE ReplaySubmit
    BY <1>6, StepTold DEF RecInv, ReplaySubmit, Replaying, Submit
  <1>7. CASE ReplayProcess
    <2>1. DOMAIN books' = DOMAIN books
      BY <1>7 DEF ReplayProcess, MatchStep, FinishAny, FinishFilled, FinishMarket, FinishIOC, FinishRest
    <2> QED BY <1>7, <2>1, StepTold DEF RecInv, ReplayProcess, logVars
  <1>8. CASE ReplayEnd
    <2>1. todo' = << >> \/ Head(todo').kind = "OrderCancelled"
      <3>1. todo \in Seq(Record) /\ todo' = todo
        BY <1>8 DEF LogInv, ReplayEnd
      <3>2. CASE todo # << >>
        <4>1. 1 \in DOMAIN todo /\ Head(todo) = todo[1]
          BY <3>1, <3>2
        <4> QED BY <1>8, <3>1, <4>1 DEF ReplayEnd
      <3> QED BY <3>1, <3>2
    <2> QED BY <1>8, <2>1, StepTold DEF RecInv, ReplayEnd, vars
  <1>9. PNext => Crash \/ Replay \/ (mode = "live" /\ mode' = "live")
    BY DEF PNext, OpenTruncate, OpenAppend, CloseLog, LogIdle, LiveRegister, LiveUnregister,
           LiveClear, LiveCancel, LiveModify, LiveReduce, LiveSubmit, LiveRefused, LiveMatch,
           LiveFinish, Unlogged
  <1> QED BY <1>1, <1>2, <1>3, <1>4, <1>5, <1>6, <1>7, <1>8, <1>9 DEF Replay

LEMMA InitRec == PInit => RecInv
  <1> SUFFICES ASSUME PInit PROVE RecInv
    OBVIOUS
  <1> DEFINE x == [views |-> Views([i \in {} |-> EmptyBook]), next |-> 1]
             h == [k \in {0} |-> x]
  <1>1. /\ file.records = << >> /\ mode = "live" /\ log = "absent"
        /\ logged = x.views
    BY DEF PInit, NoFile, Init
  <1>2. h[0] = x /\ x.next = 1
    OBVIOUS
  <1>3. x.views = Views([i \in {} |-> EmptyBook])
    OBVIOUS
  <1> HIDE DEF h, x
  <1>4. Len(file.records) = 0 /\ 1 .. 0 = {} /\ 0 .. 0 = {0}
    BY <1>1
  <1>5. Retold(file.records, h) /\ OwnIds(file.records, h)
    BY <1>2, <1>3, <1>4 DEF Retold, OwnIds
  <1>6. Told(h)
    BY <1>1, <1>2, <1>4, <1>5 DEF Told
  <1> QED BY <1>1, <1>6 DEF RecInv

(* As long as only submissions with a log made the books, the file tells   *)
(* the history of an engine that is given its records one by one, and that *)
(* is where a replay goes.                                                 *)
THEOREM Retraced == PSpec => [](IInv /\ LogInv /\ RecInv)
  <1>1. IInv /\ LogInv /\ RecInv /\ [PNext]_pVars => RecInv'
    BY StepRec
  <1> QED BY <1>1, InitRec, Logged, PTL DEF PSpec

(* The replay of a file that tells a history does not stop short.          *)
LEMMA ToldToEnd ==
    ASSUME LogInv, RecInv, mode = "recovered", NEW h, Told(h)
    PROVE  phase = "idle" /\ Replayed(h, Len(file.records))
  <1>1. phase = "idle" /\ (todo = << >> \/ Head(todo).kind = "OrderCancelled")
    BY DEF RecInv
  <1>2. Retold(file.records, h) /\ (\E n : Replayed(h, n))
    BY DEF Told
  <1>3. PICK n : Replayed(h, n)
    BY <1>2
  <1>4. todo = << >>
    <2> SUFFICES ASSUME todo # << >> PROVE FALSE
      OBVIOUS
    <2>1. Skipped(Head(todo)) \/ Carries(Head(todo), h[n], h[n + 1])
      BY <1>2, <1>3, NextRecord
    <2> QED BY <1>1, <2>1 DEF Skipped, Carries, Resubmittable
  <1>5. Len(todo) = Len(file.records) - n /\ n \in 0 .. Len(file.records) /\ Len(file.records) \in Nat
    BY <1>3 DEF Replayed, LogInv
  <1>6. n = Len(file.records)
    BY <1>4, <1>5
  <1> QED BY <1>1, <1>3, <1>6

(* The replay of a file that tells everything rebuilds the books as the    *)
(* last logged submission left them, for any number of records, orders,    *)
(* prices and instruments, wherever the crash fell.                        *)
THEOREM Recovery == PSpec => []RecoveryRebuildsBooks
  <1>1. LogInv /\ RecInv => RecoveryRebuildsBooks
    <2> SUFFICES ASSUME LogInv, RecInv, mode = "recovered", plain PROVE Views(books) = logged
      BY DEF RecoveryRebuildsBooks
    <2>1. PICK h : Told(h)
      BY DEF RecInv
    <2> QED BY <2>1, ToldToEnd DEF Told, Replayed
  <1> QED BY <1>1, Retraced, PTL

(* ... and the engine it brings up gives no order the id of one in its     *)
(* books, if the engine that crashed chose all ids and the file tells of   *)
(* every number it used.                                                   *)
THEOREM FreshAfterRecovery == PSpec => []RecoveredIdsFresh
  <1>1. RecInv => RecoveredIdsFresh
    BY DEF RecInv, Told, FreshIds, RecoveredIdsFresh
  <1> QED BY <1>1, Retraced, PTL
=============================================================================

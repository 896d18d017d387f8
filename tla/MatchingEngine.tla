--------------------------- MODULE MatchingEngine ---------------------------
(***************************************************************************)
(* The matching engine (matching_engine.hpp, matching_engine.cpp): one     *)
(* book per registered instrument and one sequence counter for orders and  *)
(* trades.  A submission is processed on the calling thread, but it shows  *)
(* its intermediate states to the TradeSink after every fill, so it is a   *)
(* Submit step, one MatchStep per turn of the match loop and one step that *)
(* decides what becomes of the rest and reports the result.  The other     *)
(* operations are one step each and happen between submissions.            *)
(***************************************************************************)
EXTENDS Book, SequencesExt

CONSTANTS
    Instrument,    \* the valid instrument ids (kInvalidInstrumentId is 0)
    ClientIds,     \* the order ids that clients choose themselves
    Tifs,          \* the times in force that clients ask for
    MaxSequence    \* bound: no submission starts that could count past it

ASSUME EngineAssumption ==
    /\ Instrument \subseteq Nat \ {0}
    /\ ClientIds \subseteq OrderId
    /\ Tifs \subseteq {"GTC", "IOC", "FOK"}
    /\ MaxSequence \in Nat
    /\ 1 .. MaxSequence \subseteq OrderId

VARIABLES
    books,      \* books_: the book of every registered instrument
    nextSeq,    \* next_sequence_
    phase,      \* "idle", or "matching" while a submission is in progress
    taker,      \* the order being submitted
    tape,       \* history: the trades of the latest submission
    result,     \* the result reported for the latest submission
    placed,     \* history: per instrument, the live ids by last placement
    moved       \* history: per instrument, the ids last placed by a modify

vars == << books, nextSeq, phase, taker, tape, result, placed, moved >>

-----------------------------------------------------------------------------

(* What a client sends.  An id of 0 asks the engine to choose one.  The    *)
(* price and the time in force of a market order are never read, so only   *)
(* one value of each is considered.                                        *)
Request ==
    {r \in [id         : ClientIds \cup {0},
            instrument : Instrument \cup {0},
            side       : Side,
            type       : {"Limit", "Market"},
            tif        : Tifs,
            price      : Price \cup {NoPrice},
            quantity   : 0 .. (MaxQuantity + 1),
            trader     : TraderId] :
        r.type = "Market" => r.price = 0 /\ r.tif = CHOOSE t \in Tifs : TRUE}

NoTaker == [id |-> 0]

NoResult == [status |-> "None"]

SubmitStatus == {"Accepted", "FullyFilled", "PartiallyFilled", "Rejected", "Cancelled"}

(* A trader id read from an Order that has been freed.                     *)
Garbage == 0

(* The memory of no book has been corrupted (see Book).                    *)
Sound == \A i \in DOMAIN books : ~ books[i].corrupt

Idle == Sound /\ phase = "idle"

(* SubmitResult, as far as the engine's clients act on it.                 *)
Report(st, id, seq, filled, resting) ==
    [status |-> st, order_id |-> id, sequence |-> seq,
     filled |-> filled, resting |-> resting]

-----------------------------------------------------------------------------

Init ==
    /\ books = [i \in {} |-> EmptyBook]
    /\ nextSeq = 1
    /\ phase = "idle"
    /\ taker = NoTaker
    /\ tape = << >>
    /\ result = NoResult
    /\ placed = [i \in Instrument |-> << >>]
    /\ moved = [i \in Instrument |-> {}]

(* An operation other than submit reports no SubmitResult.                 *)
NoSubmission ==
    /\ tape' = << >>
    /\ result' = NoResult
    /\ UNCHANGED << phase, taker >>

(* A second registration keeps the book.                                   *)
RegisterInstrument(i) ==
    /\ Idle
    /\ books' = [j \in DOMAIN books \cup {i} |->
                    IF j \in DOMAIN books THEN books[j] ELSE EmptyBook]
    /\ NoSubmission
    /\ UNCHANGED << nextSeq, placed, moved >>

UnregisterInstrument(i) ==
    /\ Idle
    /\ books' = [j \in DOMAIN books \ {i} |-> books[j]]
    /\ placed' = [placed EXCEPT ![i] = << >>]
    /\ moved' = [moved EXCEPT ![i] = {}]
    /\ NoSubmission
    /\ UNCHANGED nextSeq

(* Mutant: the counter restarts under the orders that keep resting.        *)
ClearKeepsBooks ==
    /\ Idle
    /\ nextSeq' = 1
    /\ NoSubmission
    /\ UNCHANGED << books, placed, moved >>

(* clear drops every book and restarts the counter.                        *)
Clear ==
    /\ Idle
    /\ books' = [i \in {} |-> EmptyBook]
    /\ nextSeq' = 1
    /\ placed' = [i \in Instrument |-> << >>]
    /\ moved' = [i \in Instrument |-> {}]
    /\ NoSubmission

-----------------------------------------------------------------------------
(* submit.                                                                 *)

(* The checks before the risk gate: instrument, quantity, price, book.     *)
Valid(r) ==
    /\ r.instrument # 0
    /\ r.quantity \in Quantity
    /\ r.type = "Limit" => r.price \in Price
    /\ r.instrument \in DOMAIN books

(* The id of a submission: the client's, or the next sequence number.      *)
AssignedId(id) == IF id = 0 THEN nextSeq ELSE id

(* Refused by a check or by the risk gate (RiskGate), which may refuse any *)
(* order: the result carries an id but no sequence number, and the counter *)
(* is not advanced.  Nothing else of the request matters, so the step is   *)
(* taken once for every id.                                                *)
SubmitRefused(id) ==
    /\ Idle
    /\ result' = Report("Rejected", AssignedId(id), 0, 0, 0)
    /\ tape' = << >>
    /\ UNCHANGED << books, nextSeq, phase, taker, placed, moved >>

SubmitNull ==
    /\ Idle
    /\ result' = Report("Rejected", 0, 0, 0, 0)
    /\ tape' = << >>
    /\ UNCHANGED << books, nextSeq, phase, taker, placed, moved >>

(* Mutant: the counter advances only when the engine chooses the id.       *)
SubmitCountsOwn(r) ==
    /\ Idle
    /\ Valid(r)
    /\ nextSeq + r.quantity <= MaxSequence
    /\ taker' = [id |-> AssignedId(r.id), instrument |-> r.instrument,
                 side |-> r.side, type |-> r.type, tif |-> r.tif,
                 price |-> r.price, quantity |-> r.quantity,
                 remaining |-> r.quantity, trader |-> r.trader,
                 sequence |-> nextSeq]
    /\ nextSeq' = IF r.id = 0 THEN nextSeq + 1 ELSE nextSeq
    /\ phase' = "matching"
    /\ tape' = << >>
    /\ result' = NoResult
    /\ UNCHANGED << books, placed, moved >>

(* An order that passes every check takes the next sequence number.        *)
Submit(r) ==
    /\ Idle
    /\ Valid(r)
    /\ nextSeq + r.quantity <= MaxSequence
    /\ taker' = [id |-> AssignedId(r.id), instrument |-> r.instrument,
                 side |-> r.side, type |-> r.type, tif |-> r.tif,
                 price |-> r.price, quantity |-> r.quantity,
                 remaining |-> r.quantity, trader |-> r.trader,
                 sequence |-> nextSeq]
    /\ nextSeq' = nextSeq + 1
    /\ phase' = "matching"
    /\ tape' = << >>
    /\ result' = NoResult
    /\ UNCHANGED << books, placed, moved >>

(* Mutant: a taker does not trade at its own limit.                        *)
CrossesStrictly(s, takerPrice, bookPrice) ==
    IF s = "Buy" THEN bookPrice < takerPrice ELSE bookPrice > takerPrice

(* match_against.                                                          *)
Crosses(s, takerPrice, bookPrice) ==
    IF s = "Buy" THEN bookPrice <= takerPrice ELSE bookPrice >= takerPrice

TakerBook == books[taker.instrument]

CanMatch ==
    LET opp == Opposite(taker.side)
    IN  /\ taker.remaining > 0
        /\ BestPrice(TakerBook, opp) # NoPrice
        /\ taker.type = "Limit" => Crosses(taker.side, taker.price, BestPrice(TakerBook, opp))
        /\ BestOrder(TakerBook, opp) # 0

MatchQuantity(o) ==
    IF taker.remaining > o.remaining THEN o.remaining ELSE taker.remaining

(* The trader of the resting order is read from it after fill, which has   *)
(* freed it when the fill consumed it.                                     *)
TraderRead(o, eaten) == {o.trader} \cup (IF eaten THEN {Garbage} ELSE {})

(* One turn of the loop: the front of the best opposite level is filled    *)
(* and a trade at the resting order's price is emitted.                    *)
MatchStep ==
    /\ Sound
    /\ phase = "matching"
    /\ CanMatch
    /\ LET opp == Opposite(taker.side)
           i   == taker.instrument
           id  == BestOrder(TakerBook, opp)
           o   == TakerBook.index[id]
           qty == MatchQuantity(o)
           eaten == Consumes(TakerBook, id, qty)
       IN  /\ books' = [books EXCEPT ![i] = FillOrder(@, id, qty)]
           /\ taker' = [taker EXCEPT !.remaining = @ - qty]
           /\ \E tr \in TraderRead(o, eaten) :
                  tape' = Append(tape, [id       |-> nextSeq,
                                        maker    |-> id,
                                        trader   |-> tr,
                                        price    |-> BestPrice(TakerBook, opp),
                                        quantity |-> qty,
                                        sequence |-> taker.sequence])
           /\ placed' = [placed EXCEPT ![i] = IF eaten THEN Unlink(@, id) ELSE @]
           /\ moved' = [moved EXCEPT ![i] = IF eaten THEN @ \ {id} ELSE @]
    /\ nextSeq' = nextSeq + 1
    /\ UNCHANGED << phase, result >>

Matched ==
    /\ Sound
    /\ phase = "matching"
    /\ ~ CanMatch

(* Mutant: the original quantity is reported as filled.                    *)
OriginalQuantity == taker.quantity

FilledQuantity == taker.quantity - taker.remaining

(* The taker is destroyed and the result reported.                         *)
Finish(st, filled, resting) ==
    /\ result' = Report(st, taker.id, taker.sequence, filled, resting)
    /\ phase' = "idle"
    /\ taker' = NoTaker
    /\ UNCHANGED << nextSeq, tape >>

FinishFilled ==
    /\ Matched
    /\ taker.remaining = 0
    /\ Finish("FullyFilled", taker.quantity, 0)
    /\ UNCHANGED << books, placed, moved >>

(* Mutant: a market order that found no liquidity is not answered.         *)
FinishMarketIfFilled ==
    /\ Matched
    /\ taker.remaining > 0
    /\ taker.type = "Market"
    /\ FilledQuantity > 0
    /\ Finish("PartiallyFilled", FilledQuantity, 0)
    /\ UNCHANGED << books, placed, moved >>

FinishMarket ==
    /\ Matched
    /\ taker.remaining > 0
    /\ taker.type = "Market"
    /\ Finish(IF FilledQuantity > 0 THEN "PartiallyFilled" ELSE "Rejected",
              FilledQuantity, 0)
    /\ UNCHANGED << books, placed, moved >>

FinishIOC ==
    /\ Matched
    /\ taker.remaining > 0
    /\ taker.type = "Limit"
    /\ taker.tif = "IOC"
    /\ Finish(IF FilledQuantity > 0 THEN "PartiallyFilled" ELSE "Cancelled",
              FilledQuantity, 0)
    /\ UNCHANGED << books, placed, moved >>

(* Any other limit order rests.  The insertion fails when its id is live   *)
(* in the book, and the result then says Rejected, whatever was filled.    *)
FinishRest ==
    /\ Matched
    /\ taker.remaining > 0
    /\ taker.type = "Limit"
    /\ taker.tif # "IOC"
    /\ LET i  == taker.instrument
           o  == [side |-> taker.side, price |-> taker.price,
                  remaining |-> taker.remaining, status |-> "Open",
                  trader |-> taker.trader, sequence |-> taker.sequence]
           ok == InsertOK(TakerBook, taker.id, o)
       IN  /\ books' = [books EXCEPT ![i] = IF ok THEN InsertOrder(@, taker.id, o) ELSE @]
           /\ placed' = [placed EXCEPT ![i] = IF ok THEN Append(@, taker.id) ELSE @]
           /\ Finish(IF ok THEN "Accepted" ELSE "Rejected",
                     FilledQuantity, taker.remaining)
    /\ UNCHANGED moved

-----------------------------------------------------------------------------
(* cancel, modify and reduce look up the book and pass the call on.  A     *)
(* call that is refused changes nothing.                                   *)

Cancel(i, id) ==
    /\ Idle
    /\ i \in DOMAIN books
    /\ CancelOK(books[i], id)
    /\ books' = [books EXCEPT ![i] = CancelOrder(@, id)]
    /\ placed' = [placed EXCEPT ![i] = Unlink(@, id)]
    /\ moved' = [moved EXCEPT ![i] = @ \ {id}]
    /\ NoSubmission
    /\ UNCHANGED nextSeq

Modify(i, id, q, p) ==
    /\ Idle
    /\ i \in DOMAIN books
    /\ ModifyResult(books[i], id, q, p) \in {"Modified", "Replaced"}
    /\ books' = [books EXCEPT ![i] = ModifyOrder(@, id, q, p)]
    /\ IF ModifyResult(books[i], id, q, p) = "Replaced"
       THEN /\ placed' = [placed EXCEPT ![i] = Append(Unlink(@, id), id)]
            /\ moved' = [moved EXCEPT ![i] = @ \cup {id}]
       ELSE UNCHANGED << placed, moved >>
    /\ NoSubmission
    /\ UNCHANGED nextSeq

Reduce(i, id, q) ==
    /\ Idle
    /\ i \in DOMAIN books
    /\ ReduceOK(books[i], id, q)
    /\ books' = [books EXCEPT ![i] = ShrinkOrder(@, id, q)]
    /\ NoSubmission
    /\ UNCHANGED << nextSeq, placed, moved >>

Next ==
    \/ \E i \in Instrument : RegisterInstrument(i) \/ UnregisterInstrument(i)
    \/ Clear
    \/ SubmitNull
    \/ \E id \in ClientIds \cup {0} : SubmitRefused(id)
    \/ \E r \in Request : Submit(r)
    \/ MatchStep
    \/ FinishFilled
    \/ FinishMarket
    \/ FinishIOC
    \/ FinishRest
    \/ \E i \in Instrument, id \in OrderId : Cancel(i, id)
    \/ \E i \in Instrument, id \in OrderId, q \in 0 .. (MaxQuantity + 1),
          p \in Price \cup {NoPrice} : Modify(i, id, q, p)
    \/ \E i \in Instrument, id \in OrderId, q \in 0 .. MaxQuantity : Reduce(i, id, q)

Process == MatchStep \/ FinishFilled \/ FinishMarket \/ FinishIOC \/ FinishRest

(* submit runs to its end on the thread that called it.                    *)
Spec == Init /\ [][Next]_vars /\ WF_vars(Process)

-----------------------------------------------------------------------------
(* Properties.                                                             *)

Trade == [id : Nat, maker : OrderId, trader : TraderId \cup {Garbage},
          price : Price, quantity : Quantity, sequence : Nat]

(* Every variable has its type, and a taker being matched belongs to a     *)
(* registered instrument and has not been filled beyond its quantity.      *)
TypeOK ==
    /\ DOMAIN books \subseteq Instrument
    /\ \A i \in DOMAIN books : IsBook(books[i])
    /\ nextSeq \in 1 .. (MaxSequence + 1)
    /\ phase \in {"idle", "matching"}
    /\ phase = "matching" => /\ taker.instrument \in DOMAIN books
                             /\ taker.remaining \in 0 .. taker.quantity
    /\ tape \in Seq(Trade)
    /\ result = NoResult \/ result.status \in SubmitStatus
    /\ placed \in [Instrument -> Seq(OrderId)]
    /\ moved \in [Instrument -> SUBSET OrderId]

(* The index, the queues and the ladders of every book agree, also in the  *)
(* states a TradeSink sees in the middle of a submission.                  *)
BooksConsistent == TypeOK /\ \A i \in DOMAIN books : QueuesMatchIndex(books[i])

(* id was placed in the book of i before other.                            *)
PlacedBefore(i, id, other) ==
    \E m, n \in DOMAIN placed[i] :
        m < n /\ placed[i][m] = id /\ placed[i][n] = other

(* Price-time priority: every trade is with the resting order of the other *)
(* side that no other beats on price, or on placement at the same price;   *)
(* it is at that order's price, which the taker's limit admits.            *)
PriceTimePriority ==
    [][Len(tape') > Len(tape) =>
           LET t == Last(tape')
               i == taker.instrument
               b == books[i]
               s == Opposite(taker.side)
           IN  /\ t.maker \in Live(b)
               /\ b.index[t.maker].side = s
               /\ t.price = b.index[t.maker].price
               /\ taker.type = "Limit" => ~ Better(taker.side, t.price, taker.price)
               /\ \A other \in {id \in Live(b) : b.index[id].side = s} \ {t.maker} :
                      \/ Better(s, t.price, b.index[other].price)
                      \/ /\ t.price = b.index[other].price
                         /\ PlacedBefore(i, t.maker, other)]_vars

TradedQuantity == SumFunction([k \in DOMAIN tape |-> tape[k].quantity])

(* What a result reports is what the sink saw and what the book holds: the *)
(* filled quantity is the sum of the submission's trades, and a resting    *)
(* quantity is that of the order of this sequence number in a book.        *)
ResultMatchesTrades ==
    (phase = "idle" /\ result # NoResult) =>
        /\ result.filled = TradedQuantity
        /\ result.status = "Accepted" <=>
               \E i \in DOMAIN books : \E id \in Live(books[i]) :
                   /\ id = result.order_id
                   /\ books[i].index[id].sequence = result.sequence
                   /\ books[i].index[id].remaining = result.resting
        /\ result.status \in {"FullyFilled", "PartiallyFilled"} => result.filled > 0

(* Between submissions the best bid is below the best ask, except where a  *)
(* modify moved an order across the spread: of every bid and ask that      *)
(* cross, the one placed last was placed by modify.  In particular no      *)
(* submission leaves a crossed pair behind, not even next to orders that a *)
(* modify had crossed before.                                              *)
CrossedOnlyByModify ==
    phase = "idle" =>
        \A i \in DOMAIN books : \A bid, ask \in Live(books[i]) :
            /\ books[i].index[bid].side = "Buy"
            /\ books[i].index[ask].side = "Sell"
            /\ books[i].index[bid].price >= books[i].index[ask].price
            => IF PlacedBefore(i, bid, ask) THEN ask \in moved[i] ELSE bid \in moved[i]

(* A submission never makes a ladder point to a freed Level, although the  *)
(* two sides share one storage entry per price.                            *)
SubmitKeepsLevels == [][(Sound /\ phase = "matching") => Sound']_vars

(* No sequence of calls makes a ladder point to a freed Level.             *)
NoFreedLevel == Sound

(* Two live orders never have the same sequence number, in one book or in  *)
(* two, and the counter is ahead of all of them.                           *)
SequencesDistinct ==
    \A i, j \in DOMAIN books : \A id \in Live(books[i]), other \in Live(books[j]) :
        /\ books[i].index[id].sequence < nextSeq
        /\ (books[i].index[id].sequence = books[j].index[other].sequence)
               => (i = j /\ id = other)

(* Every submission that was accepted for matching is answered.            *)
EverySubmissionAnswered == (phase = "matching") ~> (phase = "idle" /\ result # NoResult)
=============================================================================

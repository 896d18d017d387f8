---------------------------- MODULE Persistence -----------------------------
(***************************************************************************)
(* The event log and its replay (event_log.hpp, event_log.cpp): a          *)
(* PersistingSink that appends a record for every trade and every result   *)
(* of a matching engine, a crash of the process, and a Replayer that       *)
(* resubmits what it reads back to a fresh engine.                         *)
(*                                                                         *)
(* append flushes the record, so a crash loses the engine and keeps the    *)
(* file as it is; a write torn by a loss of power is not considered.  As   *)
(* with the publisher, a sink's callback is part of the engine's step.     *)
(* What happens after the replay is not considered either: the modelled    *)
(* life of the system ends with the recovered engine.                      *)
(***************************************************************************)
EXTENDS MatchingEngine

CONSTANTS
    MaxLive,       \* bound: the sequence numbers of the engine that crashes
    MaxRecords,    \* bound: the records in the file
    MaxLapses      \* bound: the operations that the file does not tell of

VARIABLES
    mode,      \* "live", "down" after a crash, "replay", "recovered"
    file,      \* the file: [header, records]
    log,       \* the EventLog: "absent", "open", "closed", or "failed" to open
    todo,      \* the records that the Replayer has not looked at
    logged,    \* history: the books after the last result in the file
    plain,     \* history: the file tells everything that made these books
    counted,   \* history: the file tells of every number the engine used
    lapses     \* bound: what happened that the file does not tell of

logVars == << mode, file, log, todo, logged, plain, counted, lapses >>

pVars == << vars, logVars >>

-----------------------------------------------------------------------------

(* What a book holds, apart from sequence numbers and traders, of which    *)
(* the one is counted anew by a replay and the other is not in the file.   *)
View(b) == [queue     |-> b.queue,
            total     |-> b.total,
            remaining |-> [id \in Live(b) |-> b.index[id].remaining]]

(* The instruments that are not registered hold nothing.                   *)
Views(bs) ==
    [i \in Instrument |-> View(IF i \in DOMAIN bs THEN bs[i] ELSE EmptyBook)]

NoFile == [header |-> FALSE, records |-> << >>]

(* EventLog::append: nothing is written when the log is not open.          *)
AppendRecord(e) ==
    file' = IF log = "open" THEN [file EXCEPT !.records = Append(@, e)] ELSE file

RecordKind(status) ==
    CASE status = "Accepted" -> "OrderRested"
      [] status = "FullyFilled" -> "OrderFilled"
      [] status = "PartiallyFilled" -> "OrderPartiallyFilled"
      [] status = "Cancelled" -> "OrderCancelled"
      [] status = "Rejected" -> "OrderRejected"

(* PersistingSink::on_trade.                                               *)
LogTrade == AppendRecord([kind |-> "Trade", sequence |-> taker.sequence])

(* Mutant: what is left is persisted as the quantity of the order.         *)
RestingQuantity(r) == r.resting

(* The original quantity, as far as it was filled or rests.                *)
PersistedQuantity(r) == r.filled + r.resting

(* The record of a result: what write_payload writes of the order, which   *)
(* is not its trader, its time in force or what is left of it.             *)
OrderRecord(r) ==
    [kind       |-> RecordKind(r.status),
     sequence   |-> r.sequence,
     id         |-> r.order_id,
     instrument |-> taker.instrument,
     side       |-> taker.side,
     price      |-> taker.price,
     quantity   |-> PersistedQuantity(r)]

(* PersistingSink::on_submit_result for a submission that was matched.     *)
LogResult == AppendRecord(OrderRecord(result'))

(* The kinds of results from which the replay cannot tell what happened: a *)
(* filled market order has no type in the file, a cancelled IOC order ends *)
(* the replay, and a rejected order that traded is skipped.                *)
Faithful ==
    /\ taker.type = "Limit" \/ result'.filled = 0
    /\ result'.status # "Cancelled"
    /\ result'.status = "Rejected" => result'.filled = 0

-----------------------------------------------------------------------------

PInit ==
    /\ Init
    /\ mode = "live"
    /\ file = NoFile
    /\ log = "absent"
    /\ todo = << >>
    /\ logged = Views(books)
    /\ plain = TRUE
    /\ counted = TRUE
    /\ lapses = 0

(* Counted to bound the model.                                             *)
Lapse == lapses < MaxLapses /\ lapses' = lapses + 1

LapseUnlessOpen == IF log = "open" THEN UNCHANGED lapses ELSE Lapse

LogIdle == mode = "live" /\ Idle

(* EventLog(path, false): truncated, and the header written.               *)
OpenTruncate ==
    /\ LogIdle
    /\ log # "open"
    /\ file' = [header |-> TRUE, records |-> << >>]
    /\ log' = "open"
    /\ logged' = Views(books)
    /\ plain' = (Views(books) = Views([i \in {} |-> EmptyBook]))
    /\ counted' = (nextSeq = 1)
    /\ UNCHANGED << vars, mode, todo, lapses >>

(* EventLog(path, true): the file is opened for writing only, so that the  *)
(* header cannot be read, the check of it fails and the file is closed.    *)
OpenAppend ==
    /\ LogIdle
    /\ log # "open"
    /\ log' = "failed"
    /\ Lapse
    /\ UNCHANGED << vars, mode, file, todo, logged, plain, counted >>

(* read_all and close of the log that is being written leave it closed.    *)
CloseLog ==
    /\ LogIdle
    /\ log = "open"
    /\ log' = "closed"
    /\ Lapse
    /\ UNCHANGED << vars, mode, file, todo, logged, plain, counted >>

(* An operation that calls no sink makes the file tell less than happened. *)
Unlogged ==
    /\ mode = "live"
    /\ plain' = (plain /\ (log = "open" => Views(books') = Views(books)))
    /\ UNCHANGED << mode, file, log, todo, logged, counted >>

LiveRegister(i) == RegisterInstrument(i) /\ Unlogged /\ UNCHANGED lapses

LiveUnregister(i) == UnregisterInstrument(i) /\ Unlogged /\ Lapse

LiveClear == Clear /\ Unlogged /\ Lapse

LiveCancel(i, id) == Cancel(i, id) /\ Unlogged /\ Lapse

LiveModify(i, id, q, p) == Modify(i, id, q, p) /\ Unlogged /\ Lapse

LiveReduce(i, id, q) == Reduce(i, id, q) /\ Unlogged /\ Lapse

(* A submission makes at most a trade per unit and a result.               *)
LiveSubmit(r) ==
    /\ mode = "live"
    /\ nextSeq + r.quantity <= MaxLive
    /\ log = "open" => Len(file.records) + r.quantity < MaxRecords
    /\ Submit(r)
    /\ LapseUnlessOpen
    /\ counted' = (counted /\ log = "open" /\ r.id = 0)
    /\ UNCHANGED << mode, file, log, todo, logged, plain >>

(* A refused submission, of a null order too, is recorded as rejected.     *)
LiveRefused(id) ==
    /\ mode = "live"
    /\ log = "open" => Len(file.records) < MaxRecords
    /\ SubmitRefused(id)
    /\ AppendRecord([kind |-> "OrderRejected", sequence |-> 0])
    /\ LapseUnlessOpen
    /\ UNCHANGED << mode, log, todo, logged, plain, counted >>

LiveMatch ==
    /\ mode = "live"
    /\ MatchStep
    /\ LogTrade
    /\ UNCHANGED << mode, log, todo, logged, plain, counted, lapses >>

FinishAny == FinishFilled \/ FinishMarket \/ FinishIOC \/ FinishRest

LiveFinish ==
    /\ mode = "live"
    /\ FinishAny
    /\ LogResult
    /\ logged' = IF log = "open" THEN Views(books') ELSE logged
    /\ plain' = (plain /\ (log = "open" => Faithful))
    /\ counted' = (counted /\ result'.status # "Rejected")
    /\ UNCHANGED << mode, log, todo, lapses >>

(* The process ends at any moment, also between two fills.                 *)
Crash ==
    /\ mode = "live"
    /\ file.header
    /\ mode' = "down"
    /\ log' = "absent"
    /\ books' = [i \in {} |-> EmptyBook]
    /\ nextSeq' = 1
    /\ phase' = "idle"
    /\ taker' = NoTaker
    /\ tape' = << >>
    /\ result' = NoResult
    /\ placed' = [i \in Instrument |-> << >>]
    /\ moved' = [i \in Instrument |-> {}]
    /\ UNCHANGED << file, todo, logged, plain, counted, lapses >>

(* read_all: without a valid header there are no records.                  *)
ReadAll == IF file.header THEN file.records ELSE << >>

(* A new process registers the instruments and reads the file.             *)
StartReplay ==
    /\ mode = "down"
    /\ mode' = "replay"
    /\ books' = [i \in Instrument |-> EmptyBook]
    /\ todo' = ReadAll
    /\ UNCHANGED << nextSeq, phase, taker, tape, result, placed, moved,
                    file, log, logged, plain, counted, lapses >>

Replaying(kinds) ==
    /\ mode = "replay"
    /\ phase = "idle"
    /\ todo # << >>
    /\ Head(todo).kind \in kinds

(* Mutant: a trade ends the replay.                                        *)
ReplayNoTrades ==
    /\ Replaying({"OrderRejected"})
    /\ todo' = Tail(todo)
    /\ UNCHANGED << vars, mode, file, log, logged, plain, counted, lapses >>

(* Trades and rejections are only counted.                                 *)
ReplaySkip ==
    /\ Replaying({"Trade", "OrderRejected"})
    /\ todo' = Tail(todo)
    /\ UNCHANGED << vars, mode, file, log, logged, plain, counted, lapses >>

(* An order is submitted again, as a good-till-cancel limit order.         *)
ReplaySubmit ==
    /\ Replaying({"OrderRested", "OrderFilled", "OrderPartiallyFilled"})
    /\ LET e == Head(todo)
       IN  Submit([id |-> e.id, instrument |-> e.instrument, side |-> e.side,
                   type |-> IF e.quantity > 0 THEN "Limit" ELSE "Market",
                   tif |-> "GTC", price |-> e.price, quantity |-> e.quantity,
                   trader |-> 0])
    /\ todo' = Tail(todo)
    /\ UNCHANGED << mode, file, log, logged, plain, counted, lapses >>

(* The engine processes it as any other, with a sink that logs nothing.    *)
ReplayProcess ==
    /\ mode = "replay"
    /\ MatchStep \/ FinishAny
    /\ UNCHANGED logVars

(* The end of the records, or the first record of another kind.            *)
ReplayEnd ==
    /\ mode = "replay"
    /\ phase = "idle"
    /\ \A k \in DOMAIN todo : k = 1 => todo[k].kind = "OrderCancelled"
    /\ mode' = "recovered"
    /\ UNCHANGED << vars, file, log, todo, logged, plain, counted, lapses >>

Replay == StartReplay \/ ReplaySkip \/ ReplaySubmit \/ ReplayProcess \/ ReplayEnd

PNext ==
    \/ OpenTruncate
    \/ OpenAppend
    \/ CloseLog
    \/ \E i \in Instrument : LiveRegister(i) \/ LiveUnregister(i)
    \/ LiveClear
    \/ \E i \in Instrument, id \in OrderId : LiveCancel(i, id)
    \/ \E i \in Instrument, id \in OrderId, q \in Quantity, p \in Price :
           LiveModify(i, id, q, p)
    \/ \E i \in Instrument, id \in OrderId, q \in Quantity : LiveReduce(i, id, q)
    \/ \E r \in Request : LiveSubmit(r)
    \/ \E id \in ClientIds \cup {0} : LiveRefused(id)
    \/ LiveMatch
    \/ LiveFinish
    \/ Crash
    \/ Replay

(* A recovery that has begun goes on; nothing is assumed of the clients.   *)
PSpec == PInit /\ [][PNext]_pVars /\ WF_pVars(Replay)

-----------------------------------------------------------------------------
(* Properties.                                                             *)

(* Recovery: the replay of a file that tells everything, limit orders that *)
(* rest, fill or partly fill and rejections, rebuilds the books as the     *)
(* last logged submission left them, with every order in its place in the  *)
(* queue.  A submission that the crash interrupted leaves no trace, even   *)
(* if some of its trades are in the file.                                  *)
RecoveryRebuildsBooks == (mode = "recovered" /\ plain) => Views(books) = logged

(* A replay brings every book up uncrossed, whatever the file leaves out,  *)
(* even when a modify had crossed the book of the engine that crashed:     *)
(* what the file holds is matched again in its order.                      *)
RecoveredUncrossed ==
    mode = "recovered" =>
        \A i \in DOMAIN books : \A bid, ask \in Live(books[i]) :
            /\ books[i].index[bid].side = "Buy"
            /\ books[i].index[ask].side = "Sell"
            => books[i].index[bid].price < books[i].index[ask].price

(* Every recovery ends, whatever is in the file.                           *)
RecoveryEnds == (mode = "down") ~> (mode = "recovered")

(* The next number that the recovered engine gives to an order is not that *)
(* of an order in its books, if the engine that crashed chose all the ids  *)
(* and the file tells of every number it used.  It does not tell of one    *)
(* that was used without a log, or by an order that was rejected after the *)
(* checks: such a file can bring up an engine that gives an id twice.      *)
RecoveredIdsFresh ==
    (mode = "recovered" /\ plain /\ counted) =>
        \A i \in DOMAIN books : \A id \in Live(books[i]) : id < nextSeq
=============================================================================

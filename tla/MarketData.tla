----------------------------- MODULE MarketData -----------------------------
(***************************************************************************)
(* The market data publisher (publisher.hpp, publisher.cpp) attached to a  *)
(* matching engine as its TradeSink.  The engine calls the publisher on    *)
(* the matching thread, in the middle of a submission, so a callback is    *)
(* part of the engine's step: the publisher records the event in its ring, *)
(* and refreshes the cached top of book from the book as it is then.       *)
(* cancel, modify, reduce and the registration of instruments call no      *)
(* sink, and the publisher does not learn of them.                         *)
(***************************************************************************)
EXTENDS MatchingEngine

CONSTANT RingCapacity    \* kEventRingCapacity

ASSUME RingAssumption == RingCapacity \in Nat \ {0}

VARIABLES
    snapshots,    \* snapshots_: the cached top of book of instruments
    ring,         \* ring_, ring_head_ and ring_count_
    latest,       \* history: the latest RingCapacity events, oldest first
    stale         \* history: instruments changed behind the publisher's back

pubVars == << snapshots, ring, latest, stale >>

mdVars == << vars, pubVars >>

-----------------------------------------------------------------------------

NoEvent == [kind |-> "None"]

(* top_bid and top_ask: price and total of the best level.                 *)
Top(b, s) ==
    IF b.ladder[s] = {}
    THEN [has |-> FALSE, price |-> 0, quantity |-> 0]
    ELSE [has |-> TRUE, price |-> BestPrice(b, s),
          quantity |-> b.total[s][BestPrice(b, s)]]

SnapshotOf(b) == [bid |-> Top(b, "Buy"), ask |-> Top(b, "Sell")]

(* top_of_book(i) for a registered instrument: the cached snapshot wins.   *)
TopOfBook(i) == IF i \in DOMAIN snapshots THEN snapshots[i] ELSE SnapshotOf(books[i])

(* Mutant: the slot is computed without the offset of the head.            *)
RecentFromStart(n) ==
    [i \in 1 .. (IF n < ring.count THEN n ELSE ring.count) |->
        ring.slot[(ring.count - i) % RingCapacity]]

(* recent_events(n): newest first.                                         *)
RecentEvents(n) ==
    [i \in 1 .. (IF n < ring.count THEN n ELSE ring.count) |->
        ring.slot[(ring.head + RingCapacity - i) % RingCapacity]]

(* notify_event writes the slot at the head; listeners see the same event. *)
NotifyEvent(e) ==
    /\ ring' = [slot  |-> [ring.slot EXCEPT ![ring.head] = e],
                head  |-> (ring.head + 1) % RingCapacity,
                count |-> IF ring.count < RingCapacity THEN ring.count + 1 ELSE ring.count]
    /\ latest' = LET l == Append(latest, e)
                 IN  IF Len(l) > RingCapacity THEN Tail(l) ELSE l

(* Mutant: a snapshot is taken once and never refreshed.                   *)
NotifyTobOnce(i) ==
    /\ snapshots' = IF i \in DOMAIN snapshots
                    THEN snapshots
                    ELSE [j \in DOMAIN snapshots \cup {i} |->
                             IF j = i THEN SnapshotOf(books'[i]) ELSE snapshots[j]]
    /\ stale' = stale \ {i}

(* notify_tob reads the book after the step that calls it.                 *)
NotifyTob(i) ==
    /\ snapshots' = [j \in DOMAIN snapshots \cup {i} |->
                        IF j = i THEN SnapshotOf(books'[i]) ELSE snapshots[j]]
    /\ stale' = stale \ {i}

(* on_trade, called by the match loop after every fill.                    *)
OnTrade ==
    /\ NotifyEvent([kind |-> "Trade", sequence |-> taker.sequence])
    /\ NotifyTob(taker.instrument)

EventKind(status) ==
    CASE status = "Accepted" -> "OrderRested"
      [] status = "FullyFilled" -> "OrderFilled"
      [] status = "PartiallyFilled" -> "OrderPartiallyFilled"
      [] status = "Cancelled" -> "OrderCancelled"
      [] status = "Rejected" -> "OrderRejected"

Refreshes(status) == status \in {"Accepted", "PartiallyFilled", "FullyFilled"}

(* on_submit_result, the last call of every submission.                    *)
OnSubmitResult(i) ==
    /\ NotifyEvent([kind |-> EventKind(result'.status), sequence |-> result'.sequence])
    /\ IF Refreshes(result'.status) THEN NotifyTob(i) ELSE UNCHANGED << snapshots, stale >>

-----------------------------------------------------------------------------

MDInit ==
    /\ Init
    /\ snapshots = [i \in {} |-> SnapshotOf(EmptyBook)]
    /\ ring = [slot |-> [k \in 0 .. (RingCapacity - 1) |-> NoEvent], head |-> 0, count |-> 0]
    /\ latest = << >>
    /\ stale = {}

(* An operation that calls no sink.                                        *)
Unnoticed(i) ==
    /\ stale' = stale \cup {i}
    /\ UNCHANGED << snapshots, ring, latest >>

PubRegister(i) == RegisterInstrument(i) /\ UNCHANGED pubVars

PubUnregister(i) == UnregisterInstrument(i) /\ Unnoticed(i)

PubClear ==
    /\ Clear
    /\ stale' = stale \cup DOMAIN snapshots
    /\ UNCHANGED << snapshots, ring, latest >>

PubCancel(i, id) == Cancel(i, id) /\ Unnoticed(i)

PubModify(i, id, q, p) == Modify(i, id, q, p) /\ Unnoticed(i)

PubReduce(i, id, q) == Reduce(i, id, q) /\ Unnoticed(i)

PubSubmit(r) == Submit(r) /\ UNCHANGED pubVars

PubRefused(id) == SubmitRefused(id) /\ OnSubmitResult(0)

PubNull == SubmitNull /\ OnSubmitResult(0)

PubMatch == MatchStep /\ OnTrade

PubFinish ==
    /\ FinishFilled \/ FinishMarket \/ FinishIOC \/ FinishRest
    /\ OnSubmitResult(taker.instrument)

MDNext ==
    \/ \E i \in Instrument : PubRegister(i) \/ PubUnregister(i)
    \/ PubClear
    \/ \E i \in Instrument, id \in OrderId : PubCancel(i, id)
    \/ \E i \in Instrument, id \in OrderId, q \in 0 .. (MaxQuantity + 1), p \in Price :
           PubModify(i, id, q, p)
    \/ \E i \in Instrument, id \in OrderId, q \in 0 .. MaxQuantity : PubReduce(i, id, q)
    \/ \E r \in Request : PubSubmit(r)
    \/ \E id \in ClientIds \cup {0} : PubRefused(id)
    \/ PubNull
    \/ PubMatch
    \/ PubFinish

MDSpec == MDInit /\ [][MDNext]_mdVars

-----------------------------------------------------------------------------
(* Properties.                                                             *)

(* What top_of_book returns for a registered instrument is the top of its  *)
(* book, also between two fills of a submission, unless the book changed   *)
(* by an operation that calls no sink and nothing traded or rested since.  *)
TopOfBookCurrent ==
    \A i \in DOMAIN books \ stale : TopOfBook(i) = SnapshotOf(books[i])

(* The ring shows a late joiner the latest events, newest first, however   *)
(* often it has wrapped around and however many events are asked for.      *)
RecentEventsAreLatest ==
    \A n \in 0 .. (RingCapacity + 1) :
        RecentEvents(n) = LET k == IF n < Len(latest) THEN n ELSE Len(latest)
                          IN  [i \in 1 .. k |-> latest[Len(latest) + 1 - i]]
=============================================================================

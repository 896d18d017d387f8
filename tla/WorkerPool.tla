----------------------------- MODULE WorkerPool -----------------------------
(***************************************************************************)
(* The worker pool (worker_pool.hpp, worker_pool.cpp): one thread per      *)
(* instrument that takes orders from its inbox and runs them through its   *)
(* own engine, client threads that submit under the pool's mutex, and a    *)
(* thread that shuts the pool down while holding that mutex.               *)
(*                                                                         *)
(* The inbox is the bounded FIFO that SPSCQueue implements, and the        *)
(* outbound queue is guarded by its own mutex, so a push or pop of either  *)
(* is one step.  Of a submission to the engine only the events it emits    *)
(* matter here: some trades and then one result (see MatchingEngine).      *)
(***************************************************************************)
EXTENDS Integers, Sequences, SequencesExt

CONSTANTS
    Instrument,         \* the instruments
    Order,              \* the orders that clients submit, each once
    InboxCapacity,      \* slots of an inbox (4096)
    OutboundCapacity,   \* capacity_ of the outbound queue (65536)
    MaxTrades,          \* bound: trades of one submission
    MaxStarts           \* bound: workers started over the life of the pool

ASSUME PoolAssumption ==
    /\ InboxCapacity \in Nat \ {0}
    /\ OutboundCapacity \in Nat \ {0}
    /\ MaxTrades \in Nat
    /\ MaxStarts \in Nat

VARIABLES
    workers,    \* workers_: the instruments that have a Worker
    running,    \* running_ of every worker
    engine,     \* is engine_ allocated?
    inbox,      \* inbox_ of every worker
    thread,     \* the worker threads: [pc, order, trades]
    outbound,   \* the outbound queue
    shutting,   \* shutdown: [pc, worker]; it holds mtx_ unless pc is "idle"
    starts,     \* workers started so far
    where,      \* history: where every order is
    accepted,   \* history: per live worker, the orders it was sent
    answered    \* history: per live worker, the orders it has answered

vars == << workers, running, engine, inbox, thread, outbound, shutting, starts,
           where, accepted, answered >>

-----------------------------------------------------------------------------
(* The record {nullptr} that tells a worker to exit.                       *)
Poison == "poison"

NoOrder == "none"

ASSUME PillAssumption == Poison \notin Order

NoThread == [pc |-> "none", order |-> NoOrder, trades |-> 0]

(* The orders in an inbox: all of it but the pill, which is the last       *)
(* record an inbox ever gets.                                              *)
Orders(seq) == IF seq # << >> /\ Last(seq) = Poison THEN Front(seq) ELSE seq

(* Mutant: shutdown releases the mutex while it joins a thread.            *)
UnlockedDuringJoin == shutting.pc \in {"idle", "join"}

(* mtx_ of the pool is free.                                               *)
Unlocked == shutting.pc = "idle"

(* Mutant: the latest submission is served first.                          *)
PushInboxAtFront(i, x) ==
    inbox' = IF Len(inbox[i]) < InboxCapacity
             THEN [inbox EXCEPT ![i] = << x >> \o @]
             ELSE inbox

PushInbox(i, x) ==
    inbox' = IF Len(inbox[i]) < InboxCapacity
             THEN [inbox EXCEPT ![i] = Append(@, x)]
             ELSE inbox

(* The result of the push is ignored: at capacity the event is lost.       *)
PushOutbound(e) ==
    outbound' = IF Len(outbound) < OutboundCapacity
                THEN Append(outbound, e)
                ELSE outbound

Init ==
    /\ workers = {}
    /\ running = [i \in Instrument |-> FALSE]
    /\ engine = [i \in Instrument |-> FALSE]
    /\ inbox = [i \in Instrument |-> << >>]
    /\ thread = [i \in Instrument |-> NoThread]
    /\ outbound = << >>
    /\ shutting = [pc |-> "idle", worker |-> NoOrder]
    /\ starts = 0
    /\ where = [o \in Order |-> "client"]
    /\ accepted = [i \in Instrument |-> << >>]
    /\ answered = [i \in Instrument |-> << >>]

-----------------------------------------------------------------------------
(* The clients.                                                            *)

(* Worker::start: the engine exists before the thread that uses it.        *)
StartWorker(i) ==
    /\ running' = [running EXCEPT ![i] = TRUE]
    /\ engine' = [engine EXCEPT ![i] = TRUE]
    /\ thread' = [thread EXCEPT ![i].pc = "check"]

(* get_or_create: a new worker is started before it enters the map.        *)
GetOrCreate(i) ==
    /\ Unlocked
    /\ i \notin workers
    /\ starts < MaxStarts
    /\ StartWorker(i)
    /\ workers' = workers \cup {i}
    /\ starts' = starts + 1
    /\ UNCHANGED << inbox, outbound, shutting, where, accepted, answered >>

(* Worker::submit: the owner of the order is released first, and when the  *)
(* inbox is full nobody owns the order any more.                           *)
SubmitToWorker(i, o) ==
    /\ PushInbox(i, o)
    /\ IF Len(inbox[i]) < InboxCapacity
       THEN /\ where' = [where EXCEPT ![o] = "inbox"]
            /\ accepted' = [accepted EXCEPT ![i] = Append(@, o)]
       ELSE /\ where' = [where EXCEPT ![o] = "leaked"]
            /\ UNCHANGED accepted

(* submit: without a worker the order is destroyed and false returned.     *)
Submit(i, o) ==
    /\ Unlocked
    /\ where[o] = "client"
    /\ IF i \in workers
       THEN SubmitToWorker(i, o)
       ELSE /\ where' = [where EXCEPT ![o] = "refused"]
            /\ UNCHANGED << inbox, accepted >>
    /\ UNCHANGED << workers, running, engine, thread, outbound, shutting, starts, answered >>

(* The consumer of the outbound queue.                                     *)
DrainOutbound ==
    /\ outbound # << >>
    /\ outbound' = Tail(outbound)
    /\ UNCHANGED << workers, running, engine, inbox, thread, shutting, starts,
                    where, accepted, answered >>

-----------------------------------------------------------------------------
(* Worker::run.                                                            *)

(* Mutant: the thread relies on the poison pill alone to end.              *)
CheckNothing(i) ==
    /\ thread[i].pc = "check"
    /\ thread' = [thread EXCEPT ![i].pc = "pop"]
    /\ UNCHANGED << workers, running, engine, inbox, outbound, shutting, starts,
                    where, accepted, answered >>

CheckRunning(i) ==
    /\ thread[i].pc = "check"
    /\ thread' = [thread EXCEPT ![i].pc = IF running[i] THEN "pop" ELSE "exited"]
    /\ UNCHANGED << workers, running, engine, inbox, outbound, shutting, starts,
                    where, accepted, answered >>

(* Mutant: the thread ends when it finds its inbox empty.                  *)
ExitWhenEmpty(i) ==
    /\ thread[i].pc = "pop"
    /\ inbox[i] = << >>
    /\ thread' = [thread EXCEPT ![i].pc = "exited"]
    /\ UNCHANGED << workers, running, engine, inbox, outbound, shutting, starts,
                    where, accepted, answered >>

(* An empty inbox: sleep and look again.                                   *)
PopNothing(i) ==
    /\ thread[i].pc = "pop"
    /\ inbox[i] = << >>
    /\ thread' = [thread EXCEPT ![i].pc = "check"]
    /\ UNCHANGED << workers, running, engine, inbox, outbound, shutting, starts,
                    where, accepted, answered >>

PopInbox(i) ==
    /\ thread[i].pc = "pop"
    /\ inbox[i] # << >>
    /\ inbox' = [inbox EXCEPT ![i] = Tail(@)]
    /\ IF Head(inbox[i]) = Poison
       THEN /\ thread' = [thread EXCEPT ![i].pc = "exited"]
            /\ UNCHANGED where
       ELSE /\ thread' = [thread EXCEPT ![i] = [pc |-> "submit",
                                                order |-> Head(inbox[i]),
                                                trades |-> 0]]
            /\ where' = [where EXCEPT ![Head(inbox[i])] = "engine"]
    /\ UNCHANGED << workers, running, engine, outbound, shutting, starts, accepted, answered >>

(* WorkerSink::on_trade.                                                   *)
OnTrade(i) ==
    /\ thread[i].pc = "submit"
    /\ thread[i].trades < MaxTrades
    /\ thread' = [thread EXCEPT ![i].trades = @ + 1]
    /\ PushOutbound([kind |-> "Trade", order |-> thread[i].order, instrument |-> i])
    /\ UNCHANGED << workers, running, engine, inbox, shutting, starts,
                    where, accepted, answered >>

(* WorkerSink::on_submit_result; submit returns to the loop.               *)
OnSubmitResult(i) ==
    /\ thread[i].pc = "submit"
    /\ thread' = [thread EXCEPT ![i] = [pc |-> "check", order |-> NoOrder, trades |-> 0]]
    /\ where' = [where EXCEPT ![thread[i].order] = "answered"]
    /\ answered' = [answered EXCEPT ![i] = Append(@, thread[i].order)]
    /\ PushOutbound([kind |-> "Submit", order |-> thread[i].order, instrument |-> i])
    /\ UNCHANGED << workers, running, engine, inbox, shutting, starts, accepted >>

WorkerStep(i) ==
    CheckRunning(i) \/ PopNothing(i) \/ PopInbox(i) \/ OnTrade(i) \/ OnSubmitResult(i)

-----------------------------------------------------------------------------
(* shutdown, which holds mtx_ throughout, and the stop of every worker.    *)

ShutdownBegin ==
    /\ Unlocked
    /\ workers # {}
    /\ shutting' = [shutting EXCEPT !.pc = "next"]
    /\ UNCHANGED << workers, running, engine, inbox, thread, outbound, starts,
                    where, accepted, answered >>

(* stop: the exchange of running_.                                         *)
StopWorker(i) ==
    /\ shutting.pc = "next"
    /\ i \in workers
    /\ running[i]
    /\ running' = [running EXCEPT ![i] = FALSE]
    /\ shutting' = [pc |-> "poison", worker |-> i]
    /\ UNCHANGED << workers, engine, inbox, thread, outbound, starts,
                    where, accepted, answered >>

(* The result of this push is ignored too.                                 *)
PushPoison ==
    /\ shutting.pc = "poison"
    /\ PushInbox(shutting.worker, Poison)
    /\ shutting' = [shutting EXCEPT !.pc = "join"]
    /\ UNCHANGED << workers, running, engine, thread, outbound, starts,
                    where, accepted, answered >>

(* Mutant: the engine is deleted without waiting for the thread.           *)
DeleteWithoutJoin ==
    /\ shutting.pc = "join"
    /\ engine' = [engine EXCEPT ![shutting.worker] = FALSE]
    /\ shutting' = [pc |-> "next", worker |-> NoOrder]
    /\ UNCHANGED << workers, running, inbox, thread, outbound, starts,
                    where, accepted, answered >>

JoinAndDelete ==
    /\ shutting.pc = "join"
    /\ thread[shutting.worker].pc = "exited"
    /\ thread' = [thread EXCEPT ![shutting.worker] = NoThread]
    /\ engine' = [engine EXCEPT ![shutting.worker] = FALSE]
    /\ shutting' = [pc |-> "next", worker |-> NoOrder]
    /\ UNCHANGED << workers, running, inbox, outbound, starts, where, accepted, answered >>

(* workers_.clear(): the inboxes are destroyed with the workers, but not   *)
(* the orders whose raw pointers they still hold.                          *)
ShutdownEnd ==
    /\ shutting.pc = "next"
    /\ \A i \in workers : ~ running[i]
    /\ workers' = {}
    /\ inbox' = [i \in Instrument |-> << >>]
    /\ where' = [o \in Order |-> IF where[o] = "inbox" THEN "leaked" ELSE where[o]]
    /\ accepted' = [i \in Instrument |-> << >>]
    /\ answered' = [i \in Instrument |-> << >>]
    /\ shutting' = [shutting EXCEPT !.pc = "idle"]
    /\ UNCHANGED << running, engine, thread, outbound, starts >>

ShutdownStep ==
    \/ \E i \in Instrument : StopWorker(i)
    \/ PushPoison
    \/ JoinAndDelete
    \/ ShutdownEnd

-----------------------------------------------------------------------------
Next ==
    \/ \E i \in Instrument : GetOrCreate(i)
    \/ \E i \in Instrument, o \in Order : Submit(i, o)
    \/ DrainOutbound
    \/ \E i \in Instrument : WorkerStep(i)
    \/ ShutdownBegin
    \/ ShutdownStep

(* The worker threads and the thread in shutdown keep running; a           *)
(* submission emits finitely many trades, so its result comes.  Nothing is *)
(* assumed of the clients or of the outbound queue's consumer.             *)
Fairness ==
    /\ \A i \in Instrument : WF_vars(CheckRunning(i) \/ PopNothing(i) \/ PopInbox(i)
                                     \/ OnSubmitResult(i))
    /\ WF_vars(ShutdownStep)

Spec == Init /\ [][Next]_vars /\ Fairness

-----------------------------------------------------------------------------
(* Properties.                                                             *)

Event == [kind : {"Trade", "Submit"}, order : Order, instrument : Instrument]

(* Every variable has its type.                                            *)
TypeOK ==
    /\ workers \subseteq Instrument
    /\ running \in [Instrument -> BOOLEAN]
    /\ engine \in [Instrument -> BOOLEAN]
    /\ inbox \in [Instrument -> Seq(Order \cup {Poison})]
    /\ \A i \in Instrument : Len(inbox[i]) <= InboxCapacity
    /\ thread \in [Instrument -> [pc : {"none", "check", "pop", "submit", "exited"},
                                  order : Order \cup {NoOrder},
                                  trades : 0 .. MaxTrades]]
    /\ outbound \in Seq(Event)
    /\ Len(outbound) <= OutboundCapacity
    /\ shutting \in [pc : {"idle", "next", "poison", "join"},
                     worker : Instrument \cup {NoOrder}]
    /\ starts \in 0 .. MaxStarts
    /\ where \in [Order -> {"client", "refused", "inbox", "engine", "answered", "leaked"}]
    /\ accepted \in [Instrument -> Seq(Order)]
    /\ answered \in [Instrument -> Seq(Order)]

(* A worker answers the orders it was sent in the order in which submit    *)
(* accepted them, and while it lives none of them is lost on the way: they *)
(* are answered, or in the engine, or in the inbox.  Whoever drains the    *)
(* outbound queue has seen the trades of a submission that were not lost   *)
(* before it sees the result, although the workers write to the queue      *)
(* concurrently and drop events when it is full.                           *)
AnswersInOrder ==
    /\ \A i \in Instrument :
           accepted[i] = answered[i]
                         \o (IF thread[i].pc = "submit" THEN << thread[i].order >> ELSE << >>)
                         \o Orders(inbox[i])
    /\ \A m, n \in DOMAIN outbound :
           m < n /\ outbound[m].order = outbound[n].order => outbound[m].kind = "Trade"

(* stop deletes the engine only after the thread that uses it has ended,   *)
(* and a worker in the map always has an engine until it is stopped.       *)
EngineOutlivesThread ==
    /\ TypeOK
    /\ \A i \in Instrument :
           (thread[i].pc \in {"check", "pop", "submit"} \/ running[i]) => engine[i]

(* No order is sent to a worker that has been told to stop, where nobody   *)
(* would take it from the inbox.                                           *)
StoppedGetsNothing ==
    [][\A i \in Instrument :
           (i \in workers /\ ~ running[i]) => accepted'[i] \in {accepted[i], << >>}]_vars

(* Every order that submit accepted is answered, unless the pool is shut   *)
(* down first.                                                             *)
AcceptedIsAnswered ==
    \A o \in Order : (where[o] = "inbox") ~> (where[o] \in {"answered", "leaked"})

(* shutdown returns, and with it the mutex, even when an inbox is so full  *)
(* that the poison pill could not be pushed.                               *)
ShutdownReturns == (shutting.pc # "idle") ~> (shutting.pc = "idle")
=============================================================================

----------------------------- MODULE SPSCQueue ------------------------------
(***************************************************************************)
(* The single-producer single-consumer ring buffer (spsc_queue.hpp).       *)
(* push and pop are modelled at the grain of their atomic operations: each *)
(* load, the access to the buffer and each store is a step of its own, and *)
(* the two threads interleave freely.  A load of the other thread's cursor *)
(* may return any value that cursor has had since the thread last read it, *)
(* as acquire loads may: only coherence and the order of a thread's own    *)
(* release stores are relied upon.                                         *)
(*                                                                         *)
(* The cursors are unsigned and wrap around at W (2^64 in the code).       *)
(***************************************************************************)
EXTENDS Integers, Sequences

CONSTANTS
    N,        \* the number of slots
    W,        \* the cursors count modulo W
    Value     \* the payloads

ASSUME SPSCAssumption ==
    /\ N \in Nat \ {0, 1}
    /\ W \in Nat
    /\ W > N
    /\ W % N = 0

VARIABLES
    head,      \* head_: advanced by the consumer
    tail,      \* tail_: advanced by the producer
    buffer,    \* buffer_
    producer,  \* locals of push: [pc, value, tail, head]
    consumer,  \* locals of pop: [pc, value, head, tail]
    out        \* the value the latest successful pop returned

ringVars == << head, tail, buffer, producer, consumer, out >>

-----------------------------------------------------------------------------
Cursor == 0 .. (W - 1)

Advance(c) == IF c = W - 1 THEN 0 ELSE c + 1

(* a - b in unsigned arithmetic.                                           *)
Distance(a, b) == IF a >= b THEN a - b ELSE a - b + W

(* Mutant: the mask is off by one.                                         *)
SlotOffByOne(c) == c % (N - 1)

(* c & MASK.                                                               *)
Slot(c) == c % N

(* The values a cursor has had from the one last seen to the current one.  *)
Readable(seen, current) ==
    {c \in Cursor : Distance(c, seen) <= Distance(current, seen)}

RingInit ==
    /\ head = 0
    /\ tail = 0
    /\ out \in Value
    /\ buffer = [i \in 0 .. (N - 1) |-> out]
    /\ producer = [pc |-> "idle", value |-> out, tail |-> 0, head |-> 0]
    /\ consumer = [pc |-> "idle", value |-> out, head |-> 0, tail |-> 0]

-----------------------------------------------------------------------------
(* push(value).                                                            *)

PushStart(v) ==
    /\ producer.pc = "idle"
    /\ producer' = [producer EXCEPT !.pc = "load", !.value = v, !.tail = tail]
    /\ UNCHANGED << head, tail, buffer, consumer, out >>

PushLoadHead(h) ==
    /\ producer.pc = "load"
    /\ h \in Readable(producer.head, head)
    /\ producer' = [producer EXCEPT !.pc = "check", !.head = h]
    /\ UNCHANGED << head, tail, buffer, consumer, out >>

PushFull ==
    /\ producer.pc = "check"
    /\ Distance(producer.tail, producer.head) = N
    /\ producer' = [producer EXCEPT !.pc = "idle"]
    /\ UNCHANGED << head, tail, buffer, consumer, out >>

(* Mutant: the producer does not ask whether the ring is full.             *)
PushWriteUnchecked ==
    /\ producer.pc = "check"
    /\ buffer' = [buffer EXCEPT ![Slot(producer.tail)] = producer.value]
    /\ producer' = [producer EXCEPT !.pc = "publish"]
    /\ UNCHANGED << head, tail, consumer, out >>

PushWrite ==
    /\ producer.pc = "check"
    /\ Distance(producer.tail, producer.head) # N
    /\ buffer' = [buffer EXCEPT ![Slot(producer.tail)] = producer.value]
    /\ producer' = [producer EXCEPT !.pc = "publish"]
    /\ UNCHANGED << head, tail, consumer, out >>

PushPublish ==
    /\ producer.pc = "publish"
    /\ tail' = Advance(producer.tail)
    /\ producer' = [producer EXCEPT !.pc = "idle"]
    /\ UNCHANGED << head, buffer, consumer, out >>

-----------------------------------------------------------------------------
(* pop(value).                                                             *)

PopStart ==
    /\ consumer.pc = "idle"
    /\ consumer' = [consumer EXCEPT !.pc = "load", !.head = head]
    /\ UNCHANGED << head, tail, buffer, producer, out >>

PopLoadTail(t) ==
    /\ consumer.pc = "load"
    /\ t \in Readable(consumer.tail, tail)
    /\ consumer' = [consumer EXCEPT !.pc = "check", !.tail = t]
    /\ UNCHANGED << head, tail, buffer, producer, out >>

(* Mutant: the cursors are compared after masking, so that a full ring may *)
(* be taken for an empty one.                                              *)
PopEmptyMasked ==
    /\ consumer.pc = "check"
    /\ Slot(consumer.head) = Slot(consumer.tail)
    /\ consumer' = [consumer EXCEPT !.pc = "idle"]
    /\ UNCHANGED << head, tail, buffer, producer, out >>

PopEmpty ==
    /\ consumer.pc = "check"
    /\ consumer.head = consumer.tail
    /\ consumer' = [consumer EXCEPT !.pc = "idle"]
    /\ UNCHANGED << head, tail, buffer, producer, out >>

PopRead ==
    /\ consumer.pc = "check"
    /\ consumer.head # consumer.tail
    /\ consumer' = [consumer EXCEPT !.pc = "release",
                                    !.value = buffer[Slot(consumer.head)]]
    /\ UNCHANGED << head, tail, buffer, producer, out >>

PopRelease ==
    /\ consumer.pc = "release"
    /\ head' = Advance(consumer.head)
    /\ out' = consumer.value
    /\ consumer' = [consumer EXCEPT !.pc = "idle"]
    /\ UNCHANGED << tail, buffer, producer >>

-----------------------------------------------------------------------------
Push ==
    \/ \E v \in Value : PushStart(v)
    \/ \E h \in Cursor : PushLoadHead(h)
    \/ PushFull
    \/ PushWrite
    \/ PushPublish

Pop ==
    \/ PopStart
    \/ \E t \in Cursor : PopLoadTail(t)
    \/ PopEmpty
    \/ PopRead
    \/ PopRelease

RingNext == Push \/ Pop

(* The consumer pops again and again (Worker::run), and among repeated     *)
(* loads of tail_ some return its current value: a store becomes visible   *)
(* in finite time.  Nothing is assumed of the producer.                    *)
RingFairness ==
    /\ WF_ringVars(PopStart \/ PopEmpty \/ PopRead \/ PopRelease)
    /\ SF_ringVars(PopLoadTail(tail))

RingSpec == RingInit /\ [][RingNext]_ringVars /\ RingFairness

-----------------------------------------------------------------------------
(* Properties.                                                             *)

(* Every variable has its type.                                            *)
RingTypeOK ==
    /\ head \in Cursor
    /\ tail \in Cursor
    /\ buffer \in [0 .. (N - 1) -> Value]
    /\ producer \in [pc : {"idle", "load", "check", "publish"},
                     value : Value, tail : Cursor, head : Cursor]
    /\ consumer \in [pc : {"idle", "load", "check", "release"},
                     value : Value, head : Cursor, tail : Cursor]
    /\ out \in Value

(* The two threads never access one slot at the same time: while the       *)
(* consumer is about to read or has read a slot that it has not released,  *)
(* the producer is not about to write it.  Without this the copy of the    *)
(* payload would be a data race.                                           *)
NoSlotRace ==
    /\ RingTypeOK
    /\ ~ /\ consumer.pc = "check" /\ consumer.head # consumer.tail
         /\ producer.pc = "check" /\ Distance(producer.tail, producer.head) # N
         /\ Slot(producer.tail) = Slot(consumer.head)

(* The values between the two cursors.                                     *)
Content == [i \in 1 .. Distance(tail, head) |-> buffer[(head + i - 1) % N]]

Fifo == INSTANCE BoundedFifo WITH items <- Content

(* The ring is a FIFO of capacity N: a push takes effect with the store of *)
(* tail_, a pop with the store of head_, and in between nothing that is    *)
(* inside is overwritten, lost, duplicated or reordered, also when a       *)
(* thread works with an outdated cursor and when the cursors wrap around.  *)
ImplementsBoundedFifo == Fifo!Spec

(* What is pushed is popped: a full ring does not stay full.               *)
FullRingDrains == (Distance(tail, head) = N) ~> (Distance(tail, head) < N)
=============================================================================

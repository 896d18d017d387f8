------------------------- MODULE WorkerPool_proofs --------------------------
(***************************************************************************)
(* Proofs about the worker pool, for any number of instruments and orders  *)
(* and any capacities: no thread uses a deleted engine, no accepted order  *)
(* is lost or overtaken while its worker lives, and a stopped worker gets  *)
(* no orders.  The second part is about SPSCQueue, the queue of an inbox.  *)
(***************************************************************************)
EXTENDS WorkerPool, SPSCQueue, SequenceTheorems, TLAPS

(* shutdown is between telling worker i to stop and deleting its engine.   *)
Stopping(i) == shutting.pc \in {"poison", "join"} /\ shutting.worker = i

(* A worker whose inbox holds a pill holds it at the end.                  *)
Clean(seq) == \A k \in 1 .. Len(seq) : seq[k] # Poison

PillLast(seq) == \A k \in 1 .. Len(seq) : seq[k] = Poison => k = Len(seq)

(* The life of a worker: it runs from its start until shutdown, which      *)
(* holds the mutex, tells it to stop; from then on shutdown waits for its  *)
(* thread; and what is left after that has neither thread nor engine.      *)
Lifecycle ==
    /\ shutting.pc \in {"poison", "join"} =>
           shutting.worker \in workers /\ ~ running[shutting.worker]
    /\ \A i \in Instrument :
           /\ running[i] => i \in workers /\ engine[i]
           /\ Unlocked /\ i \in workers => running[i]
           /\ ~ running[i] /\ ~ Stopping(i) => thread[i] = NoThread
           /\ thread[i].pc \in {"check", "pop", "submit"} => engine[i]
           /\ i \notin workers => /\ inbox[i] = << >>
                                  /\ accepted[i] = << >>
                                  /\ answered[i] = << >>

(* The pill comes after the orders, when the worker is no longer running.  *)
Pills ==
    \A i \in Instrument :
        /\ PillLast(inbox[i])
        /\ running[i] => Clean(inbox[i])
        /\ shutting.pc = "poison" /\ shutting.worker = i => Clean(inbox[i])

(* An order is in one place, and its place is known.                       *)
InboxPlaces ==
    \A i \in Instrument : \A k \in 1 .. Len(inbox[i]) :
        inbox[i][k] # Poison => where[inbox[i][k]] = "inbox"

InboxUnique ==
    \A i, j \in Instrument :
        \A k \in 1 .. Len(inbox[i]), l \in 1 .. Len(inbox[j]) :
            inbox[i][k] = inbox[j][l] /\ inbox[i][k] # Poison => i = j /\ k = l

ThreadPlaces ==
    \A i \in Instrument : thread[i].pc = "submit" =>
        thread[i].order \in Order /\ where[thread[i].order] = "engine"

ThreadUnique ==
    \A i, j \in Instrument :
        /\ thread[i].pc = "submit" /\ thread[j].pc = "submit"
        /\ thread[i].order = thread[j].order
        => i = j

Places == InboxPlaces /\ InboxUnique /\ ThreadPlaces /\ ThreadUnique

(* A result in the outbound queue is that of an answered order.            *)
Told ==
    \A m \in 1 .. Len(outbound) :
        outbound[m].kind = "Submit" => where[outbound[m].order] = "answered"

(* The two parts of AnswersInOrder.                                        *)
Busy(i) == IF thread[i].pc = "submit" THEN << thread[i].order >> ELSE << >>

Pipeline == \A i \in Instrument : accepted[i] = answered[i] \o Busy(i) \o Orders(inbox[i])

ResultLast ==
    \A m, n \in 1 .. Len(outbound) :
        m < n /\ outbound[m].order = outbound[n].order => outbound[m].kind = "Trade"

IInv ==
    /\ TypeOK
    /\ Lifecycle
    /\ Pills
    /\ Places
    /\ Told
    /\ Pipeline
    /\ ResultLast

-----------------------------------------------------------------------------
Thread == [pc : {"none", "check", "pop", "submit", "exited"},
           order : Order \cup {NoOrder}, trades : 0 .. MaxTrades]

(* Inboxes as sequences.                                                   *)

Record == Order \cup {Poison}

LEMMA MoveOne ==
    ASSUME NEW S, NEW s \in Seq(S), NEW x \in S, NEW t \in Seq(S)
    PROVE  s \o (<< x >> \o t) = (s \o << x >>) \o t
  <1> DEFINE u == << x >>
  <1>1. u \in Seq(S)
    OBVIOUS
  <1> HIDE DEF u
  <1>2. s \o (u \o t) = (s \o u) \o t
    BY <1>1, ConcatAssociative
  <1> QED BY <1>2 DEF u

LEMMA OrdersClean ==
    ASSUME NEW s \in Seq(Record), Clean(s)
    PROVE  s \in Seq(Order) /\ Orders(s) = s /\ PillLast(s)
  <1>1. \A k \in 1 .. Len(s) : s[k] \in Order
    BY DEF Clean, Record
  <1>2. s \in Seq(Order)
    BY <1>1
  <1>3. s # << >> => Last(s) # Poison
    BY DEF Clean, Last
  <1> QED BY <1>2, <1>3 DEF Orders, PillLast, Clean

LEMMA OrdersAppend ==
    ASSUME NEW s \in Seq(Record), Clean(s), NEW x \in Order
    PROVE  Clean(Append(s, x)) /\ Orders(Append(s, x)) = Append(Orders(s), x)
  <1> DEFINE t == Append(s, x)
  <1>1. /\ t \in Seq(Record) /\ Len(t) = Len(s) + 1 /\ t[Len(s) + 1] = x
        /\ \A k \in 1 .. Len(s) : t[k] = s[k]
    BY AppendProperties DEF Record
  <1>2. x # Poison
    BY PillAssumption
  <1>3. Clean(t)
    <2> HIDE DEF t
    <2> QED BY <1>1, <1>2 DEF Clean
  <1> QED BY <1>1, <1>3, OrdersClean

LEMMA OrdersPill ==
    ASSUME NEW s \in Seq(Record), Clean(s)
    PROVE  PillLast(Append(s, Poison)) /\ Orders(Append(s, Poison)) = Orders(s)
  <1> DEFINE t == Append(s, Poison)
  <1>1. /\ t \in Seq(Record) /\ t # << >> /\ Len(t) = Len(s) + 1 /\ t[Len(s) + 1] = Poison
        /\ \A k \in 1 .. Len(s) : t[k] = s[k]
    BY AppendProperties DEF Record
  <1> HIDE DEF t
  <1>2. PillLast(t)
    BY <1>1 DEF Clean, PillLast
  <1>3. Orders(t) = Front(t)
    BY <1>1 DEF Orders, Last
  <1>4. Front(t) = s
    <2>1. /\ SubSeq(t, 1, Len(s)) \in Seq(Record)
          /\ Len(SubSeq(t, 1, Len(s))) = Len(s)
          /\ \A k \in 1 .. Len(s) : SubSeq(t, 1, Len(s))[k] = s[k]
      BY <1>1
    <2>2. SubSeq(t, 1, Len(s)) = s
      BY <2>1, SeqEqual
    <2> QED BY <2>2, <1>1 DEF Front
  <1> QED BY <1>2, <1>3, <1>4, OrdersClean DEF t

LEMMA OrdersTail ==
    ASSUME NEW s \in Seq(Record), s # << >>, PillLast(s)
    PROVE  /\ PillLast(Tail(s))
           /\ Clean(s) => Clean(Tail(s))
           /\ Orders(Tail(s)) \in Seq(Order)
           /\ Head(s) = Poison => Orders(s) = << >> /\ Orders(Tail(s)) = << >>
           /\ Head(s) # Poison => /\ Head(s) \in Order
                                  /\ Orders(s) = << Head(s) >> \o Orders(Tail(s))
  <1> DEFINE t == Tail(s)
             n == Len(s)
  <1>1. /\ n \in Nat \ {0} /\ Head(s) = s[1] /\ s[1] \in Record
        /\ t \in Seq(Record) /\ Len(t) = n - 1 /\ \A k \in 1 .. (n - 1) : t[k] = s[k + 1]
    BY HeadTailProperties, EmptySeq
  <1>2. s = << Head(s) >> \o t
    <2>1. s = SubSeq(s, 1, n) /\ t = SubSeq(s, 2, n)
      BY SubSeqFull, TailIsSubSeq
    <2>2. SubSeq(s, 1, n) = << s[1] >> \o SubSeq(s, 1 + 1, n)
      BY <1>1, SubSeqRecursiveFirst
    <2> QED BY <2>1, <2>2, <1>1
  <1> SUFFICES /\ PillLast(t)
               /\ Clean(s) => Clean(t)
               /\ Orders(t) \in Seq(Order)
               /\ Head(s) = Poison => Orders(s) = << >> /\ Orders(t) = << >>
               /\ Head(s) # Poison => /\ Head(s) \in Order
                                      /\ Orders(s) = << Head(s) >> \o Orders(t)
    OBVIOUS
  <1> HIDE DEF t
  <1>3. PillLast(t) /\ (Clean(s) => Clean(t))
    <2>1. ASSUME NEW k \in 1 .. (n - 1)
          PROVE  k + 1 \in 1 .. n /\ t[k] = s[k + 1]
      BY <1>1
    <2> QED BY <2>1, <1>1 DEF PillLast, Clean
  <1>4. CASE s[n] # Poison
    <2>1. Clean(s)
      BY <1>4, <1>1 DEF PillLast, Clean
    <2>2. Orders(s) = s /\ Orders(t) = t /\ t \in Seq(Order)
      BY <2>1, <1>1, <1>3, OrdersClean
    <2>3. s[1] # Poison
      BY <2>1, <1>1 DEF Clean
    <2>4. Head(s) # Poison /\ Head(s) \in Order
      BY <2>3, <1>1 DEF Record
    <2>5. Orders(s) = << Head(s) >> \o Orders(t)
      BY <2>2, <1>2, Zenon
    <2>6. Orders(t) \in Seq(Order)
      BY <2>2
    <2> QED BY <2>4, <2>5, <2>6, <1>3
  <1>5. CASE s[n] = Poison /\ n = 1
    <2>1. t = << >>
      BY <1>1, <1>5
    <2>2. Orders(t) = << >>
      BY <2>1 DEF Orders
    <2>3. Orders(s) = Front(s)
      BY <1>5 DEF Orders, Last
    <2>4. Front(s) = << >>
      BY <1>5, SubSeqEmpty DEF Front
    <2> QED BY <2>2, <2>3, <2>4, <1>1, <1>3, <1>5
  <1>6. CASE s[n] = Poison /\ n # 1
    <2>1. n - 1 \in 1 .. n /\ n - 1 \in Nat
      BY <1>1, <1>6
    <2>2. s[1] # Poison /\ s[1] \in Order
      BY <1>1, <1>6 DEF PillLast, Record
    <2>3. Orders(s) = SubSeq(s, 1, n - 1)
      BY <1>6 DEF Orders, Last, Front
    <2>4. t[n - 1] = Poison /\ t # << >>
      BY <2>1, <1>1, <1>6
    <2>5. Orders(t) = SubSeq(t, 1, n - 2)
      <3>1. Len(t) - 1 = n - 2
        BY <1>1
      <3> QED BY <2>4, <3>1, <1>1 DEF Orders, Last, Front
    <2>6. SubSeq(s, 1, n - 1) = << s[1] >> \o SubSeq(s, 2, n - 1)
      <3>1. 1 \in 1 .. n /\ n - 1 \in 1 .. n
        BY <2>1, <1>1
      <3>2. SubSeq(s, 1, n - 1) = << s[1] >> \o SubSeq(s, 1 + 1, n - 1)
        BY <3>1, SubSeqRecursiveFirst
      <3> QED BY <3>2
    <2>7. SubSeq(s, 2, n - 1) = SubSeq(t, 1, n - 2) /\ SubSeq(t, 1, n - 2) \in Seq(Order)
      <3> DEFINE a == SubSeq(s, 2, n - 1)
                 b == SubSeq(t, 1, n - 2)
      <3>1. ASSUME NEW k \in 1 .. (n - 2)
            PROVE  t[k] = s[k + 1] /\ s[k + 1] \in Order
        <4>1. k \in 1 .. (n - 1) /\ k + 1 \in 1 .. n /\ k + 1 # n
          BY <1>1
        <4> QED BY <4>1, <1>1 DEF PillLast, Record
      <3>2. \A k \in 2 .. (n - 1) : s[k] \in Order
        BY <1>1 DEF PillLast, Record
      <3>3. /\ a \in Seq(Order) /\ Len(a) = n - 2
            /\ \A k \in 1 .. (n - 2) : a[k] = s[k + 1]
        <4>1. /\ a \in Seq(Order)
              /\ Len(a) = IF 2 <= n - 1 THEN (n - 1) - 2 + 1 ELSE 0
              /\ \A k \in 1 .. ((n - 1) - 2 + 1) : a[k] = s[2 + k - 1]
          BY <3>2, <1>1, SubSeqProperties
        <4> QED BY <4>1, <1>1, <1>6
      <3>4. /\ b \in Seq(Order) /\ Len(b) = n - 2
            /\ \A k \in 1 .. (n - 2) : b[k] = t[k]
        <4>1. /\ b \in Seq(Order)
              /\ Len(b) = IF 1 <= n - 2 THEN (n - 2) - 1 + 1 ELSE 0
              /\ \A k \in 1 .. ((n - 2) - 1 + 1) : b[k] = t[1 + k - 1]
          BY <3>1, <1>1, SubSeqProperties
        <4> QED BY <4>1, <1>1, <1>6
      <3> HIDE DEF a, b
      <3>5. a = b
        BY <3>1, <3>3, <3>4, SeqEqual
      <3> QED BY <3>4, <3>5 DEF a, b
    <2> QED BY <2>2, <2>3, <2>5, <2>6, <2>7, <1>1, <1>3
  <1> QED BY <1>1, <1>4, <1>5, <1>6

-----------------------------------------------------------------------------
(* The two parts make AnswersInOrder.                                      *)
LEMMA Parts == TypeOK => (AnswersInOrder <=> Pipeline /\ ResultLast)
  <1> SUFFICES ASSUME TypeOK PROVE AnswersInOrder <=> Pipeline /\ ResultLast
    OBVIOUS
  <1>1. DOMAIN outbound = 1 .. Len(outbound)
    BY DEF TypeOK
  <1> QED BY <1>1 DEF AnswersInOrder, Pipeline, ResultLast, Busy

(* A thread goes on to another point of its loop.                          *)
LEMMA SetPc ==
    ASSUME TypeOK, NEW i \in Instrument,
           NEW p \in {"none", "check", "pop", "submit", "exited"},
           thread' = [thread EXCEPT ![i].pc = p]
    PROVE  /\ thread' \in [Instrument -> Thread]
           /\ thread'[i].pc = p
           /\ thread'[i].order = thread[i].order
           /\ \A j \in Instrument \ {i} : thread'[j] = thread[j]
  <1>1. thread \in [Instrument -> Thread]
    BY DEF TypeOK, Thread
  <1>2. thread[i] \in Thread
    BY <1>1
  <1>3. /\ [thread[i] EXCEPT !.pc = p] \in Thread
        /\ [thread[i] EXCEPT !.pc = p].pc = p
        /\ [thread[i] EXCEPT !.pc = p].order = thread[i].order
    BY <1>2 DEF Thread
  <1>4. thread' = [thread EXCEPT ![i] = [thread[i] EXCEPT !.pc = p]]
    OBVIOUS
  <1> QED BY <1>1, <1>3, <1>4

LEMMA InitIInv == Init => IInv
  <1> SUFFICES ASSUME Init PROVE IInv
    OBVIOUS
  <1>1. TypeOK
    BY PoolAssumption DEF Init, TypeOK, NoThread
  <1>2. Lifecycle
    BY DEF Init, Lifecycle, Unlocked, Stopping, NoThread
  <1>3. Pills /\ Places /\ Told /\ ResultLast
    BY DEF Init, Pills, PillLast, Clean, Places, InboxPlaces, InboxUnique, ThreadPlaces, ThreadUnique, Told, ResultLast, NoThread
  <1>4. Pipeline
    BY DEF Init, Pipeline, Busy, Orders, NoThread
  <1> QED BY <1>1, <1>2, <1>3, <1>4 DEF IInv

(* A step that leaves the records alone.                                   *)
LEMMA SameRecords ==
    ASSUME IInv, UNCHANGED << inbox, where, accepted, answered >>,
           \A j \in Instrument :
               \/ thread'[j] = thread[j]
               \/ /\ thread'[j].pc = thread[j].pc
                  /\ thread'[j].order = thread[j].order
               \/ thread'[j].pc # "submit" /\ thread[j].pc # "submit"
    PROVE  Places' /\ Pipeline'
  <1>1. Places'
    BY DEF IInv, Places, InboxPlaces, InboxUnique, ThreadPlaces, ThreadUnique
  <1>2. \A j \in Instrument : Busy(j)' = Busy(j)
    BY DEF Busy
  <1>3. Pipeline'
    BY <1>2 DEF IInv, Pipeline
  <1> QED BY <1>1, <1>3

LEMMA SameOutbound ==
    ASSUME IInv, UNCHANGED outbound,
           \A o \in Order : where[o] = "answered" => where'[o] = "answered"
    PROVE  Told' /\ ResultLast'
  <1>1. \A m \in 1 .. Len(outbound) : outbound[m].order \in Order
    <2>1. \A m \in 1 .. Len(outbound) : outbound[m] \in Event
      BY DEF IInv, TypeOK
    <2> QED BY <2>1 DEF Event
  <1> QED BY <1>1 DEF IInv, Told, ResultLast

-----------------------------------------------------------------------------
(* The clients.                                                            *)

LEMMA GetOrCreateIInv ==
    ASSUME IInv, NEW i \in Instrument, GetOrCreate(i)
    PROVE  IInv'
  <1>1. TypeOK'
    <2>1. starts' \in 0 .. MaxStarts
      BY PoolAssumption DEF IInv, TypeOK, GetOrCreate
    <2>2. thread' \in [Instrument -> Thread]
      BY SetPc DEF IInv, GetOrCreate, StartWorker
    <2> QED BY <2>1, <2>2 DEF IInv, TypeOK, GetOrCreate, StartWorker, Thread
  <1>2. /\ ~ running[i] /\ thread[i] = NoThread /\ inbox[i] = << >>
        /\ Unlocked /\ i \notin workers
    BY DEF IInv, Lifecycle, GetOrCreate, Unlocked, Stopping
  <1>3. Lifecycle'
    BY <1>2 DEF IInv, TypeOK, Lifecycle, GetOrCreate, StartWorker, Unlocked, Stopping
  <1>4. Pills'
    BY <1>2 DEF IInv, TypeOK, Pills, Clean, GetOrCreate, StartWorker, Unlocked
  <1>5. Places' /\ Pipeline'
    <2>1. \A j \in Instrument : \/ thread'[j] = thread[j]
                                \/ thread'[j].pc # "submit" /\ thread[j].pc # "submit"
      BY <1>2 DEF IInv, TypeOK, GetOrCreate, StartWorker, NoThread
    <2> QED BY <2>1, SameRecords DEF GetOrCreate
  <1>6. Told' /\ ResultLast'
    BY SameOutbound DEF GetOrCreate
  <1> QED BY <1>1, <1>3, <1>4, <1>5, <1>6 DEF IInv

LEMMA SubmitIInv ==
    ASSUME IInv, NEW i \in Instrument, NEW o \in Order, Submit(i, o)
    PROVE  IInv'
  <1> DEFINE fits == i \in workers /\ Len(inbox[i]) < InboxCapacity
  <1>1. /\ Unlocked /\ where[o] = "client"
        /\ IF fits
           THEN /\ inbox' = [inbox EXCEPT ![i] = Append(inbox[i], o)]
                /\ where' = [where EXCEPT ![o] = "inbox"]
                /\ accepted' = [accepted EXCEPT ![i] = Append(accepted[i], o)]
           ELSE /\ where' \in {[where EXCEPT ![o] = "leaked"], [where EXCEPT ![o] = "refused"]}
                /\ UNCHANGED << inbox, accepted >>
        /\ UNCHANGED << workers, running, engine, thread, outbound, shutting, starts, answered >>
    BY DEF Submit, SubmitToWorker, PushInbox
  <1>2. inbox[i] \in Seq(Record) /\ accepted[i] \in Seq(Order) /\ o \in Record
    BY DEF IInv, TypeOK, Record
  <1>3. ASSUME fits
        PROVE  /\ running[i] /\ Clean(inbox[i])
               /\ Append(inbox[i], o) \in Seq(Record)
               /\ Len(Append(inbox[i], o)) = Len(inbox[i]) + 1
               /\ \A k \in 1 .. Len(inbox[i]) : Append(inbox[i], o)[k] = inbox[i][k]
               /\ Append(inbox[i], o)[Len(inbox[i]) + 1] = o
               /\ Clean(Append(inbox[i], o))
    <2>1. running[i] /\ Clean(inbox[i])
      BY <1>1, <1>3 DEF IInv, Lifecycle, Pills
    <2> QED BY <2>1, <1>2, AppendProperties, OrdersAppend
  <1>4. TypeOK'
    <2>1. CASE fits
      <3>1. inbox' \in [Instrument -> Seq(Record)]
        BY <2>1, <1>1, <1>3 DEF IInv, TypeOK, Record
      <3>2. \A j \in Instrument : Len(inbox'[j]) <= InboxCapacity
        <4>1. \A j \in Instrument : inbox'[j] = IF j = i THEN Append(inbox[i], o) ELSE inbox[j]
          BY <2>1, <1>1 DEF IInv, TypeOK
        <4>2. Len(inbox[i]) + 1 <= InboxCapacity
          BY <2>1, <1>2, PoolAssumption
        <4> QED BY <2>1, <4>1, <4>2, <1>3 DEF IInv, TypeOK
      <3>3. accepted' \in [Instrument -> Seq(Order)]
        <4>1. Append(accepted[i], o) \in Seq(Order)
          BY <1>2, AppendProperties
        <4> QED BY <2>1, <4>1, <1>1 DEF IInv, TypeOK
      <3> QED BY <2>1, <3>1, <3>2, <3>3, <1>1 DEF IInv, TypeOK, Record
    <2>2. CASE ~ fits
      BY <2>2, <1>1 DEF IInv, TypeOK
    <2> QED BY <2>1, <2>2
  <1>5. Lifecycle'
    BY <1>1 DEF IInv, TypeOK, Lifecycle, Unlocked, Stopping
  <1>6. Pills'
    <2>1. CASE fits
      <3>1. PillLast(Append(inbox[i], o))
        BY <2>1, <1>3, <1>2, OrdersClean
      <3>2. \A j \in Instrument : inbox'[j] = IF j = i THEN Append(inbox[i], o) ELSE inbox[j]
        BY <2>1, <1>1 DEF IInv, TypeOK
      <3> QED BY <2>1, <3>1, <3>2, <1>1, <1>3 DEF IInv, Pills
    <2>2. CASE ~ fits
      BY <2>2, <1>1 DEF IInv, Pills
    <2> QED BY <2>1, <2>2
  <1>7. Places'
    <2>1. CASE fits
      <3>1. /\ \A j \in Instrument \ {i} : inbox'[j] = inbox[j]
            /\ inbox'[i] = Append(inbox[i], o)
            /\ \A x \in Order : where'[x] = IF x = o THEN "inbox" ELSE where[x]
        BY <2>1, <1>1 DEF IInv, TypeOK
      <3>2. \A j \in Instrument : \A k \in 1 .. Len(inbox[j]) :
                inbox[j][k] # o /\ inbox[j][k] \in Record
        BY <1>1, PillAssumption, SMTT(20) DEF IInv, TypeOK, Places, InboxPlaces, InboxUnique, ThreadPlaces, ThreadUnique, Record
      <3>3. ASSUME NEW j \in Instrument, NEW k \in 1 .. Len(inbox'[j])
            PROVE  \/ j = i /\ k = Len(inbox[i]) + 1 /\ inbox'[j][k] = o
                   \/ k \in 1 .. Len(inbox[j]) /\ inbox'[j][k] = inbox[j][k]
        BY <2>1, <3>1, <1>2, <1>3
      <3>4. \A j \in Instrument : thread[j].pc = "submit" =>
                thread[j].order \in Order /\ thread[j].order # o
        BY <1>1 DEF IInv, Places, InboxPlaces, InboxUnique, ThreadPlaces, ThreadUnique
      <3>5. \A j \in Instrument : \A k \in 1 .. Len(inbox'[j]) :
               inbox'[j][k] # Poison => where'[inbox'[j][k]] = "inbox"
        BY <3>1, <3>2, <3>3 DEF IInv, Places, InboxPlaces, InboxUnique, ThreadPlaces, ThreadUnique, Record
      <3>6. \A j, l \in Instrument :
               \A k \in 1 .. Len(inbox'[j]), m \in 1 .. Len(inbox'[l]) :
                   inbox'[j][k] = inbox'[l][m] /\ inbox'[j][k] # Poison => j = l /\ k = m
        BY <3>2, <3>3 DEF IInv, Places, InboxPlaces, InboxUnique, ThreadPlaces, ThreadUnique
      <3> QED BY <3>1, <3>4, <3>5, <3>6, <1>1 DEF IInv, Places, InboxPlaces, InboxUnique, ThreadPlaces, ThreadUnique
    <2>2. CASE ~ fits
      <3>1. \A x \in Order : x # o => where'[x] = where[x]
        BY <2>2, <1>1 DEF IInv, TypeOK
      <3>2. /\ \A j \in Instrument : \A k \in 1 .. Len(inbox[j]) :
                   inbox[j][k] # Poison => inbox[j][k] \in Order
        BY DEF IInv, TypeOK
      <3> QED BY <2>2, <3>1, <3>2, <1>1 DEF IInv, Places, InboxPlaces, InboxUnique, ThreadPlaces, ThreadUnique
    <2> QED BY <2>1, <2>2
  <1>8. Pipeline'
    <2>1. \A j \in Instrument : Busy(j)' = Busy(j)
      BY <1>1 DEF Busy
    <2>2. CASE fits
      <3> DEFINE a == answered[i] \o Busy(i)
      <3>1. a \in Seq(Order) /\ inbox[i] \in Seq(Order)
        <4>1. Busy(i) \in Seq(Order)
          BY DEF IInv, Places, InboxPlaces, InboxUnique, ThreadPlaces, ThreadUnique, Busy
        <4>2. answered[i] \in Seq(Order)
          BY DEF IInv, TypeOK
        <4> QED BY <4>1, <4>2, <2>2, <1>2, <1>3, ConcatProperties, OrdersClean
      <3>2. accepted[i] = a \o inbox[i]
        BY <2>2, <1>2, <1>3, OrdersClean DEF IInv, Pipeline
      <3>3. Orders(Append(inbox[i], o)) = Append(inbox[i], o)
        BY <2>2, <1>3, OrdersClean
      <3> HIDE DEF a
      <3>4. Append(a \o inbox[i], o) = a \o Append(inbox[i], o)
        BY <3>1
      <3>5. accepted'[i] = a \o Orders(inbox'[i])
        BY <2>2, <3>2, <3>3, <3>4, <1>1 DEF IInv, TypeOK
      <3>6. \A j \in Instrument \ {i} : accepted'[j] = accepted[j] /\ inbox'[j] = inbox[j]
        BY <2>2, <1>1 DEF IInv, TypeOK
      <3> QED BY <2>1, <3>5, <3>6, <1>1 DEF IInv, Pipeline, a
    <2>3. CASE ~ fits
      BY <2>1, <2>3, <1>1 DEF IInv, Pipeline
    <2> QED BY <2>2, <2>3
  <1>9. Told' /\ ResultLast'
    <2>1. \A x \in Order : where[x] = "answered" => where'[x] = "answered"
      BY <1>1 DEF IInv, TypeOK
    <2> QED BY <2>1, <1>1, SameOutbound
  <1> QED BY <1>4, <1>5, <1>6, <1>7, <1>8, <1>9 DEF IInv

LEMMA DrainOutboundIInv == IInv /\ DrainOutbound => IInv'
  <1> SUFFICES ASSUME IInv, DrainOutbound PROVE IInv'
    OBVIOUS
  <1>1. /\ outbound' \in Seq(Event) /\ Len(outbound') = Len(outbound) - 1
        /\ Len(outbound) \in Nat
        /\ \A m \in 1 .. Len(outbound') : /\ outbound'[m] = outbound[m + 1]
                                          /\ m + 1 \in 1 .. Len(outbound)
    BY HeadTailProperties DEF DrainOutbound, IInv, TypeOK
  <1>2. TypeOK'
    BY <1>1, PoolAssumption DEF DrainOutbound, IInv, TypeOK
  <1>3. Lifecycle' /\ Pills' /\ Places'
    BY DEF DrainOutbound, IInv, Lifecycle, Pills, Places, InboxPlaces, InboxUnique, ThreadPlaces, ThreadUnique, Unlocked, Stopping
  <1>4. Told'
    BY <1>1 DEF DrainOutbound, IInv, Told
  <1>5. Pipeline'
    BY DEF DrainOutbound, IInv, Pipeline, Busy
  <1>6. ResultLast'
    <2> SUFFICES ASSUME NEW m \in 1 .. Len(outbound'), NEW n \in 1 .. Len(outbound'),
                        m < n, outbound'[m].order = outbound'[n].order
                 PROVE  outbound'[m].kind = "Trade"
      BY DEF ResultLast
    <2>1. m + 1 < n + 1
      BY <1>1
    <2> QED BY <2>1, <1>1 DEF IInv, ResultLast
  <1> QED BY <1>2, <1>3, <1>4, <1>5, <1>6 DEF IInv

-----------------------------------------------------------------------------
(* The worker threads.                                                     *)

LEMMA CheckRunningIInv ==
    ASSUME IInv, NEW i \in Instrument, CheckRunning(i)
    PROVE  IInv'
  <1>1. TypeOK'
    <2>1. thread' \in [Instrument -> Thread]
      BY SetPc DEF CheckRunning, IInv
    <2> QED BY <2>1 DEF CheckRunning, IInv, TypeOK, Thread
  <1>2. /\ \A j \in Instrument \ {i} : thread'[j] = thread[j]
        /\ thread[i].pc = "check"
        /\ thread'[i].pc \in {"pop", "exited"}
    BY DEF CheckRunning, IInv, TypeOK
  <1>3. Lifecycle'
    BY <1>2 DEF CheckRunning, IInv, Lifecycle, Unlocked, Stopping, NoThread
  <1>4. Pills'
    BY DEF CheckRunning, IInv, Pills
  <1>5. Places' /\ Pipeline'
    BY <1>2, SameRecords DEF CheckRunning
  <1>6. Told' /\ ResultLast'
    BY SameOutbound DEF CheckRunning
  <1> QED BY <1>1, <1>3, <1>4, <1>5, <1>6 DEF IInv

LEMMA PopNothingIInv ==
    ASSUME IInv, NEW i \in Instrument, PopNothing(i)
    PROVE  IInv'
  <1>1. TypeOK'
    <2>1. thread' \in [Instrument -> Thread]
      BY SetPc DEF PopNothing, IInv
    <2> QED BY <2>1 DEF PopNothing, IInv, TypeOK, Thread
  <1>2. /\ \A j \in Instrument \ {i} : thread'[j] = thread[j]
        /\ thread[i].pc = "pop"
        /\ thread'[i].pc = "check"
    BY DEF PopNothing, IInv, TypeOK
  <1>3. Lifecycle'
    BY <1>2 DEF PopNothing, IInv, Lifecycle, Unlocked, Stopping, NoThread
  <1>4. Pills'
    BY DEF PopNothing, IInv, Pills
  <1>5. Places' /\ Pipeline'
    BY <1>2, SameRecords DEF PopNothing
  <1>6. Told' /\ ResultLast'
    BY SameOutbound DEF PopNothing
  <1> QED BY <1>1, <1>3, <1>4, <1>5, <1>6 DEF IInv

LEMMA PopInboxIInv ==
    ASSUME IInv, NEW i \in Instrument, PopInbox(i)
    PROVE  IInv'
  <1> DEFINE x == Head(inbox[i])
  <1>1. /\ thread[i].pc = "pop" /\ inbox[i] # << >>
        /\ inbox' = [inbox EXCEPT ![i] = Tail(inbox[i])]
        /\ UNCHANGED << workers, running, engine, outbound, shutting, starts, accepted, answered >>
    BY DEF PopInbox
  <1>2. /\ x = Poison => /\ thread' = [thread EXCEPT ![i].pc = "exited"]
                         /\ where' = where
        /\ x # Poison => /\ thread' = [thread EXCEPT ![i] = [pc |-> "submit", order |-> x, trades |-> 0]]
                         /\ where' = [where EXCEPT ![x] = "engine"]
    BY DEF PopInbox
  <1>3. inbox[i] \in Seq(Record) /\ PillLast(inbox[i])
    BY DEF IInv, TypeOK, Pills, Record
  <1>4. /\ PillLast(Tail(inbox[i]))
        /\ Clean(inbox[i]) => Clean(Tail(inbox[i]))
        /\ Orders(Tail(inbox[i])) \in Seq(Order)
        /\ x = Poison => Orders(inbox[i]) = << >> /\ Orders(Tail(inbox[i])) = << >>
        /\ x # Poison => /\ x \in Order
                         /\ Orders(inbox[i]) = << x >> \o Orders(Tail(inbox[i]))
    BY <1>1, <1>3, OrdersTail
  <1>5. /\ Tail(inbox[i]) \in Seq(Record) /\ Len(Tail(inbox[i])) = Len(inbox[i]) - 1
        /\ Len(inbox[i]) \in Nat \ {0} /\ x = inbox[i][1]
        /\ \A k \in 1 .. (Len(inbox[i]) - 1) : Tail(inbox[i])[k] = inbox[i][k + 1]
    BY <1>1, <1>3, HeadTailProperties, EmptySeq
  <1>6. /\ \A j \in Instrument \ {i} : inbox'[j] = inbox[j] /\ thread'[j] = thread[j]
        /\ inbox'[i] = Tail(inbox[i])
    BY <1>1, <1>2 DEF IInv, TypeOK
  <1>7. /\ x = Poison => thread'[i].pc = "exited"
        /\ x # Poison => thread'[i].pc = "submit" /\ thread'[i].order = x
    BY <1>2 DEF IInv, TypeOK
  <1>8. TypeOK'
    <2>1. thread' \in [Instrument -> Thread]
      <3>1. CASE x = Poison
        BY <3>1, <1>2, SetPc DEF IInv
      <3>2. CASE x # Poison
        <4>1. [pc |-> "submit", order |-> x, trades |-> 0] \in Thread
          BY <3>2, <1>4, PoolAssumption DEF Thread
        <4> QED BY <3>2, <4>1, <1>2 DEF IInv, TypeOK, Thread
      <3> QED BY <3>1, <3>2
    <2>2. inbox' \in [Instrument -> Seq(Record)]
      BY <1>1, <1>5 DEF IInv, TypeOK, Record
    <2>3. \A j \in Instrument : Len(inbox'[j]) <= InboxCapacity
      <3>1. Len(inbox[i]) <= InboxCapacity
        BY DEF IInv, TypeOK
      <3>2. Len(inbox'[i]) <= InboxCapacity
        BY <3>1, <1>5, <1>6, PoolAssumption
      <3> QED BY <3>2, <1>6 DEF IInv, TypeOK
    <2>4. where' \in [Order -> {"client", "refused", "inbox", "engine", "answered", "leaked"}]
      BY <1>2, <1>4 DEF IInv, TypeOK
    <2> QED BY <2>1, <2>2, <2>3, <2>4, <1>1 DEF IInv, TypeOK, Thread, Record
  <1> HIDE DEF x
  <1>8a. x # Poison => where[x] = "inbox"
    <2>1. 1 \in 1 .. Len(inbox[i])
      BY <1>5
    <2> QED BY <2>1, <1>5 DEF IInv, Places, InboxPlaces
  <1>9. Lifecycle'
    <2>1. i \in workers /\ engine[i] /\ thread[i] # NoThread
      BY <1>1 DEF IInv, Lifecycle, NoThread
    <2> QED BY <2>1, <1>1, <1>6, <1>7 DEF IInv, Lifecycle, Unlocked, Stopping
  <1>10. Pills'
    BY <1>1, <1>4, <1>6 DEF IInv, Pills
  <1>11. Places'
    <2>1. ASSUME NEW j \in Instrument, NEW k \in 1 .. Len(inbox'[j])
          PROVE  \/ j # i /\ k \in 1 .. Len(inbox[j]) /\ inbox'[j][k] = inbox[j][k]
                 \/ j = i /\ k + 1 \in 1 .. Len(inbox[i]) /\ inbox'[i][k] = inbox[i][k + 1]
      <3>1. CASE j # i
        BY <3>1, <1>6
      <3>2. CASE j = i
        <4>1. k \in 1 .. (Len(inbox[i]) - 1)
          BY <3>2, <1>5, <1>6
        <4> QED BY <3>2, <4>1, <1>5, <1>6
      <3> QED BY <3>1, <3>2
    <2>2. \A y \in Order : y # x => where'[y] = where[y]
      BY <1>2, <1>4 DEF IInv, TypeOK
    <2>3. \A j \in Instrument : \A k \in 1 .. Len(inbox[j]) : inbox[j][k] \in Record
      BY DEF IInv, TypeOK, Record
    <2>4. \A j \in Instrument : \A k \in 1 .. Len(inbox[j]) :
              x # Poison /\ inbox[j][k] = x => j = i /\ k = 1
      BY <1>5 DEF IInv, Places, InboxPlaces, InboxUnique, ThreadPlaces, ThreadUnique
    <2>5. \A j \in Instrument : \A k \in 1 .. Len(inbox'[j]) :
              inbox'[j][k] # Poison => /\ where'[inbox'[j][k]] = "inbox"
                                       /\ inbox'[j][k] # x
      <3> SUFFICES ASSUME NEW j \in Instrument, NEW k \in 1 .. Len(inbox'[j]),
                          inbox'[j][k] # Poison
                   PROVE  where'[inbox'[j][k]] = "inbox" /\ inbox'[j][k] # x
        OBVIOUS
      <3>1. PICK l \in 1 .. Len(inbox[j]) : inbox'[j][k] = inbox[j][l] /\ (j = i => l = k + 1)
        BY <2>1
      <3>2. inbox[j][l] \in Order /\ where[inbox[j][l]] = "inbox"
        BY <3>1, <2>3 DEF IInv, Places, InboxPlaces, InboxUnique, ThreadPlaces, ThreadUnique, Record
      <3>3. inbox[j][l] # x
        <4>1. j = i => l # 1
          BY <3>1, <1>5, <1>6
        <4> QED BY <3>1, <4>1, <2>4
      <3> QED BY <3>1, <3>2, <3>3, <2>2
    <2>6. \A j, l \in Instrument :
              \A k \in 1 .. Len(inbox'[j]), m \in 1 .. Len(inbox'[l]) :
                  inbox'[j][k] = inbox'[l][m] /\ inbox'[j][k] # Poison => j = l /\ k = m
      <3> SUFFICES ASSUME NEW j \in Instrument, NEW l \in Instrument,
                          NEW k \in 1 .. Len(inbox'[j]), NEW m \in 1 .. Len(inbox'[l]),
                          inbox'[j][k] = inbox'[l][m], inbox'[j][k] # Poison
                   PROVE  j = l /\ k = m
        OBVIOUS
      <3>1. PICK k1 \in 1 .. Len(inbox[j]) :
                inbox'[j][k] = inbox[j][k1] /\ k1 = IF j = i THEN k + 1 ELSE k
        BY <2>1
      <3>2. PICK m1 \in 1 .. Len(inbox[l]) :
                inbox'[l][m] = inbox[l][m1] /\ m1 = IF l = i THEN m + 1 ELSE m
        BY <2>1
      <3>3. j = l /\ k1 = m1
        <4>1. inbox[j][k1] = inbox[l][m1] /\ inbox[j][k1] # Poison
          BY <3>1, <3>2
        <4> QED BY <4>1 DEF IInv, Places, InboxUnique
      <3>4. k \in Int /\ m \in Int
        BY <1>5, <1>6
      <3> QED BY <3>1, <3>2, <3>3, <3>4
    <2>7. x # Poison => where[x] = "inbox" /\ where'[x] = "engine"
      BY <1>2, <1>4, <1>8a DEF IInv, TypeOK
    <2>8. \A j \in Instrument \ {i} : thread[j].pc = "submit" =>
              thread[j].order \in Order /\ (x # Poison => thread[j].order # x)
              /\ where'[thread[j].order] = "engine"
      BY <2>2, <2>7, <1>2 DEF IInv, Places, InboxPlaces, InboxUnique, ThreadPlaces, ThreadUnique
    <2>9. \A j \in Instrument : thread'[j].pc = "submit" =>
              thread'[j].order \in Order /\ where'[thread'[j].order] = "engine"
      BY <2>7, <2>8, <1>4, <1>6, <1>7
    <2>10. \A j, l \in Instrument :
               thread'[j].pc = "submit" /\ thread'[l].pc = "submit"
               /\ thread'[j].order = thread'[l].order => j = l
      BY <2>8, <1>6, <1>7 DEF IInv, Places, InboxPlaces, InboxUnique, ThreadPlaces, ThreadUnique
    <2> QED BY <2>5, <2>6, <2>9, <2>10 DEF Places, InboxPlaces, InboxUnique, ThreadPlaces, ThreadUnique
  <1>12. Pipeline'
    <2>1. \A j \in Instrument \ {i} : Busy(j)' = Busy(j)
      BY <1>6 DEF Busy
    <2>2. answered[i] \in Seq(Order)
      BY DEF IInv, TypeOK
    <2>3. accepted[i] = answered[i] \o << >> \o Orders(inbox[i])
      BY <1>1 DEF IInv, Pipeline, Busy
    <2>4. accepted'[i] = answered'[i] \o Busy(i)' \o Orders(inbox'[i])
      <3>1. CASE x = Poison
        <4>1. Busy(i)' = << >>
          BY <3>1, <1>7 DEF Busy
        <4> QED BY <3>1, <4>1, <2>3, <1>1, <1>4, <1>6
      <3>2. CASE x # Poison
        <4>1. Busy(i)' = << x >>
          BY <3>2, <1>7 DEF Busy
        <4>2. << x >> \in Seq(Order)
          BY <3>2, <1>4
        <4>3. answered[i] \o << >> = answered[i]
          BY <2>2, ConcatEmptySeq
        <4>4. answered[i] \o (<< x >> \o Orders(Tail(inbox[i])))
                  = (answered[i] \o << x >>) \o Orders(Tail(inbox[i]))
          <5> DEFINE a == answered[i]
                     b == Orders(Tail(inbox[i]))
          <5>1. a \in Seq(Order) /\ x \in Order /\ b \in Seq(Order)
            BY <3>2, <2>2, <1>4
          <5> HIDE DEF a, b
          <5>2. a \o (<< x >> \o b) = (a \o << x >>) \o b
            BY <5>1, MoveOne
          <5> QED BY <5>2 DEF a, b
        <4>5. accepted[i] = (answered[i] \o << x >>) \o Orders(Tail(inbox[i]))
          BY <3>2, <2>3, <4>3, <4>4, <1>4
        <4> QED BY <4>1, <4>5, <1>1, <1>6
      <3> QED BY <3>1, <3>2
    <2>5. \A j \in Instrument \ {i} :
              accepted'[j] = answered'[j] \o Busy(j)' \o Orders(inbox'[j])
      BY <2>1, <1>1, <1>6 DEF IInv, Pipeline
    <2> QED BY <2>4, <2>5 DEF Pipeline
  <1>13. Told' /\ ResultLast'
    <2>1. \A y \in Order : where[y] = "answered" => where'[y] = "answered"
      BY <1>2, <1>4, <1>8a DEF IInv, TypeOK
    <2> QED BY <2>1, <1>1, SameOutbound
  <1> QED BY <1>8, <1>9, <1>10, <1>11, <1>12, <1>13 DEF IInv

(* An event about an order that has no result in the queue yet.            *)
LEMMA PushOutboundFacts ==
    ASSUME IInv, NEW e \in Event, PushOutbound(e), where[e.order] = "engine"
    PROVE  /\ outbound' \in Seq(Event)
           /\ Len(outbound') <= OutboundCapacity
           /\ ResultLast'
           /\ \A m \in 1 .. Len(outbound') :
                  \/ outbound'[m] = e
                  \/ m \in 1 .. Len(outbound) /\ outbound'[m] = outbound[m]
  <1>1. outbound \in Seq(Event) /\ Len(outbound) \in Nat /\ Len(outbound) <= OutboundCapacity
    BY DEF IInv, TypeOK
  <1>2. CASE ~ (Len(outbound) < OutboundCapacity)
    BY <1>1, <1>2 DEF PushOutbound, IInv, ResultLast
  <1>3. CASE Len(outbound) < OutboundCapacity
    <2>1. outbound' = Append(outbound, e)
      BY <1>3 DEF PushOutbound
    <2>2. /\ outbound' \in Seq(Event) /\ Len(outbound') = Len(outbound) + 1
          /\ outbound'[Len(outbound) + 1] = e
          /\ \A m \in 1 .. Len(outbound) : outbound'[m] = outbound[m]
      BY <2>1, <1>1, AppendProperties
    <2>3. \A m \in 1 .. Len(outbound') :
              \/ outbound'[m] = e
              \/ m \in 1 .. Len(outbound) /\ outbound'[m] = outbound[m]
      BY <2>2, <1>1
    <2>4. \A m \in 1 .. Len(outbound) : outbound[m].order = e.order => outbound[m].kind = "Trade"
      <3>1. \A m \in 1 .. Len(outbound) : outbound[m] \in Event
        BY <1>1
      <3> QED BY <3>1 DEF IInv, Told, Event
    <2>5. ResultLast'
      <3> SUFFICES ASSUME NEW m \in 1 .. Len(outbound'), NEW n \in 1 .. Len(outbound'),
                          m < n, outbound'[m].order = outbound'[n].order
                   PROVE  outbound'[m].kind = "Trade"
        BY DEF ResultLast
      <3>1. m \in 1 .. Len(outbound) /\ outbound'[m] = outbound[m]
        BY <2>2, <1>1
      <3>2. CASE n \in 1 .. Len(outbound)
        BY <3>1, <3>2, <2>2 DEF IInv, ResultLast
      <3>3. CASE n = Len(outbound) + 1
        BY <3>1, <3>3, <2>2, <2>4
      <3> QED BY <3>2, <3>3, <2>2, <1>1
    <2>6. Len(outbound') <= OutboundCapacity
      BY <1>1, <1>3, <2>2, PoolAssumption
    <2> QED BY <2>2, <2>3, <2>5, <2>6
  <1> QED BY <1>2, <1>3

LEMMA OnTradeIInv ==
    ASSUME IInv, NEW i \in Instrument, OnTrade(i)
    PROVE  IInv'
  <1> DEFINE e == [kind |-> "Trade", order |-> thread[i].order, instrument |-> i]
  <1>1. /\ thread[i].pc = "submit" /\ thread[i].trades < MaxTrades
        /\ thread' = [thread EXCEPT ![i].trades = thread[i].trades + 1]
        /\ PushOutbound(e)
        /\ UNCHANGED << workers, running, engine, inbox, shutting, starts,
                        where, accepted, answered >>
    BY DEF OnTrade
  <1>2. thread[i].order \in Order /\ where[thread[i].order] = "engine"
    BY <1>1 DEF IInv, Places, ThreadPlaces
  <1>3. e \in Event /\ e.order = thread[i].order /\ e.kind = "Trade"
    BY <1>2 DEF Event
  <1> HIDE DEF e
  <1>4. /\ outbound' \in Seq(Event)
        /\ Len(outbound') <= OutboundCapacity
        /\ ResultLast'
        /\ \A m \in 1 .. Len(outbound') :
               \/ outbound'[m] = e
               \/ m \in 1 .. Len(outbound) /\ outbound'[m] = outbound[m]
    BY <1>1, <1>2, <1>3, PushOutboundFacts
  <1>5. /\ thread' \in [Instrument -> Thread]
        /\ \A j \in Instrument : /\ thread'[j].pc = thread[j].pc
                                 /\ thread'[j].order = thread[j].order
        /\ \A j \in Instrument \ {i} : thread'[j] = thread[j]
    <2>1. thread \in [Instrument -> Thread] /\ thread[i] \in Thread
      BY DEF IInv, TypeOK, Thread
    <2> DEFINE t == [thread[i] EXCEPT !.trades = thread[i].trades + 1]
    <2>2. thread[i].trades + 1 \in 0 .. MaxTrades
      BY <2>1, <1>1, PoolAssumption DEF Thread
    <2>3. t \in Thread /\ t.pc = thread[i].pc /\ t.order = thread[i].order
      BY <2>1, <2>2 DEF Thread
    <2>4. thread' = [thread EXCEPT ![i] = t]
      BY <1>1
    <2> HIDE DEF t
    <2> QED BY <2>1, <2>3, <2>4
  <1>6. TypeOK'
    BY <1>1, <1>4, <1>5 DEF IInv, TypeOK, Thread
  <1>7. Lifecycle'
    <2>1. thread[i] # NoThread
      BY <1>1 DEF NoThread
    <2> QED BY <2>1, <1>1, <1>5 DEF IInv, Lifecycle, Unlocked, Stopping
  <1>8. Pills'
    BY <1>1 DEF IInv, Pills
  <1>9. Places' /\ Pipeline'
    BY <1>1, <1>5, SameRecords
  <1>10. Told'
    BY <1>1, <1>3, <1>4 DEF IInv, Told
  <1> QED BY <1>4, <1>6, <1>7, <1>8, <1>9, <1>10 DEF IInv

LEMMA OnSubmitResultIInv ==
    ASSUME IInv, NEW i \in Instrument, OnSubmitResult(i)
    PROVE  IInv'
  <1> DEFINE o == thread[i].order
             e == [kind |-> "Submit", order |-> o, instrument |-> i]
             t == [pc |-> "check", order |-> NoOrder, trades |-> 0]
  <1>1. /\ thread[i].pc = "submit"
        /\ thread' = [thread EXCEPT ![i] = t]
        /\ where' = [where EXCEPT ![o] = "answered"]
        /\ answered' = [answered EXCEPT ![i] = Append(answered[i], o)]
        /\ PushOutbound(e)
        /\ UNCHANGED << workers, running, engine, inbox, shutting, starts, accepted >>
    BY DEF OnSubmitResult
  <1>2. o \in Order /\ where[o] = "engine"
    BY <1>1 DEF IInv, Places, ThreadPlaces
  <1>3. e \in Event /\ e.order = o
    BY <1>2 DEF Event
  <1>4. t \in Thread /\ t.pc = "check"
    BY PoolAssumption DEF Thread
  <1> HIDE DEF e, t
  <1>5. /\ outbound' \in Seq(Event)
        /\ Len(outbound') <= OutboundCapacity
        /\ ResultLast'
        /\ \A m \in 1 .. Len(outbound') :
               \/ outbound'[m] = e
               \/ m \in 1 .. Len(outbound) /\ outbound'[m] = outbound[m]
    BY <1>1, <1>2, <1>3, PushOutboundFacts
  <1>6. /\ thread' \in [Instrument -> Thread]
        /\ thread'[i].pc = "check"
        /\ \A j \in Instrument \ {i} : thread'[j] = thread[j]
        /\ \A x \in Order : where'[x] = IF x = o THEN "answered" ELSE where[x]
        /\ answered'[i] = Append(answered[i], o)
        /\ \A j \in Instrument \ {i} : answered'[j] = answered[j]
    BY <1>1, <1>2, <1>4 DEF IInv, TypeOK, Thread
  <1>7. answered[i] \in Seq(Order)
    BY DEF IInv, TypeOK
  <1>8. TypeOK'
    <2>1. answered' \in [Instrument -> Seq(Order)]
      <3>1. Append(answered[i], o) \in Seq(Order)
        BY <1>2, <1>7, AppendProperties
      <3> QED BY <3>1, <1>1 DEF IInv, TypeOK
    <2>2. where' \in [Order -> {"client", "refused", "inbox", "engine", "answered", "leaked"}]
      BY <1>1 DEF IInv, TypeOK
    <2> QED BY <2>1, <2>2, <1>1, <1>5, <1>6 DEF IInv, TypeOK, Thread
  <1>9. Lifecycle'
    <2>1. thread[i] # NoThread /\ engine[i]
      BY <1>1 DEF IInv, Lifecycle, NoThread
    <2>2. i \in workers
      BY <2>1, <1>1 DEF IInv, Lifecycle, Stopping
    <2> QED BY <2>1, <2>2, <1>1, <1>6 DEF IInv, Lifecycle, Unlocked, Stopping
  <1>10. Pills'
    BY <1>1 DEF IInv, Pills
  <1>11. Places'
    <2>1. InboxPlaces'
      <3>1. \A j \in Instrument : \A k \in 1 .. Len(inbox[j]) :
                inbox[j][k] # Poison => inbox[j][k] \in Order /\ inbox[j][k] # o
        BY <1>2 DEF IInv, TypeOK, Places, InboxPlaces
      <3> QED BY <3>1, <1>1, <1>6 DEF IInv, Places, InboxPlaces
    <2>2. InboxUnique'
      BY <1>1 DEF IInv, Places, InboxUnique
    <2>3. \A j \in Instrument \ {i} : thread[j].pc = "submit" => thread[j].order # o
      BY <1>1 DEF IInv, Places, ThreadUnique
    <2>4. ThreadPlaces'
      BY <2>3, <1>6 DEF IInv, Places, ThreadPlaces
    <2>5. ThreadUnique'
      BY <1>6 DEF IInv, Places, ThreadUnique
    <2> QED BY <2>1, <2>2, <2>4, <2>5 DEF Places
  <1>12. Pipeline'
    <2>1. \A j \in Instrument \ {i} : Busy(j)' = Busy(j)
      BY <1>6 DEF Busy
    <2>2. Busy(i)' = << >> /\ Busy(i) = << o >>
      BY <1>1, <1>6 DEF Busy
    <2>3. answered'[i] \o Busy(i)' = answered[i] \o Busy(i)
      <3> DEFINE a == answered[i]
      <3>1. a \in Seq(Order)
        BY <1>7
      <3> HIDE DEF a, o
      <3>2. Append(a, o) = a \o << o >> /\ Append(a, o) \in Seq(Order)
        BY <1>2, <3>1, AppendIsConcat, AppendProperties
      <3>3. Append(a, o) \o << >> = Append(a, o)
        BY <3>2, ConcatEmptySeq
      <3>4. answered'[i] = Append(a, o)
        BY <1>6 DEF a
      <3> QED BY <2>2, <3>2, <3>3, <3>4 DEF a
    <2>4. accepted'[i] = answered'[i] \o Busy(i)' \o Orders(inbox'[i])
      <3>1. accepted[i] = answered[i] \o Busy(i) \o Orders(inbox[i])
        BY DEF IInv, Pipeline
      <3> QED BY <2>3, <3>1, <1>1
    <2>5. \A j \in Instrument \ {i} :
              accepted'[j] = answered'[j] \o Busy(j)' \o Orders(inbox'[j])
      BY <2>1, <1>1, <1>6 DEF IInv, Pipeline
    <2> QED BY <2>4, <2>5 DEF Pipeline
  <1>13. Told'
    <2>1. \A m \in 1 .. Len(outbound) : outbound[m].order \in Order
      <3>1. \A m \in 1 .. Len(outbound) : outbound[m] \in Event
        BY DEF IInv, TypeOK
      <3> QED BY <3>1 DEF Event
    <2> QED BY <2>1, <1>2, <1>3, <1>5, <1>6 DEF IInv, Told
  <1> QED BY <1>5, <1>8, <1>9, <1>10, <1>11, <1>12, <1>13 DEF IInv

-----------------------------------------------------------------------------
(* shutdown.                                                               *)

LEMMA ShutdownBeginIInv == IInv /\ ShutdownBegin => IInv'
  <1> SUFFICES ASSUME IInv, ShutdownBegin PROVE IInv'
    OBVIOUS
  <1>1. /\ shutting.pc = "idle" /\ shutting' = [shutting EXCEPT !.pc = "next"]
        /\ shutting'.pc = "next"
        /\ UNCHANGED << workers, running, engine, inbox, thread, outbound, starts,
                        where, accepted, answered >>
    BY DEF ShutdownBegin, Unlocked, IInv, TypeOK
  <1>2. TypeOK'
    BY <1>1 DEF IInv, TypeOK
  <1>3. Lifecycle'
    BY <1>1 DEF IInv, Lifecycle, Unlocked, Stopping
  <1>4. Pills'
    BY <1>1 DEF IInv, Pills
  <1>5. Places' /\ Pipeline'
    BY <1>1, SameRecords
  <1>6. Told' /\ ResultLast'
    BY <1>1, SameOutbound
  <1> QED BY <1>2, <1>3, <1>4, <1>5, <1>6 DEF IInv

LEMMA StopWorkerIInv ==
    ASSUME IInv, NEW i \in Instrument, StopWorker(i)
    PROVE  IInv'
  <1>1. /\ shutting.pc = "next" /\ i \in workers /\ running[i]
        /\ running' = [running EXCEPT ![i] = FALSE]
        /\ shutting' = [pc |-> "poison", worker |-> i]
        /\ shutting'.pc = "poison" /\ shutting'.worker = i
        /\ UNCHANGED << workers, engine, inbox, thread, outbound, starts,
                        where, accepted, answered >>
    BY DEF StopWorker
  <1>2. TypeOK'
    BY <1>1 DEF IInv, TypeOK
  <1>3. \A j \in Instrument : running'[j] = (j # i /\ running[j])
    BY <1>1 DEF IInv, TypeOK
  <1>4. Lifecycle'
    BY <1>1, <1>3 DEF IInv, Lifecycle, Unlocked, Stopping
  <1>5. Pills'
    BY <1>1, <1>3 DEF IInv, Pills
  <1>6. Places' /\ Pipeline'
    BY <1>1, SameRecords
  <1>7. Told' /\ ResultLast'
    BY <1>1, SameOutbound
  <1> QED BY <1>2, <1>4, <1>5, <1>6, <1>7 DEF IInv

LEMMA PushPoisonIInv == IInv /\ PushPoison => IInv'
  <1> SUFFICES ASSUME IInv, PushPoison PROVE IInv'
    OBVIOUS
  <1> DEFINE w == shutting.worker
             fits == Len(inbox[w]) < InboxCapacity
  <1>1. /\ shutting.pc = "poison"
        /\ inbox' = IF fits THEN [inbox EXCEPT ![w] = Append(inbox[w], Poison)] ELSE inbox
        /\ shutting' = [shutting EXCEPT !.pc = "join"]
        /\ shutting'.pc = "join" /\ shutting'.worker = w
        /\ UNCHANGED << workers, running, engine, thread, outbound, starts,
                        where, accepted, answered >>
    BY DEF PushPoison, PushInbox, IInv, TypeOK
  <1>2. /\ w \in workers /\ w \in Instrument /\ ~ running[w]
        /\ inbox[w] \in Seq(Record) /\ Clean(inbox[w]) /\ PillLast(inbox[w])
    BY <1>1 DEF IInv, TypeOK, Lifecycle, Pills, Record
  <1> HIDE DEF w
  <1>3. /\ Append(inbox[w], Poison) \in Seq(Record)
        /\ Len(Append(inbox[w], Poison)) = Len(inbox[w]) + 1
        /\ \A k \in 1 .. Len(inbox[w]) : Append(inbox[w], Poison)[k] = inbox[w][k]
        /\ Append(inbox[w], Poison)[Len(inbox[w]) + 1] = Poison
        /\ PillLast(Append(inbox[w], Poison))
        /\ Orders(Append(inbox[w], Poison)) = Orders(inbox[w])
    BY <1>2, AppendProperties, OrdersPill DEF Record
  <1>4. /\ \A j \in Instrument \ {w} : inbox'[j] = inbox[j]
        /\ inbox'[w] = IF fits THEN Append(inbox[w], Poison) ELSE inbox[w]
    BY <1>1, <1>2 DEF IInv, TypeOK
  <1>5. TypeOK'
    <2>1. inbox' \in [Instrument -> Seq(Record)]
      BY <1>1, <1>2, <1>3 DEF IInv, TypeOK, Record
    <2>2. Len(inbox'[w]) <= InboxCapacity
      <3>1. Len(inbox[w]) \in Nat /\ Len(inbox[w]) <= InboxCapacity
        BY <1>2 DEF IInv, TypeOK
      <3> QED BY <3>1, <1>3, <1>4, PoolAssumption
    <2>3. \A j \in Instrument : Len(inbox'[j]) <= InboxCapacity
      BY <2>2, <1>4 DEF IInv, TypeOK
    <2>4. shutting' \in [pc : {"idle", "next", "poison", "join"},
                         worker : Instrument \cup {NoOrder}]
      BY <1>1 DEF IInv, TypeOK
    <2> QED BY <2>1, <2>3, <2>4, <1>1 DEF IInv, TypeOK, Record
  <1>6. Lifecycle'
    BY <1>1, <1>2, <1>4 DEF IInv, Lifecycle, Unlocked, Stopping, w
  <1>7. Pills'
    <2>1. PillLast(inbox'[w])
      BY <1>2, <1>3, <1>4
    <2> QED BY <2>1, <1>1, <1>2, <1>4 DEF IInv, Pills
  <1>8. Places'
    <2>1. ASSUME NEW j \in Instrument, NEW k \in 1 .. Len(inbox'[j]), inbox'[j][k] # Poison
          PROVE  k \in 1 .. Len(inbox[j]) /\ inbox'[j][k] = inbox[j][k]
      <3>1. CASE j # w \/ ~ fits
        BY <3>1, <1>4
      <3>2. CASE j = w /\ fits
        BY <2>1, <3>2, <1>2, <1>3, <1>4
      <3> QED BY <3>1, <3>2
    <2>2. InboxPlaces'
      BY <2>1, <1>1 DEF IInv, Places, InboxPlaces
    <2>3. InboxUnique'
      BY <2>1 DEF IInv, Places, InboxUnique
    <2> QED BY <2>2, <2>3, <1>1 DEF IInv, Places, ThreadPlaces, ThreadUnique
  <1>9. Pipeline'
    <2>1. \A j \in Instrument : Orders(inbox'[j]) = Orders(inbox[j])
      BY <1>3, <1>4
    <2>2. \A j \in Instrument : Busy(j)' = Busy(j)
      BY <1>1 DEF Busy
    <2> QED BY <2>1, <2>2, <1>1 DEF IInv, Pipeline
  <1>10. Told' /\ ResultLast'
    BY <1>1, SameOutbound
  <1> QED BY <1>5, <1>6, <1>7, <1>8, <1>9, <1>10 DEF IInv

LEMMA JoinAndDeleteIInv == IInv /\ JoinAndDelete => IInv'
  <1> SUFFICES ASSUME IInv, JoinAndDelete PROVE IInv'
    OBVIOUS
  <1> DEFINE w == shutting.worker
  <1>1. /\ shutting.pc = "join" /\ thread[w].pc = "exited"
        /\ thread' = [thread EXCEPT ![w] = NoThread]
        /\ engine' = [engine EXCEPT ![w] = FALSE]
        /\ shutting' = [pc |-> "next", worker |-> NoOrder] /\ shutting'.pc = "next"
        /\ UNCHANGED << workers, running, inbox, outbound, starts, where, accepted, answered >>
    BY DEF JoinAndDelete
  <1>2. w \in workers /\ w \in Instrument /\ ~ running[w]
    BY <1>1 DEF IInv, TypeOK, Lifecycle
  <1>3. NoThread \in Thread /\ NoThread.pc = "none"
    BY PoolAssumption DEF NoThread, Thread
  <1>4. /\ \A j \in Instrument \ {w} : thread'[j] = thread[j] /\ engine'[j] = engine[j]
        /\ thread'[w] = NoThread
        /\ thread' \in [Instrument -> Thread]
        /\ engine' \in [Instrument -> BOOLEAN]
    BY <1>1, <1>2, <1>3 DEF IInv, TypeOK, Thread
  <1>5. TypeOK'
    BY <1>1, <1>4 DEF IInv, TypeOK, Thread
  <1>6. Lifecycle'
    BY <1>1, <1>2, <1>3, <1>4 DEF IInv, Lifecycle, Unlocked, Stopping
  <1>7. Pills'
    BY <1>1 DEF IInv, Pills
  <1>8. Places' /\ Pipeline'
    <2>1. \A j \in Instrument : \/ thread'[j] = thread[j]
                                \/ thread'[j].pc # "submit" /\ thread[j].pc # "submit"
      BY <1>1, <1>3, <1>4
    <2> QED BY <2>1, <1>1, SameRecords
  <1>9. Told' /\ ResultLast'
    BY <1>1, SameOutbound
  <1> QED BY <1>5, <1>6, <1>7, <1>8, <1>9 DEF IInv

LEMMA ShutdownEndIInv == IInv /\ ShutdownEnd => IInv'
  <1> SUFFICES ASSUME IInv, ShutdownEnd PROVE IInv'
    OBVIOUS
  <1>1. /\ shutting.pc = "next" /\ shutting'.pc = "idle" /\ workers' = {}
        /\ \A i \in workers : ~ running[i]
        /\ inbox' = [i \in Instrument |-> << >>]
        /\ accepted' = [i \in Instrument |-> << >>]
        /\ answered' = [i \in Instrument |-> << >>]
        /\ UNCHANGED << running, engine, thread, outbound, starts >>
    BY DEF ShutdownEnd, IInv, TypeOK
  <1>2. \A o \in Order : where'[o] = IF where[o] = "inbox" THEN "leaked" ELSE where[o]
    BY DEF ShutdownEnd
  <1>3. \A i \in Instrument : ~ running[i] /\ thread[i] = NoThread
    BY <1>1 DEF IInv, Lifecycle, Stopping
  <1>4. NoThread.pc = "none"
    BY DEF NoThread
  <1>5. TypeOK'
    <2>1. where' \in [Order -> {"client", "refused", "inbox", "engine", "answered", "leaked"}]
      BY DEF ShutdownEnd, IInv, TypeOK
    <2>2. shutting' \in [pc : {"idle", "next", "poison", "join"},
                         worker : Instrument \cup {NoOrder}]
      BY DEF ShutdownEnd, IInv, TypeOK
    <2>3. /\ inbox' \in [Instrument -> Seq(Order \cup {Poison})]
          /\ accepted' \in [Instrument -> Seq(Order)]
          /\ answered' \in [Instrument -> Seq(Order)]
          /\ \A i \in Instrument : Len(inbox'[i]) <= InboxCapacity
      BY <1>1, PoolAssumption
    <2> QED BY <2>1, <2>2, <2>3, <1>1 DEF IInv, TypeOK
  <1>6. Lifecycle'
    BY <1>1, <1>3, <1>4 DEF Lifecycle, Unlocked, Stopping
  <1>7. Pills'
    BY <1>1 DEF Pills, PillLast, Clean
  <1>8. Places'
    BY <1>1, <1>3, <1>4 DEF Places, InboxPlaces, InboxUnique, ThreadPlaces, ThreadUnique
  <1>9. Pipeline'
    <2>1. \A i \in Instrument : Busy(i)' = << >>
      BY <1>1, <1>3, <1>4 DEF Busy
    <2> QED BY <2>1, <1>1 DEF Pipeline, Orders
  <1>10. Told' /\ ResultLast'
    BY <1>1, <1>2, SameOutbound
  <1> QED BY <1>5, <1>6, <1>7, <1>8, <1>9, <1>10 DEF IInv

-----------------------------------------------------------------------------
LEMMA NextIInv == IInv /\ [Next]_vars => IInv'
  <1> SUFFICES ASSUME IInv, [Next]_vars PROVE IInv'
    OBVIOUS
  <1>1. CASE \E i \in Instrument : GetOrCreate(i)
    BY <1>1, GetOrCreateIInv
  <1>2. CASE \E i \in Instrument, o \in Order : Submit(i, o)
    BY <1>2, SubmitIInv
  <1>3. CASE DrainOutbound
    BY <1>3, DrainOutboundIInv
  <1>4. CASE \E i \in Instrument : WorkerStep(i)
    BY <1>4, CheckRunningIInv, PopNothingIInv, PopInboxIInv, OnTradeIInv, OnSubmitResultIInv
       DEF WorkerStep
  <1>5. CASE ShutdownBegin
    BY <1>5, ShutdownBeginIInv
  <1>6. CASE ShutdownStep
    BY <1>6, StopWorkerIInv, PushPoisonIInv, JoinAndDeleteIInv, ShutdownEndIInv
       DEF ShutdownStep
  <1>7. CASE UNCHANGED vars
    <2>1. TypeOK'
      BY <1>7 DEF vars, IInv, TypeOK
    <2>2. Lifecycle'
      BY <1>7 DEF vars, IInv, Lifecycle, Unlocked, Stopping
    <2>3. Pills'
      BY <1>7 DEF vars, IInv, Pills, Stopping
    <2>4. Places'
      BY <1>7 DEF vars, IInv, Places, InboxPlaces, InboxUnique, ThreadPlaces, ThreadUnique
    <2>5. Told' /\ Pipeline'
      BY <1>7 DEF vars, IInv, Told, Pipeline, Busy
    <2>6. ResultLast'
      BY <1>7 DEF vars, IInv, ResultLast
    <2> QED BY <2>1, <2>2, <2>3, <2>4, <2>5, <2>6 DEF IInv
  <1> QED BY <1>1, <1>2, <1>3, <1>4, <1>5, <1>6, <1>7 DEF Next

THEOREM Invariant == Spec => []IInv
  BY InitIInv, NextIInv, PTL DEF Spec

(* No thread ever runs without its engine, and a running worker has one:   *)
(* stop deletes the engine only after the join.                            *)
THEOREM EngineSafe == Spec => []EngineOutlivesThread
  <1>1. IInv => EngineOutlivesThread
    BY DEF IInv, Lifecycle, EngineOutlivesThread
  <1> QED BY <1>1, Invariant, PTL

(* Worker::run answers the accepted orders in their order, none is lost    *)
(* while the worker lives, and no event of an order follows its result.    *)
THEOREM InOrder == Spec => []AnswersInOrder
  <1>1. IInv => AnswersInOrder
    BY Parts DEF IInv
  <1> QED BY <1>1, Invariant, PTL

(* No submission reaches the inbox of a worker that was told to stop.      *)
THEOREM NothingAfterStop == Spec => StoppedGetsNothing
  <1>1. IInv /\ [Next]_vars =>
            [\A i \in Instrument :
                 (i \in workers /\ ~ running[i]) => accepted'[i] \in {accepted[i], << >>}]_vars
    <2> SUFFICES ASSUME IInv, Next, NEW i \in Instrument, i \in workers, ~ running[i]
                 PROVE  accepted'[i] \in {accepted[i], << >>}
      BY DEF vars
    <2>1. CASE \E j \in Instrument, o \in Order : Submit(j, o)
      <3>1. PICK j \in Instrument, o \in Order : Submit(j, o)
        BY <2>1
      <3>2. Unlocked
        BY <3>1 DEF Submit
      <3> QED BY <3>2 DEF IInv, Lifecycle
    <2>2. CASE ShutdownEnd
      BY <2>2 DEF ShutdownEnd
    <2>3. CASE UNCHANGED accepted
      BY <2>3
    <2> QED BY <2>1, <2>2, <2>3
            DEF Next, GetOrCreate, DrainOutbound, WorkerStep, CheckRunning, PopNothing,
                PopInbox, OnTrade, OnSubmitResult, ShutdownBegin, ShutdownStep, StopWorker,
                PushPoison, JoinAndDelete
  <1> QED BY <1>1, Invariant, PTL DEF Spec, StoppedGetsNothing

-----------------------------------------------------------------------------
(***************************************************************************)
(* The ring buffer of an inbox, for every number of slots, every width of  *)
(* the cursors that is a multiple of it, and every set of payloads: the    *)
(* threads never meet in a slot, and the ring implements BoundedFifo.      *)
(*                                                                         *)
(* The inductive invariant says in which order the four cursors stand on   *)
(* the ring: the head the producer saw last, the head, the tail the        *)
(* consumer saw last, the tail, the last at most N after the first.  It is *)
(* what makes an outdated cursor safe: the producer underestimates the     *)
(* room, the consumer what there is to read.                               *)
(***************************************************************************)

(* Remainders, for a divisor that is not a literal.                        *)

(* The remainder is what the defining equation of division leaves.         *)
LEMMA DivMod ==
    ASSUME NEW a \in Nat, NEW n \in Nat \ {0}
    PROVE  \E q \in Nat, r \in 0 .. (n - 1) : a = n * q + r /\ a % n = r
  <1>1. a % n \in 0 .. (n - 1)
    OBVIOUS
  <1>2. a \div n \in Nat
    OBVIOUS
  <1>3. a = n * (a \div n) + (a % n)
    OBVIOUS
  <1> QED BY <1>1, <1>2, <1>3

(* A positive multiple of n is at least n.                                 *)
LEMMA MultipleAtLeast ==
    ASSUME NEW n \in Nat \ {0}, NEW q \in Int, q >= 1
    PROVE  n * q >= n
  OBVIOUS

(* Quotient and remainder are unique.                                      *)
LEMMA DivModUnique ==
    ASSUME NEW n \in Nat \ {0}, NEW p \in Int, NEW q \in Int,
           NEW r \in 0 .. (n - 1), NEW s \in 0 .. (n - 1),
           n * p + r = n * q + s
    PROVE  r = s
  <1>1. n * (p - q) = s - r
    OBVIOUS
  <1>2. ~ (p - q >= 1)
    BY <1>1, MultipleAtLeast
  <1>3. n * (q - p) = r - s
    OBVIOUS
  <1>4. ~ (q - p >= 1)
    BY <1>3, MultipleAtLeast
  <1> QED BY <1>2, <1>4

(* Numbers less than n apart have different remainders.                    *)
LEMMA ModDistinct ==
    ASSUME NEW n \in Nat \ {0}, NEW a \in Nat, NEW d \in 1 .. (n - 1)
    PROVE  (a + d) % n # a % n
  <1> SUFFICES ASSUME (a + d) % n = a % n PROVE FALSE
    OBVIOUS
  <1>1. PICK q \in Nat, r \in 0 .. (n - 1) : a = n * q + r /\ a % n = r
    BY DivMod
  <1>2. a + d \in Nat
    OBVIOUS
  <1>3. PICK p \in Nat, s \in 0 .. (n - 1) : a + d = n * p + s /\ (a + d) % n = s
    BY <1>2, DivMod
  <1>4. r = s
    BY <1>1, <1>3
  <1>5. n * (p - q) = d /\ n * (q - p) = - d
    BY <1>1, <1>3, <1>4
  <1>6. ~ (p - q >= 1) /\ ~ (q - p >= 1)
    BY <1>5, MultipleAtLeast
  <1> QED BY <1>5, <1>6

(* Adding a multiple of n leaves the remainder alone.                      *)
LEMMA ModShift ==
    ASSUME NEW n \in Nat \ {0}, NEW a \in Nat, NEW w \in Nat, w % n = 0
    PROVE  (a + w) % n = a % n
  <1>1. PICK q \in Nat, r \in 0 .. (n - 1) : a = n * q + r /\ a % n = r
    BY DivMod
  <1>2. PICK k \in Nat, z \in 0 .. (n - 1) : w = n * k + z /\ w % n = z
    BY DivMod
  <1>3. a + w \in Nat
    OBVIOUS
  <1>4. PICK p \in Nat, s \in 0 .. (n - 1) : a + w = n * p + s /\ (a + w) % n = s
    BY <1>3, DivMod
  <1>5. n * p + s = n * (q + k) + r
    BY <1>1, <1>2, <1>4
  <1>6. p \in Int /\ q + k \in Int
    OBVIOUS
  <1>7. s = r
    BY <1>5, <1>6, DivModUnique
  <1> QED BY <1>1, <1>4, <1>7

-----------------------------------------------------------------------------
(* The cursors.                                                            *)

(* The assumptions in the form the provers use.                            *)
LEMMA Sizes ==
    /\ N \in Nat \ {0} /\ N > 1
    /\ W \in Nat /\ W > N /\ W % N = 0
  BY SPSCAssumption

(* Distance is how far one cursor has to be advanced to meet the other,    *)
(* and Advance moves a cursor by one, across the wrap-around too.          *)
LEMMA DistanceFacts ==
    ASSUME NEW a \in Cursor, NEW b \in Cursor
    PROVE  /\ Distance(a, b) \in Nat /\ Distance(a, b) < W
           /\ Distance(a, b) = 0 <=> a = b
           /\ Advance(a) \in Cursor
           /\ Distance(a, b) < W - 1 => Distance(Advance(a), b) = Distance(a, b) + 1
           /\ a # b => Distance(a, Advance(b)) = Distance(a, b) - 1
  BY Sizes DEF Distance, Cursor, Advance

(* The distances between three cursors add up when they stand in order.    *)
LEMMA DistanceSplit ==
    ASSUME NEW a \in Cursor, NEW b \in Cursor, NEW c \in Cursor,
           Distance(b, c) <= Distance(a, c)
    PROVE  Distance(a, c) = Distance(a, b) + Distance(b, c)
  BY Sizes DEF Distance, Cursor

(* The slot of a cursor is that of another one plus the distance.          *)
LEMMA SlotByDistance ==
    ASSUME NEW a \in Cursor, NEW b \in Cursor
    PROVE  /\ Slot(a) = (b + Distance(a, b)) % N
           /\ Slot(a) \in 0 .. (N - 1)
  <1>1. a \in Nat /\ b \in Nat
    BY Sizes DEF Cursor
  <1>2. Slot(a) \in 0 .. (N - 1)
    BY <1>1, Sizes DEF Slot
  <1>3. CASE a >= b
    <2>1. b + Distance(a, b) = a
      BY <1>1, <1>3 DEF Distance
    <2> QED BY <2>1, <1>2 DEF Slot
  <1>4. CASE ~ (a >= b)
    <2>1. b + Distance(a, b) = a + W
      BY <1>1, <1>4, Sizes DEF Distance
    <2>2. (a + W) % N = a % N
      BY <1>1, Sizes, ModShift
    <2> QED BY <2>1, <2>2, <1>2 DEF Slot
  <1> QED BY <1>3, <1>4

(* The slots of a stretch of less than N cursors are different.            *)
LEMMA SlotsDiffer ==
    ASSUME NEW a \in Cursor, NEW i \in Nat, NEW j \in Nat, i < j, j - i < N
    PROVE  (a + i) % N # (a + j) % N
  <1>1. a + i \in Nat /\ j - i \in 1 .. (N - 1) /\ (a + i) + (j - i) = a + j
    BY Sizes DEF Cursor
  <1>2. ((a + i) + (j - i)) % N # (a + i) % N
    BY <1>1, Sizes, ModDistinct
  <1> QED BY <1>1, <1>2

-----------------------------------------------------------------------------
(* The inductive invariant.                                                *)

(* producer.head, head, consumer.tail and tail stand in this order.        *)
CursorOrder ==
    /\ Distance(tail, producer.head) <= N
    /\ Distance(head, producer.head) <= Distance(tail, producer.head)
    /\ Distance(consumer.tail, head) <= Distance(tail, head)

(* A thread knows its own cursor, and it has found room or a value before  *)
(* it goes on; what it wrote or read is still there.                       *)
ProducerKnows ==
    /\ producer.pc # "idle" => producer.tail = tail
    /\ producer.pc = "publish" =>
           /\ Distance(tail, producer.head) # N
           /\ buffer[Slot(tail)] = producer.value

ConsumerKnows ==
    /\ consumer.pc # "idle" => consumer.head = head
    /\ consumer.pc = "release" =>
           /\ consumer.tail # head
           /\ buffer[Slot(head)] = consumer.value

RingInv ==
    /\ RingTypeOK
    /\ CursorOrder
    /\ ProducerKnows
    /\ ConsumerKnows

(* What the order of the cursors says of the true distance: at most N      *)
(* values are inside, fewer when the producer found room, and at least one *)
(* when the consumer found something.                                      *)
LEMMA Inside ==
    ASSUME RingTypeOK, CursorOrder
    PROVE  /\ head \in Cursor /\ tail \in Cursor
           /\ producer.head \in Cursor /\ consumer.tail \in Cursor
           /\ Distance(tail, head) \in 0 .. N
           /\ Distance(tail, producer.head) # N => Distance(tail, head) < N
           /\ consumer.tail # head => tail # head
  <1>1. /\ head \in Cursor /\ tail \in Cursor
        /\ producer.head \in Cursor /\ consumer.tail \in Cursor
    BY DEF RingTypeOK
  <1>2. /\ Distance(tail, head) \in Nat
        /\ Distance(head, producer.head) \in Nat
        /\ Distance(tail, producer.head) \in Nat
        /\ Distance(consumer.tail, head) \in Nat
        /\ Distance(consumer.tail, head) = 0 <=> consumer.tail = head
        /\ Distance(tail, head) = 0 <=> tail = head
    BY <1>1, DistanceFacts
  <1>3. Distance(tail, producer.head) = Distance(tail, head) + Distance(head, producer.head)
    BY <1>1, DistanceSplit DEF CursorOrder
  <1> QED BY <1>1, <1>2, <1>3, Sizes DEF CursorOrder

LEMMA InitRingInv == RingInit => RingInv
  <1> SUFFICES ASSUME RingInit PROVE RingInv
    OBVIOUS
  <1>1. 0 \in Cursor
    BY Sizes DEF Cursor
  <1>2. RingTypeOK
    BY <1>1 DEF RingInit, RingTypeOK
  <1>3. CursorOrder
    <2>1. Distance(0, 0) = 0
      BY <1>1, DistanceFacts
    <2> QED BY <2>1, Sizes DEF RingInit, CursorOrder
  <1> QED BY <1>2, <1>3 DEF RingInit, RingInv, ProducerKnows, ConsumerKnows

-----------------------------------------------------------------------------
(* The steps of push.                                                      *)

LEMMA PushStartRingInv ==
    ASSUME RingInv, NEW v \in Value, PushStart(v)
    PROVE  RingInv'
  <1>1. RingTypeOK'
    BY DEF RingInv, RingTypeOK, PushStart
  <1>2. CursorOrder'
    BY DEF RingInv, RingTypeOK, CursorOrder, PushStart, Distance
  <1>3. ProducerKnows' /\ ConsumerKnows'
    BY DEF RingInv, RingTypeOK, ProducerKnows, ConsumerKnows, PushStart, Slot
  <1> QED BY <1>1, <1>2, <1>3 DEF RingInv

(* Whatever value of head_ the producer sees, it lies between the one it   *)
(* saw before and the true one.                                            *)
LEMMA PushLoadHeadRingInv ==
    ASSUME RingInv, NEW h \in Cursor, PushLoadHead(h)
    PROVE  RingInv'
  <1>1. RingTypeOK'
    BY DEF RingInv, RingTypeOK, PushLoadHead
  <1>2. CursorOrder'
    <2>1. /\ h \in Cursor
          /\ Distance(h, producer.head) <= Distance(head, producer.head)
          /\ producer'.head = h
          /\ UNCHANGED << head, tail, consumer >>
      BY DEF RingInv, RingTypeOK, PushLoadHead, Readable
    <2>2. /\ head \in Cursor /\ tail \in Cursor /\ producer.head \in Cursor
      BY DEF RingInv, RingTypeOK
    <2>3. /\ Distance(head, producer.head) \in Nat /\ Distance(tail, producer.head) \in Nat
          /\ Distance(h, producer.head) \in Nat
          /\ Distance(head, h) \in Nat /\ Distance(tail, h) \in Nat
      BY <2>1, <2>2, DistanceFacts
    <2>4. Distance(h, producer.head) <= Distance(tail, producer.head)
      BY <2>1, <2>3 DEF RingInv, CursorOrder
    <2>5. /\ Distance(head, producer.head) = Distance(head, h) + Distance(h, producer.head)
          /\ Distance(tail, producer.head) = Distance(tail, h) + Distance(h, producer.head)
      BY <2>1, <2>2, <2>4, DistanceSplit
    <2>6. Distance(tail, h) <= N /\ Distance(head, h) <= Distance(tail, h)
      BY <2>3, <2>5, Sizes DEF RingInv, CursorOrder
    <2> QED BY <2>1, <2>6 DEF RingInv, CursorOrder, Distance
  <1>3. ProducerKnows' /\ ConsumerKnows'
    BY DEF RingInv, RingTypeOK, ProducerKnows, ConsumerKnows, PushLoadHead, Slot
  <1> QED BY <1>1, <1>2, <1>3 DEF RingInv

LEMMA PushFullRingInv == RingInv /\ PushFull => RingInv'
  <1> SUFFICES ASSUME RingInv, PushFull PROVE RingInv'
    OBVIOUS
  <1>1. RingTypeOK'
    BY DEF RingInv, RingTypeOK, PushFull
  <1>2. CursorOrder'
    BY DEF RingInv, RingTypeOK, CursorOrder, PushFull, Distance
  <1>3. ProducerKnows' /\ ConsumerKnows'
    BY DEF RingInv, RingTypeOK, ProducerKnows, ConsumerKnows, PushFull, Slot
  <1> QED BY <1>1, <1>2, <1>3 DEF RingInv

(* The slot the producer writes holds none of the values inside.           *)
LEMMA FreeSlot ==
    ASSUME RingTypeOK, CursorOrder, Distance(tail, producer.head) # N,
           NEW i \in 0 .. (Distance(tail, head) - 1)
    PROVE  (head + i) % N # Slot(tail)
  <1>1. /\ head \in Cursor /\ tail \in Cursor
        /\ Distance(tail, head) \in 0 .. N /\ Distance(tail, head) < N
    BY Inside
  <1>2. Slot(tail) = (head + Distance(tail, head)) % N
    BY <1>1, SlotByDistance
  <1>3. /\ i \in Nat /\ Distance(tail, head) \in Nat /\ i < Distance(tail, head)
        /\ Distance(tail, head) - i < N
    BY <1>1, Sizes
  <1> QED BY <1>1, <1>2, <1>3, SlotsDiffer

LEMMA PushWriteRingInv == RingInv /\ PushWrite => RingInv'
  <1> SUFFICES ASSUME RingInv, PushWrite PROVE RingInv'
    OBVIOUS
  <1>1. RingTypeOK'
    BY DEF RingInv, RingTypeOK, PushWrite
  <1>2. CursorOrder'
    BY DEF RingInv, RingTypeOK, CursorOrder, PushWrite, Distance
  <1>3. /\ producer.pc = "check" /\ producer.tail = tail
        /\ Distance(tail, producer.head) # N
        /\ buffer' = [buffer EXCEPT ![Slot(tail)] = producer.value]
        /\ producer' = [producer EXCEPT !.pc = "publish"]
        /\ UNCHANGED << head, tail, consumer >>
    BY DEF RingInv, ProducerKnows, PushWrite
  <1>4. Slot(tail) \in 0 .. (N - 1) /\ buffer \in [0 .. (N - 1) -> Value]
    BY SlotByDistance DEF RingInv, RingTypeOK
  <1>5. ProducerKnows'
    BY <1>3, <1>4 DEF RingInv, RingTypeOK, ProducerKnows, Slot
  <1>6. ConsumerKnows'
    <2>1. CASE consumer.pc = "release"
      <3>1. /\ head \in Cursor /\ tail \in Cursor
            /\ tail # head /\ Distance(tail, head) \in Nat
        BY <2>1, Inside DEF RingInv, ConsumerKnows
      <3>2. Distance(tail, head) # 0
        BY <3>1, DistanceFacts
      <3>3. 0 \in 0 .. (Distance(tail, head) - 1)
        BY <3>1, <3>2
      <3>4. (head + 0) % N # Slot(tail)
        BY <3>3, <1>3, FreeSlot DEF RingInv
      <3>5. head + 0 = head
        BY <3>1 DEF Cursor
      <3>6. Slot(head) # Slot(tail)
        BY <3>4, <3>5 DEF Slot
      <3>7. Slot(head) \in 0 .. (N - 1)
        BY <3>1, SlotByDistance
      <3>8. buffer'[Slot(head)] = buffer[Slot(head)]
        BY <3>6, <3>7, <1>3, <1>4
      <3> QED BY <2>1, <3>8, <1>3 DEF RingInv, ConsumerKnows, Slot
    <2>2. CASE consumer.pc # "release"
      BY <2>2, <1>3 DEF RingInv, ConsumerKnows
    <2> QED BY <2>1, <2>2
  <1> QED BY <1>1, <1>2, <1>5, <1>6 DEF RingInv

LEMMA PushPublishRingInv == RingInv /\ PushPublish => RingInv'
  <1> SUFFICES ASSUME RingInv, PushPublish PROVE RingInv'
    OBVIOUS
  <1>1. /\ producer.pc = "publish"
        /\ tail' = Advance(tail)
        /\ producer' = [producer EXCEPT !.pc = "idle"]
        /\ Distance(tail, producer.head) # N
        /\ UNCHANGED << head, buffer, consumer >>
    BY DEF RingInv, ProducerKnows, PushPublish
  <1>2. /\ head \in Cursor /\ tail \in Cursor
        /\ producer.head \in Cursor /\ consumer.tail \in Cursor
        /\ Distance(tail, head) \in 0 .. N /\ Distance(tail, head) < N
    BY <1>1, Inside DEF RingInv
  <1>3. /\ Advance(tail) \in Cursor
        /\ Distance(tail, producer.head) \in Nat
        /\ Distance(head, producer.head) \in Nat
        /\ Distance(consumer.tail, head) \in Nat
    BY <1>2, DistanceFacts
  <1>4. /\ Distance(tail, head) < W - 1 /\ Distance(tail, producer.head) < W - 1
    BY <1>1, <1>2, <1>3, Sizes DEF RingInv, CursorOrder
  <1>5. /\ Distance(Advance(tail), head) = Distance(tail, head) + 1
        /\ Distance(Advance(tail), producer.head) = Distance(tail, producer.head) + 1
    BY <1>2, <1>4, DistanceFacts
  <1>6. RingTypeOK'
    BY <1>1, <1>3 DEF RingInv, RingTypeOK, PushPublish
  <1>7. producer'.head = producer.head
    BY <1>1 DEF RingInv, RingTypeOK
  <1>8. CursorOrder'
    <2>1. /\ Distance(Advance(tail), producer.head) <= N
          /\ Distance(head, producer.head) <= Distance(Advance(tail), producer.head)
          /\ Distance(consumer.tail, head) <= Distance(Advance(tail), head)
      BY <1>1, <1>2, <1>3, <1>5, Sizes DEF RingInv, CursorOrder
    <2> QED BY <2>1, <1>1, <1>7 DEF CursorOrder, Distance
  <1>9. ProducerKnows' /\ ConsumerKnows'
    BY <1>1 DEF RingInv, RingTypeOK, ProducerKnows, ConsumerKnows, Slot
  <1> QED BY <1>6, <1>8, <1>9 DEF RingInv

-----------------------------------------------------------------------------
(* The steps of pop.                                                       *)

LEMMA PopStartRingInv == RingInv /\ PopStart => RingInv'
  <1> SUFFICES ASSUME RingInv, PopStart PROVE RingInv'
    OBVIOUS
  <1>1. RingTypeOK'
    BY DEF RingInv, RingTypeOK, PopStart
  <1>2. CursorOrder'
    BY DEF RingInv, RingTypeOK, CursorOrder, PopStart, Distance
  <1>3. ProducerKnows' /\ ConsumerKnows'
    BY DEF RingInv, RingTypeOK, ProducerKnows, ConsumerKnows, PopStart, Slot
  <1> QED BY <1>1, <1>2, <1>3 DEF RingInv

(* Whatever value of tail_ the consumer sees, it lies between the one it   *)
(* saw before, hence the head, and the true one.                           *)
LEMMA PopLoadTailRingInv ==
    ASSUME RingInv, NEW t \in Cursor, PopLoadTail(t)
    PROVE  RingInv'
  <1>1. RingTypeOK'
    BY DEF RingInv, RingTypeOK, PopLoadTail
  <1>2. CursorOrder'
    <2>1. /\ Distance(t, consumer.tail) <= Distance(tail, consumer.tail)
          /\ consumer'.tail = t
          /\ UNCHANGED << head, tail, producer >>
      BY DEF RingInv, RingTypeOK, PopLoadTail, Readable
    <2>2. head \in Cursor /\ tail \in Cursor /\ consumer.tail \in Cursor
      BY DEF RingInv, RingTypeOK
    <2>3. Distance(t, head) <= Distance(tail, head)
      <3> DEFINE c == consumer.tail
      <3>1. c \in Cursor
        BY <2>2
      <3>2. Distance(t, c) <= Distance(tail, c) /\ Distance(c, head) <= Distance(tail, head)
        BY <2>1 DEF RingInv, CursorOrder
      <3> HIDE DEF c
      <3> QED BY <3>1, <3>2, <2>2, Sizes DEF Distance, Cursor
    <2> QED BY <2>1, <2>3 DEF RingInv, CursorOrder, Distance
  <1>3. ProducerKnows' /\ ConsumerKnows'
    BY DEF RingInv, RingTypeOK, ProducerKnows, ConsumerKnows, PopLoadTail, Slot
  <1> QED BY <1>1, <1>2, <1>3 DEF RingInv

LEMMA PopEmptyRingInv == RingInv /\ PopEmpty => RingInv'
  <1> SUFFICES ASSUME RingInv, PopEmpty PROVE RingInv'
    OBVIOUS
  <1>1. RingTypeOK'
    BY DEF RingInv, RingTypeOK, PopEmpty
  <1>2. CursorOrder'
    BY DEF RingInv, RingTypeOK, CursorOrder, PopEmpty, Distance
  <1>3. ProducerKnows' /\ ConsumerKnows'
    BY DEF RingInv, RingTypeOK, ProducerKnows, ConsumerKnows, PopEmpty, Slot
  <1> QED BY <1>1, <1>2, <1>3 DEF RingInv

LEMMA PopReadRingInv == RingInv /\ PopRead => RingInv'
  <1> SUFFICES ASSUME RingInv, PopRead PROVE RingInv'
    OBVIOUS
  <1>1. /\ consumer.pc = "check" /\ consumer.head = head /\ consumer.tail # head
        /\ consumer' = [consumer EXCEPT !.pc = "release", !.value = buffer[Slot(head)]]
        /\ UNCHANGED << head, tail, buffer, producer, out >>
    BY DEF RingInv, ConsumerKnows, PopRead
  <1>2. Slot(head) \in 0 .. (N - 1)
    BY SlotByDistance DEF RingInv, RingTypeOK
  <1>3. RingTypeOK'
    BY <1>1, <1>2 DEF RingInv, RingTypeOK
  <1>4. CursorOrder'
    BY <1>1 DEF RingInv, RingTypeOK, CursorOrder, Distance
  <1>5. ProducerKnows' /\ ConsumerKnows'
    BY <1>1 DEF RingInv, RingTypeOK, ProducerKnows, ConsumerKnows, Slot
  <1> QED BY <1>3, <1>4, <1>5 DEF RingInv

LEMMA PopReleaseRingInv == RingInv /\ PopRelease => RingInv'
  <1> SUFFICES ASSUME RingInv, PopRelease PROVE RingInv'
    OBVIOUS
  <1>1. /\ consumer.pc = "release"
        /\ head' = Advance(head)
        /\ out' = consumer.value
        /\ consumer' = [consumer EXCEPT !.pc = "idle"]
        /\ consumer.tail # head
        /\ UNCHANGED << tail, buffer, producer >>
    BY DEF RingInv, ConsumerKnows, PopRelease
  <1>2. /\ head \in Cursor /\ tail \in Cursor
        /\ producer.head \in Cursor /\ consumer.tail \in Cursor
        /\ Distance(tail, head) \in 0 .. N /\ tail # head
    BY <1>1, Inside DEF RingInv
  <1>3. /\ Advance(head) \in Cursor
        /\ Distance(tail, producer.head) \in Nat
        /\ Distance(head, producer.head) \in Nat
        /\ Distance(consumer.tail, head) \in Nat
        /\ Distance(tail, Advance(head)) = Distance(tail, head) - 1
        /\ Distance(consumer.tail, Advance(head)) = Distance(consumer.tail, head) - 1
        /\ Distance(tail, head) # 0
    BY <1>1, <1>2, DistanceFacts
  <1>4. Distance(tail, producer.head) = Distance(tail, head) + Distance(head, producer.head)
    BY <1>2, DistanceSplit DEF RingInv, CursorOrder
  <1>5. Distance(head, producer.head) < W - 1
    BY <1>2, <1>3, <1>4, Sizes DEF RingInv, CursorOrder
  <1>6. Distance(Advance(head), producer.head) = Distance(head, producer.head) + 1
    BY <1>2, <1>5, DistanceFacts
  <1>7. RingTypeOK'
    BY <1>1, <1>3 DEF RingInv, RingTypeOK
  <1>8. consumer'.tail = consumer.tail
    BY <1>1 DEF RingInv, RingTypeOK
  <1>9. CursorOrder'
    <2>1. /\ Distance(Advance(head), producer.head) <= Distance(tail, producer.head)
          /\ Distance(consumer.tail, Advance(head)) <= Distance(tail, Advance(head))
      BY <1>2, <1>3, <1>4, <1>6, Sizes DEF RingInv, CursorOrder
    <2> QED BY <2>1, <1>1, <1>8 DEF RingInv, CursorOrder, Distance
  <1>10. ProducerKnows' /\ ConsumerKnows'
    BY <1>1 DEF RingInv, RingTypeOK, ProducerKnows, ConsumerKnows, Slot
  <1> QED BY <1>7, <1>9, <1>10 DEF RingInv

-----------------------------------------------------------------------------
LEMMA NextRingInv == RingInv /\ [RingNext]_ringVars => RingInv'
  <1> SUFFICES ASSUME RingInv, [RingNext]_ringVars PROVE RingInv'
    OBVIOUS
  <1>1. CASE Push
    BY <1>1, PushStartRingInv, PushLoadHeadRingInv, PushFullRingInv, PushWriteRingInv, PushPublishRingInv
       DEF Push
  <1>2. CASE Pop
    BY <1>2, PopStartRingInv, PopLoadTailRingInv, PopEmptyRingInv, PopReadRingInv, PopReleaseRingInv
       DEF Pop
  <1>3. CASE UNCHANGED ringVars
    BY <1>3 DEF ringVars, RingInv, RingTypeOK, CursorOrder, ProducerKnows, ConsumerKnows,
                Distance, Slot, Cursor
  <1> QED BY <1>1, <1>2, <1>3 DEF RingNext

THEOREM RingInvariant == RingSpec => []RingInv
  BY InitRingInv, NextRingInv, PTL DEF RingSpec

(* push and pop never access one slot at the same time, whatever outdated  *)
(* cursors the two threads work with.                                      *)
THEOREM NoRace == RingSpec => []NoSlotRace
  <1>1. RingInv => NoSlotRace
    <2> SUFFICES ASSUME RingInv,
                        consumer.pc = "check", consumer.head # consumer.tail,
                        producer.pc = "check", Distance(producer.tail, producer.head) # N
                 PROVE  Slot(producer.tail) # Slot(consumer.head)
      BY DEF NoSlotRace, RingInv
    <2>1. producer.tail = tail /\ consumer.head = head
      BY DEF RingInv, ProducerKnows, ConsumerKnows
    <2>2. head \in Cursor /\ tail \in Cursor /\ tail # head
      BY <2>1, Inside DEF RingInv
    <2>3. Distance(tail, head) \in Nat /\ Distance(tail, head) # 0
      BY <2>2, DistanceFacts
    <2>4. 0 \in 0 .. (Distance(tail, head) - 1)
      BY <2>3
    <2>5. (head + 0) % N # Slot(tail)
      BY <2>1, <2>4, FreeSlot DEF RingInv
    <2>6. head + 0 = head
      BY <2>2 DEF Cursor
    <2> QED BY <2>1, <2>5, <2>6 DEF Slot
  <1> QED BY <1>1, RingInvariant, PTL

-----------------------------------------------------------------------------
(* The refinement of BoundedFifo.                                          *)

(* The d values of the buffer b from the cursor h on.                      *)
Stretch(h, d, b) == [i \in 1 .. d |-> b[(h + i - 1) % N]]

LEMMA StretchShape ==
    ASSUME NEW h \in Cursor, NEW d \in Nat, NEW b \in [0 .. (N - 1) -> Value]
    PROVE  /\ Stretch(h, d, b) \in Seq(Value)
           /\ Len(Stretch(h, d, b)) = d
           /\ \A i \in 1 .. d : Stretch(h, d, b)[i] = b[(h + (i - 1)) % N]
  <1>1. ASSUME NEW i \in 1 .. d
        PROVE  b[(h + i - 1) % N] \in Value /\ h + i - 1 = h + (i - 1)
    <2>1. h + i - 1 \in Nat /\ h + i - 1 = h + (i - 1)
      BY Sizes DEF Cursor
    <2>2. (h + i - 1) % N \in 0 .. (N - 1)
      BY <2>1, Sizes
    <2> QED BY <2>1, <2>2
  <1>2. Stretch(h, d, b) \in [1 .. d -> Value]
    BY <1>1 DEF Stretch
  <1>3. Stretch(h, d, b) \in Seq(Value) /\ Len(Stretch(h, d, b)) = d
    BY <1>2
  <1> QED BY <1>1, <1>3 DEF Stretch

(* The content of the ring is such a stretch.                              *)
LEMMA ContentIsStretch ==
    Content = Stretch(head, Distance(tail, head), buffer)
  BY DEF Content, Stretch

(* Neither the cursors nor the values inside change.                       *)
LEMMA Stutter ==
    ASSUME RingInv, UNCHANGED << head, tail, buffer, out >>
    PROVE  UNCHANGED Fifo!vars
  BY DEF Fifo!vars, Content, Distance

(* A write goes to a free slot: it changes nothing inside.                 *)
LEMMA WriteStutters ==
    ASSUME RingInv, PushWrite
    PROVE  UNCHANGED Fifo!vars
  <1>1. /\ Distance(tail, producer.head) # N
        /\ buffer' = [buffer EXCEPT ![Slot(tail)] = producer.value]
        /\ UNCHANGED << head, tail, out >>
    BY DEF RingInv, ProducerKnows, PushWrite
  <1>3. /\ head \in Cursor /\ Distance(tail, head) \in Nat
        /\ buffer \in [0 .. (N - 1) -> Value]
    BY Inside DEF RingInv, RingTypeOK
  <1>4. ASSUME NEW i \in 1 .. Distance(tail, head)
        PROVE  buffer'[(head + i - 1) % N] = buffer[(head + i - 1) % N]
    <2>1. i - 1 \in 0 .. (Distance(tail, head) - 1) /\ head + (i - 1) = head + i - 1
          /\ head + i - 1 \in Nat
      BY <1>3, Sizes DEF Cursor
    <2>2. (head + i - 1) % N # Slot(tail)
      BY <2>1, <1>1, FreeSlot DEF RingInv
    <2>3. (head + i - 1) % N \in 0 .. (N - 1)
      BY <2>1, Sizes
    <2> QED BY <2>2, <2>3, <1>1, <1>3
  <1>5. Content' = Content
    BY <1>1, <1>4 DEF Content, Distance
  <1> QED BY <1>1, <1>5 DEF Fifo!vars

(* The store of tail_ appends the value that was written.                  *)
LEMMA PublishPushes ==
    ASSUME RingInv, PushPublish
    PROVE  Fifo!Push(producer.value)
  <1>1. /\ tail' = Advance(tail)
        /\ Distance(tail, producer.head) # N
        /\ buffer[Slot(tail)] = producer.value
        /\ UNCHANGED << head, buffer, out >>
    BY DEF RingInv, ProducerKnows, PushPublish
  <1>2. buffer \in [0 .. (N - 1) -> Value]
    BY DEF RingInv, RingTypeOK
  <1>3. /\ head \in Cursor /\ tail \in Cursor
        /\ Distance(tail, head) \in Nat /\ Distance(tail, head) < N
        /\ producer.value \in Value
    BY <1>1, Inside DEF RingInv, RingTypeOK
  <1> DEFINE d == Distance(tail, head)
  <1>4. Distance(Advance(tail), head) = d + 1
    BY <1>3, DistanceFacts, Sizes
  <1>5. Distance(tail, head)' = d + 1
    BY <1>1, <1>4 DEF Distance
  <1>6. /\ Content \in Seq(Value) /\ Len(Content) = d
        /\ \A i \in 1 .. d : Content[i] = buffer[(head + (i - 1)) % N]
    BY <1>2, <1>3, ContentIsStretch, StretchShape
  <1>7. /\ Content' \in Seq(Value) /\ Len(Content') = d + 1
        /\ \A i \in 1 .. (d + 1) : Content'[i] = buffer[(head + (i - 1)) % N]
    <2>1. Content' = Stretch(head, d + 1, buffer)
      BY <1>1, <1>5 DEF Content, Stretch
    <2>2. d + 1 \in Nat
      BY <1>3
    <2> QED BY <2>1, <2>2, <1>2, <1>3, StretchShape
  <1>8. Content' = Append(Content, producer.value)
    <2> DEFINE a == Append(Content, producer.value)
    <2>1. /\ a \in Seq(Value) /\ Len(a) = d + 1 /\ a[d + 1] = producer.value
          /\ \A i \in 1 .. d : a[i] = Content[i]
      BY <1>3, <1>6, AppendProperties
    <2> HIDE DEF a
    <2>2. ASSUME NEW i \in 1 .. (d + 1)
          PROVE  Content'[i] = a[i]
      <3>1. CASE i \in 1 .. d
        BY <3>1, <2>1, <1>6, <1>7
      <3>2. CASE i = d + 1
        <4>1. Content'[d + 1] = buffer[(head + d) % N]
          <5>1. d + 1 \in 1 .. (d + 1) /\ (d + 1) - 1 = d
            BY <1>3
          <5> QED BY <5>1, <1>7
        <4>2. Slot(tail) = (head + d) % N
          BY <1>3, SlotByDistance
        <4>3. Content'[d + 1] = producer.value
          BY <4>1, <4>2, <1>1
        <4> QED BY <3>2, <4>3, <2>1
      <3> QED BY <3>1, <3>2, <1>3
    <2> QED BY <2>1, <2>2, <1>7, SeqEqual DEF a
  <1> QED BY <1>1, <1>3, <1>6, <1>8 DEF Fifo!Push

(* The store of head_ takes the oldest value out, the one that was read.   *)
LEMMA ReleasePops ==
    ASSUME RingInv, PopRelease
    PROVE  Fifo!Pop
  <1>1. /\ head' = Advance(head)
        /\ out' = buffer[Slot(head)]
        /\ consumer.tail # head
        /\ UNCHANGED << tail, buffer >>
    BY DEF RingInv, ConsumerKnows, PopRelease
  <1>2. buffer \in [0 .. (N - 1) -> Value]
    BY DEF RingInv, RingTypeOK
  <1>3. /\ head \in Cursor /\ tail \in Cursor /\ tail # head
        /\ Distance(tail, head) \in Nat
    BY <1>1, Inside DEF RingInv
  <1> DEFINE d == Distance(tail, head)
  <1>4. /\ d # 0 /\ Distance(tail, Advance(head)) = d - 1
        /\ Advance(head) \in Cursor
    BY <1>3, DistanceFacts
  <1>5. Distance(tail, head)' = d - 1
    BY <1>1, <1>4 DEF Distance
  <1>6. /\ Content \in Seq(Value) /\ Len(Content) = d
        /\ \A i \in 1 .. d : Content[i] = buffer[(head + (i - 1)) % N]
    BY <1>2, <1>3, ContentIsStretch, StretchShape
  <1>7. /\ Content' \in Seq(Value) /\ Len(Content') = d - 1
        /\ \A i \in 1 .. (d - 1) : Content'[i] = buffer[(Advance(head) + (i - 1)) % N]
    <2>1. Content' = Stretch(Advance(head), d - 1, buffer)
      BY <1>1, <1>5 DEF Content, Stretch
    <2>2. d - 1 \in Nat
      BY <1>3, <1>4
    <2> QED BY <2>1, <2>2, <1>2, <1>4, StretchShape
  <1>8. Content # << >> /\ Head(Content) = buffer[Slot(head)]
    <2>1. Content # << >> /\ Head(Content) = Content[1]
      BY <1>3, <1>4, <1>6
    <2>2. Content[1] = buffer[(head + 0) % N] /\ head + 0 = head
      BY <1>3, <1>4, <1>6 DEF Cursor
    <2> QED BY <2>1, <2>2 DEF Slot
  <1>9. Content' = Tail(Content)
    <2> DEFINE t == Tail(Content)
    <2>1. /\ t \in Seq(Value) /\ Len(t) = d - 1
          /\ \A i \in 1 .. (d - 1) : t[i] = Content[i + 1]
      BY <1>6, <1>8, HeadTailProperties
    <2>2. ASSUME NEW i \in 1 .. (d - 1)
          PROVE  Content'[i] = t[i]
      <3>1. t[i] = buffer[(head + i) % N]
        <4>1. i + 1 \in 1 .. d /\ (i + 1) - 1 = i
          BY <1>3
        <4> QED BY <4>1, <2>1, <1>6
      <3>2. (Advance(head) + (i - 1)) % N = (head + i) % N
        <4>1. CASE head = W - 1
          <5>1. /\ Advance(head) + (i - 1) = i - 1 /\ i - 1 \in Nat
                /\ (i - 1) + W = head + i
            BY <4>1, <1>3, Sizes DEF Advance
          <5>2. ((i - 1) + W) % N = (i - 1) % N
            BY <5>1, Sizes, ModShift
          <5> QED BY <5>1, <5>2
        <4>2. CASE head # W - 1
          <5>1. Advance(head) + (i - 1) = head + i
            BY <4>2, <1>3, Sizes DEF Advance, Cursor
          <5> QED BY <5>1
        <4> QED BY <4>1, <4>2
      <3> QED BY <3>1, <3>2, <1>7
    <2> HIDE DEF t
    <2> QED BY <2>1, <2>2, <1>7, SeqEqual DEF t
  <1> QED BY <1>1, <1>8, <1>9 DEF Fifo!Pop

(* The ring implements a bounded FIFO of capacity N: push takes effect     *)
(* with the store of tail_, pop with the store of head_, every other step  *)
(* leaves the content alone.                                               *)
THEOREM Refinement == RingSpec => ImplementsBoundedFifo
  <1>1. RingInit => Fifo!Init
    <2> SUFFICES ASSUME RingInit PROVE Fifo!Init
      OBVIOUS
    <2>1. RingInv /\ Distance(tail, head) = 0
      BY InitRingInv, DistanceFacts DEF RingInit, RingInv, RingTypeOK
    <2>2. Content \in Seq(Value) /\ Len(Content) = 0
      BY <2>1, ContentIsStretch, StretchShape DEF RingInv, RingTypeOK
    <2>3. Content = << >>
      BY <2>2
    <2> QED BY <2>3 DEF RingInit, Fifo!Init
  <1>2. RingInv /\ [RingNext]_ringVars => [Fifo!Next]_(Fifo!vars)
    <2> SUFFICES ASSUME RingInv, [RingNext]_ringVars
                 PROVE  Fifo!Next \/ UNCHANGED Fifo!vars
      OBVIOUS
    <2>1. CASE Push
      <3>1. CASE \E v \in Value : PushStart(v)
        BY <3>1, Stutter DEF PushStart
      <3>2. CASE \E h \in Cursor : PushLoadHead(h)
        BY <3>2, Stutter DEF PushLoadHead
      <3>3. CASE PushFull
        BY <3>3, Stutter DEF PushFull
      <3>4. CASE PushWrite
        BY <3>4, WriteStutters
      <3>5. CASE PushPublish
        <4>1. producer.value \in Value
          BY DEF RingInv, RingTypeOK
        <4> QED BY <3>5, <4>1, PublishPushes DEF Fifo!Next
      <3> QED BY <2>1, <3>1, <3>2, <3>3, <3>4, <3>5 DEF Push
    <2>2. CASE Pop
      <3>1. CASE PopStart
        BY <3>1, Stutter DEF PopStart
      <3>2. CASE \E t \in Cursor : PopLoadTail(t)
        BY <3>2, Stutter DEF PopLoadTail
      <3>3. CASE PopEmpty
        BY <3>3, Stutter DEF PopEmpty
      <3>4. CASE PopRead
        BY <3>4, Stutter DEF PopRead
      <3>5. CASE PopRelease
        BY <3>5, ReleasePops DEF Fifo!Next
      <3> QED BY <2>2, <3>1, <3>2, <3>3, <3>4, <3>5 DEF Pop
    <2>3. CASE UNCHANGED ringVars
      BY <2>3, Stutter DEF ringVars
    <2> QED BY <2>1, <2>2, <2>3 DEF RingNext
  <1> QED BY <1>1, <1>2, RingInvariant, PTL DEF RingSpec, ImplementsBoundedFifo, Fifo!Spec
=============================================================================

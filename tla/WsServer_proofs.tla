-------------------------- MODULE WsServer_proofs ---------------------------
(***************************************************************************)
(* Proofs about WsServer, for every number of connections: who is in the   *)
(* table of peers, whom stop leaves open, and who is told of a submission. *)
(***************************************************************************)
EXTENDS WsServer, FiniteSetTheorems, WellFoundedInduction, TLAPS

WsPeer == [id : 0 .. MaxConn, open : BOOLEAN, fd : 0 .. MaxConn]

Emplacing(c) == acceptor.pc = "emplace" /\ acceptor.conn = c

Types ==
    /\ life \in {"new", "up", "closing", "joining", "stopped"}
    /\ toClose \subseteq Conn
    /\ corrupt \in BOOLEAN
    /\ acceptor \in [pc : {"off", "accept", "emplace", "spawn", "done"}, conn : Conn \cup {0}]
    /\ ids \subseteq Conn
    /\ DOMAIN peers \subseteq Conn
    /\ \A i \in DOMAIN peers : peers[i] \in Conn
    /\ peer \in [Conn -> WsPeer]
    /\ pc \in [Conn -> Frames \cup {"none", "handshake", "recv", "publish", "erase", "done"}]
    /\ client \in [Conn -> {"absent", "reading", "stalled", "gone"}]
    /\ mutex \in Conn \cup {0}
    /\ twins \subseteq Conn /\ late \subseteq Conn

(* The connections that have not been accepted, the one that is being      *)
(* accepted, and the numbers of the sockets.                               *)
Sockets ==
    /\ \A c \in Conn : client[c] = "absent" => peer[c] = Closed /\ pc[c] = "none"
    /\ acceptor.pc \in {"emplace", "spawn"} =>
           /\ acceptor.conn \in Conn
           /\ client[acceptor.conn] # "absent"
           /\ pc[acceptor.conn] = "none"
           /\ peer[acceptor.conn].id # 0
    /\ \A c \in Conn : peer[c].open <=> peer[c].fd # 0
    /\ \A c, d \in Conn : peer[c].open /\ peer[c].fd = peer[d].fd => c = d
    /\ \A c \in Conn : pc[c] = "erase" => ~ peer[c].open

(* An entry is that of a peer with its id, an id in use is that of a peer, *)
(* peers that share an id are twins, and an open connection is in the      *)
(* table unless it has a twin or is yet to be entered.                     *)
Table ==
    /\ \A i \in DOMAIN peers : peer[peers[i]].id = i /\ pc[peers[i]] # "done"
    /\ \A i \in DOMAIN peers : ~ Emplacing(peers[i])
    /\ \A i \in ids : \E c \in Conn : peer[c].id = i
    /\ \A c, d \in Conn : (c # d /\ peer[c].id = peer[d].id /\ peer[c].id # 0) => c \in twins
    /\ life # "stopped" =>
           \A c \in Conn : peer[c].open =>
               c \in twins \/ Emplacing(c) \/ \E i \in DOMAIN peers : peers[i] = c

(* The accept thread runs once the server has started; whom stop has still *)
(* to close, and who came behind it.                                       *)
Stopping ==
    /\ life = "new" => acceptor.pc = "off"
    /\ life = "closing" => \A i \in DOMAIN peers : peer[peers[i]].open => peers[i] \in toClose
    /\ life = "joining" => \A i \in DOMAIN peers : peer[peers[i]].open => peers[i] \in late
    /\ life = "stopped" => acceptor.pc = "done" /\ \A c \in Conn : ~ Alive(c)

Kinds == {"trade", "tob"}

CastType ==
    [todo : {<< >>, << "tob" >>, << "trade", "tob" >>},
     frame : Kinds \cup {"none"}, fd : 0 .. MaxConn, left : SUBSET Conn,
     await : [trade : SUBSET Conn, tob : SUBSET Conn]]

(* A submission is published while the mutex is held.  A peer that waits   *)
(* for a frame will be in the snapshot of its broadcast, is in it, or is   *)
(* the one that is being sent to.                                          *)
Casting ==
    /\ cast \in CastType
    /\ mutex = 0 => cast = NoCast
    /\ mutex # 0 => pc[mutex] = "publish"
    /\ cast.frame = "none" => CastIdle
    /\ \A k \in Kinds : \A c \in cast.await[k] :
           /\ client[c] # "absent" /\ ~ Emplacing(c)
           /\ peer[c].open =>
                  \/ c \in twins
                  \/ \E n \in DOMAIN cast.todo : cast.todo[n] = k
                  \/ cast.frame = k /\ (c \in cast.left \/ cast.fd = peer[c].fd)

World == Types /\ Sockets /\ Table /\ Stopping

IInv == World /\ Casting

-----------------------------------------------------------------------------
(* Ids and socket numbers.                                                 *)

(* A function on 1 .. n takes at most n values.                            *)
LEMMA FewValues ==
    ASSUME NEW n \in Nat, NEW f, DOMAIN f = 1 .. n, f = [d \in 1 .. n |-> f[d]],
           NEW T, \A t \in T : \E d \in 1 .. n : f[d] = t
    PROVE  IsFiniteSet(T) /\ Cardinality(T) \in Nat /\ Cardinality(T) <= n
  <1> DEFINE U == {f[d] : d \in 1 .. n}
  <1>1. f \in Surjection(1 .. n, U)
    BY DEF Surjection
  <1>2. IsFiniteSet(1 .. n) /\ Cardinality(1 .. n) = n
    BY FS_Interval
  <1>3. IsFiniteSet(U) /\ Cardinality(U) <= n
    <2> HIDE DEF U
    <2> QED BY <1>1, <1>2, FS_Surjection
  <1>4. T \in SUBSET U
    OBVIOUS
  <1>5. IsFiniteSet(T) /\ Cardinality(T) <= Cardinality(U)
    <2> HIDE DEF U
    <2> QED BY <1>3, <1>4, FS_Subset
  <1>6. Cardinality(T) \in Nat /\ Cardinality(U) \in Nat
    BY <1>3, <1>5, FS_CardinalityType
  <1> HIDE DEF U
  <1> QED BY <1>3, <1>5, <1>6

(* A set of numbers that is not empty has a least one.                     *)
LEMMA LeastNumber ==
    ASSUME NEW S, S \subseteq Nat, S # {}
    PROVE  Min(S) \in S
  <1> DEFINE R == OpToRel(<, Nat)
  <1>1. IsWellFoundedOn(R, Nat)
    BY NatLessThanWellFounded, Zenon
  <1> HIDE DEF R
  <1>2. PICK x \in S : \A y \in S : ~ (<< y, x >> \in R)
    BY <1>1, WFMin
  <1>3. ASSUME NEW y \in S, ~ (x <= y) PROVE FALSE
    <2>1. x \in Nat /\ y \in Nat /\ y < x
      BY <1>3
    <2>2. << y, x >> \in R
      BY <2>1 DEF R, OpToRel
    <2> QED BY <2>2, <1>2
  <1>4. \E z \in S : \A y \in S : z =< y
    BY <1>3
  <1> QED BY <1>4 DEF Min

(* The next connection finds an id and a socket number within the bounds:  *)
(* as many of each are in use as there were connections before it.         *)
LEMMA NextNumbers ==
    ASSUME Types, Sockets, Table, NEW c \in Conn,
           \A d \in Conn : client[d] = "absent" <=> d >= c
    PROVE  /\ NextId \in Conn
           /\ FreeFd \in Conn
           /\ \A d \in Conn : peer[d].fd # FreeFd
  <1>1. c \in Nat /\ c >= 1 /\ c <= MaxConn /\ MaxConn \in Nat
    BY WsAssumption DEF Conn
  <1> DEFINE m == c - 1
  <1>2. m \in Nat /\ 1 .. m \subseteq Conn /\ m < MaxConn
    BY <1>1 DEF Conn
  <1>3. \A d \in Conn : d \in 1 .. m \/ (peer[d].id = 0 /\ peer[d].fd = 0)
    BY <1>1 DEF Sockets, Closed, Conn
  <1>4. Cardinality(ids) \in Nat /\ Cardinality(ids) <= m
    <2> DEFINE f == [d \in 1 .. m |-> peer[d].id]
    <2>1. \A t \in ids : \E d \in 1 .. m : f[d] = t
      <3> SUFFICES ASSUME NEW t \in ids PROVE \E d \in 1 .. m : f[d] = t
        OBVIOUS
      <3>1. t # 0
        BY DEF Types, Conn
      <3>2. PICK d \in Conn : peer[d].id = t
        BY DEF Table
      <3>3. d \in 1 .. m
        BY <3>1, <3>2, <1>3
      <3> QED BY <3>2, <3>3
    <2>2. DOMAIN f = 1 .. m /\ f = [d \in 1 .. m |-> f[d]]
      OBVIOUS
    <2> HIDE DEF f, m
    <2> QED BY <1>2, <2>1, <2>2, FewValues
  <1>5. NextId \in Conn
    BY <1>1, <1>4 DEF NextId, Conn
  <1> DEFINE used == {peer[d].fd : d \in Conn}
             free == (1 .. MaxConn) \ used
  <1>6. free # {}
    <2> SUFFICES ASSUME free = {} PROVE FALSE
      OBVIOUS
    <2> DEFINE f == [d \in 1 .. m |-> peer[d].fd]
    <2>1. \A t \in 1 .. MaxConn : \E d \in 1 .. m : f[d] = t
      <3> SUFFICES ASSUME NEW t \in 1 .. MaxConn PROVE \E d \in 1 .. m : f[d] = t
        OBVIOUS
      <3>1. PICK d \in Conn : peer[d].fd = t
        OBVIOUS
      <3>2. t # 0
        OBVIOUS
      <3>3. d \in 1 .. m
        BY <3>1, <3>2, <1>3
      <3> QED BY <3>1, <3>3
    <2>2. DOMAIN f = 1 .. m /\ f = [d \in 1 .. m |-> f[d]]
      OBVIOUS
    <2>3. Cardinality(1 .. MaxConn) <= m
      <3> HIDE DEF f, m
      <3> QED BY <1>2, <2>1, <2>2, FewValues
    <2>4. Cardinality(1 .. MaxConn) = MaxConn
      BY <1>1, FS_Interval
    <2> QED BY <2>3, <2>4, <1>1, <1>2
  <1>7. free \subseteq Nat
    OBVIOUS
  <1>8. Min(free) \in free
    <2> HIDE DEF free
    <2> QED BY <1>6, <1>7, LeastNumber
  <1>9. FreeFd \in free
    BY <1>8 DEF FreeFd
  <1> QED BY <1>5, <1>9 DEF Conn

-----------------------------------------------------------------------------
(* The steps that accept nobody and erase nobody.                          *)

(* Peers keep their ids, and at most close; nobody has not been accepted   *)
(* who was.                                                                *)
Quieter ==
    /\ peer' \in [Conn -> WsPeer]
    /\ client' \in [Conn -> {"absent", "reading", "stalled", "gone"}]
    /\ \A d \in Conn : peer'[d].id = peer[d].id
    /\ \A d \in Conn : peer'[d] = peer[d] \/ (~ peer'[d].open /\ peer'[d].fd = 0)
    /\ \A d \in Conn : client'[d] = "absent" => client[d] = "absent" /\ peer'[d] = peer[d]

LEMMA ClosingIsQuieter ==
    ASSUME Types, NEW c \in Conn, CloseInternal(c)
    PROVE  Quieter /\ ~ peer'[c].open
  <1> DEFINE w == [[peer[c] EXCEPT !.open = FALSE] EXCEPT !.fd = 0]
  <1>1. peer' = [peer EXCEPT ![c] = w] /\ client' = [client EXCEPT ![c] = "gone"]
    BY DEF CloseInternal, Types
  <1>2. peer[c] \in WsPeer
    BY DEF Types
  <1>3. w \in WsPeer /\ w.id = peer[c].id /\ ~ w.open /\ w.fd = 0
    <2> DEFINE v == [peer[c] EXCEPT !.open = FALSE]
    <2>1. v \in WsPeer /\ v.id = peer[c].id /\ ~ v.open
      BY <1>2 DEF WsPeer
    <2> HIDE DEF v
    <2>2. 0 \in 0 .. MaxConn
      BY WsAssumption
    <2>3. /\ [v EXCEPT !.fd = 0] \in WsPeer /\ [v EXCEPT !.fd = 0].id = v.id
          /\ [v EXCEPT !.fd = 0].open = v.open /\ [v EXCEPT !.fd = 0].fd = 0
      BY <2>1, <2>2 DEF WsPeer
    <2> QED BY <2>1, <2>3 DEF v
  <1> HIDE DEF w
  <1>4. /\ peer' \in [Conn -> WsPeer] /\ peer'[c] = w
        /\ \A d \in Conn : d # c => peer'[d] = peer[d]
    BY <1>1, <1>3 DEF Types
  <1>5. /\ client' \in [Conn -> {"absent", "reading", "stalled", "gone"}]
        /\ client'[c] = "gone"
        /\ \A d \in Conn : d # c => client'[d] = client[d]
    BY <1>1 DEF Types
  <1> QED BY <1>3, <1>4, <1>5 DEF Quieter

(* A thread that is being served goes on being served.                     *)
Served ==
    /\ pc' \in [Conn -> Frames \cup {"none", "handshake", "recv", "publish", "erase", "done"}]
    /\ \A d \in Conn : pc'[d] = pc[d] \/ (Alive(d) /\ pc'[d] \notin {"none", "done"})
    /\ \A d \in Conn : pc'[d] = "erase" => ~ peer'[d].open

LEMMA QuieterWorld ==
    ASSUME World, Quieter, Served,
           UNCHANGED << life, corrupt, tblVars, twins, late >>,
           toClose' \subseteq Conn,
           \A d \in toClose \ toClose' : ~ peer'[d].open,
           mutex' \in Conn \cup {0}
    PROVE  World'
  <1> USE DEF World, tblVars
  <1>1. Types'
    BY DEF Types, Quieter, Served
  <1>2. Sockets'
    <2>1. \A c \in Conn : client'[c] = "absent" => peer'[c] = Closed /\ pc'[c] = "none"
      BY DEF Quieter, Served, Sockets, Alive
    <2>2. acceptor.pc \in {"emplace", "spawn"} =>
           /\ acceptor.conn \in Conn
           /\ client'[acceptor.conn] # "absent"
           /\ pc'[acceptor.conn] = "none"
           /\ peer'[acceptor.conn].id # 0
      BY DEF Quieter, Served, Sockets, Alive
    <2>3. \A c \in Conn : peer'[c].open <=> peer'[c].fd # 0
      BY DEF Quieter, Sockets
    <2>4. ASSUME NEW c \in Conn, NEW d \in Conn, peer'[c].open, peer'[c].fd = peer'[d].fd
          PROVE  c = d
      <3>1. peer'[c] = peer[c] /\ peer'[c].fd # 0
        BY <2>3, <2>4 DEF Quieter
      <3>2. peer'[d] = peer[d]
        BY <3>1, <2>4 DEF Quieter
      <3> QED BY <3>1, <3>2, <2>4 DEF Sockets
    <2> QED BY <2>1, <2>2, <2>3, <2>4 DEF Sockets, Served
  <1>3. Table'
    <2>1. \A i \in DOMAIN peers : peer'[peers[i]].id = i /\ pc'[peers[i]] # "done"
      BY DEF Types, Table, Quieter, Served
    <2>2. \A i \in ids : \E c \in Conn : peer'[c].id = i
      BY DEF Table, Quieter
    <2>3. \A c, d \in Conn : (c # d /\ peer'[c].id = peer'[d].id /\ peer'[c].id # 0) => c \in twins
      BY DEF Table, Quieter
    <2>4. life # "stopped" =>
              \A c \in Conn : peer'[c].open =>
                  c \in twins \/ Emplacing(c) \/ \E i \in DOMAIN peers : peers[i] = c
      BY DEF Table, Quieter
    <2> QED BY <2>1, <2>2, <2>3, <2>4 DEF Table, Emplacing
  <1>4. Stopping'
    <2>1. life = "closing" =>
              \A i \in DOMAIN peers : peer'[peers[i]].open => peers[i] \in toClose'
      BY DEF Types, Stopping, Quieter
    <2>2. life = "joining" =>
              \A i \in DOMAIN peers : peer'[peers[i]].open => peers[i] \in late
      BY DEF Types, Stopping, Quieter
    <2>3. life = "stopped" =>
              acceptor.pc = "done" /\ \A c \in Conn : pc'[c] \in {"none", "done"}
      BY DEF Stopping, Served, Alive
    <2>4. life = "new" => acceptor.pc = "off"
      BY DEF Stopping
    <2> QED BY <2>1, <2>2, <2>3, <2>4 DEF Stopping, Alive
  <1> QED BY <1>1, <1>2, <1>3, <1>4

LEMMA QuieterCasting ==
    ASSUME World, Casting, Quieter, UNCHANGED << mutex, cast, acceptor, twins >>,
           mutex # 0 => pc'[mutex] = "publish"
    PROVE  Casting'
  <1>1. ASSUME NEW k \in Kinds, NEW c \in cast.await[k]
        PROVE  /\ client'[c] # "absent" /\ ~ Emplacing(c)
               /\ peer'[c].open =>
                     \/ c \in twins
                     \/ \E n \in DOMAIN cast.todo : cast.todo[n] = k
                     \/ cast.frame = k /\ (c \in cast.left \/ cast.fd = peer'[c].fd)
    <2>1. c \in Conn
      BY DEF Casting, CastType, Kinds
    <2> QED BY <2>1 DEF Casting, Quieter
  <1> QED BY <1>1 DEF Casting, Emplacing, CastIdle

(* A step of the thread of c, while it is served.                          *)
LEMMA ServedBy ==
    ASSUME World, NEW c \in Conn, Alive(c),
           NEW x \in Frames \cup {"recv", "publish", "erase"},
           pc' = [pc EXCEPT ![c] = x],
           (UNCHANGED << peer, client >> /\ x # "erase") \/ CloseInternal(c)
    PROVE  Quieter /\ Served
  <1> USE DEF World
  <1>1. Quieter
    <2>1. CASE CloseInternal(c)
      BY <2>1, ClosingIsQuieter
    <2>2. CASE UNCHANGED << peer, client >>
      BY <2>2 DEF Quieter, Types
    <2> QED BY <2>1, <2>2
  <1>2. x = "erase" => ~ peer'[c].open
    BY ClosingIsQuieter
  <1>3. /\ pc'[c] = x /\ \A d \in Conn : d # c => pc'[d] = pc[d]
        /\ pc' \in [Conn -> Frames \cup {"none", "handshake", "recv", "publish", "erase", "done"}]
    BY DEF Types
  <1>4. x \notin {"none", "done"}
    BY DEF Frames
  <1>5. \A d \in Conn : pc'[d] = "erase" => ~ peer'[d].open
    BY <1>1, <1>2, <1>3 DEF Quieter, Sockets
  <1> QED BY <1>1, <1>3, <1>4, <1>5 DEF Served

(* The steps of a thread outside a submission.                             *)
LEMMA ThreadStep ==
    ASSUME IInv, NEW c \in Conn, Alive(c), pc[c] # "publish",
           NEW x \in Frames \cup {"recv", "publish", "erase"},
           pc' = [pc EXCEPT ![c] = x],
           (UNCHANGED << peer, client >> /\ x # "erase") \/ CloseInternal(c),
           UNCHANGED << mutex, cast >>, Others
    PROVE  IInv'
  <1> USE DEF IInv
  <1>1. Quieter /\ Served
    BY ServedBy
  <1>2. toClose' = toClose /\ toClose \subseteq Conn /\ mutex \in Conn \cup {0}
        /\ UNCHANGED << life, corrupt, tblVars, twins, late >>
    BY DEF Others, srvVars, World, Types
  <1>3. World'
    BY <1>1, <1>2, QuieterWorld
  <1>4. mutex # 0 => pc'[mutex] = "publish"
    BY DEF Casting, World, Types
  <1>5. UNCHANGED << mutex, cast, acceptor, twins >>
    BY <1>2 DEF tblVars
  <1>6. Casting'
    BY <1>1, <1>4, <1>5, QuieterCasting
  <1> QED BY <1>3, <1>6

(* What Continue does.                                                     *)
LEMMA ContinueFacts ==
    ASSUME NEW c \in Conn, Continue(c)
    PROVE  \E x \in {"recv", "erase"} :
               /\ pc' = [pc EXCEPT ![c] = x]
               /\ (UNCHANGED << peer, client >> /\ x # "erase") \/ CloseInternal(c)
  BY DEF Continue

LEMMA ServeSteps ==
    ASSUME IInv, NEW c \in Conn,
           \/ Handshake(c) \/ HandshakeFails(c) \/ Eof(c) \/ AnswerClose(c)
           \/ Cancel(c) \/ Reply(c) \/ \E kind \in Frames : Receive(c, kind)
    PROVE  IInv'
  <1>1. CASE Handshake(c)
    <2>1. PICK x \in {"recv", "erase"} :
              /\ pc' = [pc EXCEPT ![c] = x]
              /\ (UNCHANGED << peer, client >> /\ x # "erase") \/ CloseInternal(c)
      BY <1>1 DEF Handshake
    <2>2. Alive(c) /\ pc[c] # "publish" /\ UNCHANGED << mutex, cast >> /\ Others
      BY <1>1 DEF Handshake, Alive
    <2> QED BY <2>1, <2>2, ThreadStep
  <1>2. CASE HandshakeFails(c)
    <2>1. /\ Alive(c) /\ pc[c] # "publish" /\ UNCHANGED << mutex, cast >> /\ Others
          /\ pc' = [pc EXCEPT ![c] = "erase"] /\ CloseInternal(c)
      BY <1>2 DEF HandshakeFails, Alive
    <2> QED BY <2>1, ThreadStep
  <1>3. CASE Eof(c)
    <2>1. /\ Alive(c) /\ pc[c] # "publish" /\ UNCHANGED << mutex, cast >> /\ Others
          /\ pc' = [pc EXCEPT ![c] = "erase"] /\ CloseInternal(c)
      BY <1>3 DEF Eof, Alive
    <2> QED BY <2>1, ThreadStep
  <1>4. CASE AnswerClose(c)
    <2>1. /\ Alive(c) /\ pc[c] # "publish" /\ UNCHANGED << mutex, cast >> /\ Others
          /\ pc' = [pc EXCEPT ![c] = "erase"] /\ CloseInternal(c)
      BY <1>4 DEF AnswerClose, Alive
    <2> QED BY <2>1, ThreadStep
  <1>5. CASE Cancel(c)
    <2>1. /\ Alive(c) /\ pc[c] # "publish" /\ UNCHANGED << mutex, cast >> /\ Others
          /\ pc' = [pc EXCEPT ![c] = "ping"] /\ UNCHANGED << peer, client >>
      BY <1>5 DEF Cancel, Alive
    <2>2. "ping" \in Frames /\ "ping" # "erase"
      BY DEF Frames
    <2> QED BY <2>1, <2>2, ThreadStep
  <1>6. CASE Reply(c)
    <2>1. PICK x \in {"recv", "erase"} :
              /\ pc' = [pc EXCEPT ![c] = x]
              /\ (UNCHANGED << peer, client >> /\ x # "erase") \/ CloseInternal(c)
      BY <1>6, ContinueFacts DEF Reply
    <2>2. Alive(c) /\ pc[c] # "publish" /\ UNCHANGED << mutex, cast >> /\ Others
      BY <1>6 DEF Reply, Alive
    <2> QED BY <2>1, <2>2, ThreadStep
  <1>7. ASSUME NEW kind \in Frames, Receive(c, kind) PROVE IInv'
    <2>1. /\ Alive(c) /\ pc[c] # "publish" /\ UNCHANGED << mutex, cast >> /\ Others
          /\ pc' = [pc EXCEPT ![c] = kind] /\ UNCHANGED << peer, client >>
      BY <1>7 DEF Receive, Alive
    <2>2. kind # "erase"
      BY DEF Frames
    <2> QED BY <2>1, <2>2, ThreadStep
  <1> QED BY <1>1, <1>2, <1>3, <1>4, <1>5, <1>6, <1>7

(* The client goes or stalls, or stop closes a connection.                 *)
LEMMA OutsideSteps ==
    ASSUME IInv, NEW c \in Conn, Leave(c) \/ Stall(c) \/ StopClose(c)
    PROVE  IInv'
  <1> USE DEF IInv
  <1>0. StopClose(c) => Quieter /\ ~ peer'[c].open
    BY ClosingIsQuieter DEF StopClose, World
  <1>1. Quieter
    <2>1. CASE Leave(c) \/ Stall(c)
      <3>1. \E x \in {"stalled", "gone"} : client' = [client EXCEPT ![c] = x]
        BY <2>1 DEF Leave, Stall
      <3>2. peer' = peer
        BY <2>1 DEF Leave, Stall
      <3> QED BY <3>1, <3>2 DEF Quieter, World, Types
    <2> QED BY <2>1, <1>0
  <1>2. /\ UNCHANGED << life, corrupt, tblVars, twins, late, pc, mutex, cast, acceptor >>
        /\ toClose' \in {toClose, toClose \ {c}}
        /\ toClose' # toClose => StopClose(c)
    BY DEF Leave, Stall, StopClose, srvVars, tblVars
  <1>3. Served
    BY <1>1, <1>2 DEF Served, Quieter, World, Types, Sockets
  <1>4. /\ toClose' \subseteq Conn /\ mutex' \in Conn \cup {0}
        /\ \A d \in toClose \ toClose' : ~ peer'[d].open
    BY <1>0, <1>2 DEF World, Types
  <1>5. World'
    BY <1>1, <1>2, <1>3, <1>4, QuieterWorld
  <1>6. mutex # 0 => pc'[mutex] = "publish"
    BY <1>2 DEF Casting
  <1>7. Casting'
    BY <1>1, <1>2, <1>6, QuieterCasting
  <1> QED BY <1>5, <1>7

-----------------------------------------------------------------------------
(* The steps of a submission.                                              *)

(* c waits for a frame of kind k of the cast, and will get it.             *)
Expects(cs, k, c) ==
    peer[c].open =>
        \/ c \in twins
        \/ \E n \in DOMAIN cs.todo : cs.todo[n] = k
        \/ cs.frame = k /\ (c \in cs.left \/ cs.fd = peer[c].fd)

(* The steps that change nothing but the cast.                             *)
LEMMA CastStep ==
    ASSUME IInv, mutex # 0, UNCHANGED << peer, pc, client, mutex >>, Others,
           cast' \in CastType, cast'.frame = "none" => CastIdle',
           \A k \in Kinds : cast'.await[k] \subseteq cast.await[k],
           \A k \in Kinds : \A c \in cast'.await[k] : Expects(cast', k, c)
    PROVE  IInv'
  <1>1. World'
    BY DEF IInv, World, Types, Sockets, Table, Stopping, Emplacing, Alive, Others,
           srvVars, tblVars
  <1>2. Casting'
    BY DEF IInv, Casting, CastType, Expects, Emplacing, Others, tblVars
  <1> QED BY <1>1, <1>2 DEF IInv

(* A peer that is open, not a twin and not about to be entered is in the   *)
(* table, as long as the server has not stopped.                           *)
LEMMA OpenInTable ==
    ASSUME World, NEW c \in Conn, peer[c].open, c \notin twins, ~ Emplacing(c),
           life # "stopped"
    PROVE  c \in Range(peers)
  BY DEF World, Table, Range

(* A mutex that is held is held by a thread that is served.                *)
LEMMA HolderRuns ==
    ASSUME IInv, mutex # 0
    PROVE  life # "stopped"
  <1>1. mutex \in Conn /\ pc[mutex] = "publish"
    BY DEF IInv, World, Types, Casting
  <1> QED BY <1>1 DEF IInv, World, Stopping, Alive

LEMMA SnapshotStep ==
    ASSUME IInv, Snapshot
    PROVE  IInv'
  <1> DEFINE f == Head(cast.todo)
             t == Tail(cast.todo)
  <1>1. mutex # 0
    BY DEF Snapshot, IInv, Casting, NoCast
  <1>2. cast \in CastType /\ cast.todo # << >> /\ CastIdle
    BY DEF Snapshot, IInv, Casting, CastType
  <1>3. Range(peers) \in SUBSET Conn
    BY DEF IInv, World, Types, Range
  <1>4. /\ cast.todo \in {<< "tob" >>, << "trade", "tob" >>}
        /\ cast.todo = << "tob" >> => f = "tob" /\ t = << >>
        /\ cast.todo = << "trade", "tob" >> => f = "trade" /\ t = << "tob" >>
    <2>1. << "tob" >> \in Seq(Kinds) /\ << "trade", "tob" >> \in Seq(Kinds)
      BY DEF Kinds
    <2>2. Head(<< "tob" >>) = "tob" /\ Tail(<< "tob" >>) = << >>
      BY <2>1
    <2>3. Head(<< "trade", "tob" >>) = "trade" /\ Tail(<< "trade", "tob" >>) = << "tob" >>
      BY <2>1
    <2> QED BY <1>2, <2>2, <2>3 DEF CastType
  <1>5. /\ f \in Kinds /\ t \in {<< >>, << "tob" >>}
        /\ \A k \in Kinds : k # f /\ (\E n \in DOMAIN cast.todo : cast.todo[n] = k)
                                => \E n \in DOMAIN t : t[n] = k
    <2> HIDE DEF f, t
    <2>1. CASE cast.todo = << "tob" >>
      BY <2>1, <1>4 DEF Kinds
    <2>2. CASE cast.todo = << "trade", "tob" >>
      BY <2>2, <1>4 DEF Kinds
    <2> QED BY <2>1, <2>2, <1>4
  <1>6. /\ cast'.todo = t /\ cast'.frame = f /\ cast'.left = Range(peers)
        /\ cast'.fd = cast.fd /\ cast'.await = cast.await
        /\ cast' = [todo |-> t, frame |-> f, fd |-> cast.fd, left |-> Range(peers),
                    await |-> cast.await]
    <2>1. cast' = [cast EXCEPT !.todo = t, !.frame = f, !.left = Range(peers)]
      BY DEF Snapshot
    <2> HIDE DEF f, t
    <2> QED BY <2>1, <1>2 DEF CastType
  <1> HIDE DEF f, t
  <1>7. cast' \in CastType
    BY <1>2, <1>3, <1>5, <1>6 DEF CastType
  <1>8. f # "none"
    BY <1>5 DEF Kinds
  <1>9. ASSUME NEW k \in Kinds, NEW c \in cast.await[k] PROVE Expects(cast', k, c)
    <2>1. c \in Conn /\ ~ Emplacing(c) /\ Expects(cast, k, c)
      BY DEF IInv, Casting, CastType, Kinds, Expects
    <2> SUFFICES ASSUME peer[c].open, c \notin twins
                 PROVE  \/ \E n \in DOMAIN t : t[n] = k
                        \/ f = k /\ c \in Range(peers)
      BY <1>6 DEF Expects
    <2>2. c \in Range(peers)
      BY <2>1, <1>1, HolderRuns, OpenInTable DEF IInv
    <2>3. peer[c].fd # 0
      BY <2>1 DEF IInv, World, Sockets
    <2>4. \E n \in DOMAIN cast.todo : cast.todo[n] = k
      BY <2>1, <2>3, <1>2 DEF Expects, CastIdle
    <2> QED BY <2>2, <2>4, <1>5
  <1>10. UNCHANGED << peer, pc, client, mutex >> /\ Others
    BY DEF Snapshot
  <1> QED BY <1>1, <1>6, <1>7, <1>8, <1>9, <1>10, CastStep

LEMMA ChooseStep ==
    ASSUME IInv, NEW c \in Conn, Choose(c)
    PROVE  IInv'
  <1>1. mutex # 0 /\ cast.frame # "none"
    BY DEF Choose, IInv, Casting, NoCast, CastIdle
  <1>2. cast \in CastType /\ cast.fd = 0 /\ c \in cast.left
    BY DEF Choose, IInv, Casting, CastType
  <1>3. peer[c].fd \in 0 .. MaxConn
    BY DEF IInv, World, Types, WsPeer
  <1>4. cast' = [todo |-> cast.todo, frame |-> cast.frame, fd |-> peer[c].fd,
                 left |-> cast.left \ {c}, await |-> cast.await]
    BY <1>2 DEF Choose, CastType
  <1>5. cast' \in CastType
    BY <1>2, <1>3, <1>4 DEF CastType
  <1>6. ASSUME NEW k \in Kinds, NEW d \in cast.await[k] PROVE Expects(cast', k, d)
    <2>1. d \in Conn /\ Expects(cast, k, d)
      BY DEF IInv, Casting, CastType, Kinds, Expects
    <2>2. peer[d].open => peer[d].fd # 0
      BY <2>1 DEF IInv, World, Sockets
    <2> QED BY <2>1, <2>2, <1>2, <1>4 DEF Expects
  <1>7. UNCHANGED << peer, pc, client, mutex >> /\ Others
    BY DEF Choose
  <1> QED BY <1>1, <1>4, <1>5, <1>6, <1>7, CastStep

LEMMA SendStep ==
    ASSUME IInv, Send
    PROVE  IInv'
  <1> DEFINE owner == {c \in Conn : peer[c].fd = cast.fd}
             aw == [cast.await EXCEPT ![cast.frame] = @ \ owner]
  <1>1. mutex # 0 /\ cast.frame # "none"
    BY DEF Send, IInv, Casting, NoCast, CastIdle
  <1>2. cast \in CastType /\ cast.fd # 0
    BY DEF Send, IInv, Casting, CastType
  <1>3. cast.frame \in Kinds
    BY <1>1, <1>2 DEF CastType
  <1>4. cast' = [todo |-> cast.todo, frame |-> cast.frame, fd |-> 0,
                 left |-> cast.left, await |-> aw]
    <2>1. cast' = [cast EXCEPT !.fd = 0, !.await = aw]
      BY <1>2 DEF Send
    <2> HIDE DEF aw
    <2> QED BY <2>1, <1>2 DEF CastType
  <1>5. /\ aw \in [trade : SUBSET Conn, tob : SUBSET Conn]
        /\ \A k \in Kinds : aw[k] = IF k = cast.frame THEN cast.await[k] \ owner
                                    ELSE cast.await[k]
    <2> HIDE DEF owner
    <2>1. cast.await \in [trade : SUBSET Conn, tob : SUBSET Conn]
      BY <1>2 DEF CastType
    <2>2. CASE cast.frame = "trade"
      BY <2>1, <2>2 DEF Kinds
    <2>3. CASE cast.frame = "tob"
      BY <2>1, <2>3 DEF Kinds
    <2> QED BY <1>3, <2>2, <2>3 DEF Kinds
  <1> HIDE DEF aw
  <1>6. cast' \in CastType
    BY <1>2, <1>4, <1>5, WsAssumption DEF CastType
  <1>7. ASSUME NEW k \in Kinds, NEW d \in aw[k] PROVE Expects(cast', k, d)
    <2>1. d \in cast.await[k]
      BY <1>5
    <2>2. d \in Conn /\ Expects(cast, k, d)
      BY <2>1 DEF IInv, Casting, CastType, Kinds, Expects
    <2>3. cast.frame = k => peer[d].fd # cast.fd
      BY <1>5, <2>2
    <2> QED BY <2>2, <2>3, <1>4 DEF Expects
  <1>8. UNCHANGED << peer, pc, client, mutex >> /\ Others
    BY DEF Send
  <1>9. \A k \in Kinds : aw[k] \subseteq cast.await[k]
    BY <1>5
  <1> QED BY <1>1, <1>4, <1>6, <1>7, <1>8, <1>9, CastStep

LEMMA SubmitStep ==
    ASSUME IInv, NEW c \in Conn, NEW outcome \in {"refused", "rested", "filled"},
           Submit(c, outcome)
    PROVE  IInv'
  <1> DEFINE tob == IF outcome = "refused" THEN {} ELSE Range(peers)
             trade == IF outcome = "filled" THEN {c} ELSE {}
             aw == [trade |-> trade, tob |-> tob]
             td == Publications(outcome)
  <1>1. /\ Alive(c) /\ pc[c] = "submit" /\ mutex = 0 /\ mutex' = c
        /\ pc' = [pc EXCEPT ![c] = "publish"]
        /\ UNCHANGED << peer, client >> /\ Others
    BY DEF Submit, Alive
  <1>2. Quieter /\ Served
    BY <1>1, ServedBy DEF IInv
  <1>3. toClose' = toClose /\ toClose \subseteq Conn /\ mutex' \in Conn \cup {0}
        /\ UNCHANGED << life, corrupt, tblVars, twins, late >>
    BY <1>1 DEF Others, srvVars, IInv, World, Types
  <1>4. World'
    BY <1>2, <1>3, QuieterWorld DEF IInv
  <1>5. cast' = [todo |-> td, frame |-> "none", fd |-> 0, left |-> {}, await |-> aw]
    BY DEF Submit, NoCast
  <1>6. Range(peers) \in SUBSET Conn
    BY DEF IInv, World, Types, Range
  <1>7. /\ td \in {<< >>, << "tob" >>, << "trade", "tob" >>}
        /\ outcome # "refused" => \E n \in DOMAIN td : td[n] = "tob"
        /\ outcome = "filled" => \E n \in DOMAIN td : td[n] = "trade"
    <2>1. CASE outcome = "refused"
      BY <2>1 DEF Publications
    <2>2. CASE outcome = "rested"
      <3>1. td = << "tob" >>
        BY <2>2 DEF Publications
      <3> HIDE DEF td
      <3> QED BY <3>1, <2>2
    <2>3. CASE outcome = "filled"
      <3>1. td = << "trade", "tob" >>
        BY <2>3 DEF Publications
      <3> HIDE DEF td
      <3>2. td[1] = "trade" /\ td[2] = "tob" /\ DOMAIN td = 1 .. 2
        BY <3>1
      <3> QED BY <3>1, <3>2, <2>3
    <2> QED BY <2>1, <2>2, <2>3
  <1> HIDE DEF td
  <1>8. cast' \in CastType
    BY <1>5, <1>6, <1>7, WsAssumption DEF CastType, Kinds
  <1>9. ASSUME NEW k \in Kinds, NEW d \in cast'.await[k]
        PROVE  /\ client[d] # "absent" /\ ~ Emplacing(d)
               /\ \E n \in DOMAIN td : td[n] = k
    <2>1. CASE k = "tob"
      <3>1. d \in Range(peers) /\ outcome # "refused"
        BY <1>5, <2>1
      <3>2. PICK i \in DOMAIN peers : peers[i] = d
        BY <3>1 DEF Range
      <3>3. client[d] # "absent"
        BY <3>2 DEF IInv, World, Types, Sockets, Table, Closed, Conn
      <3>4. ~ Emplacing(d)
        BY <3>2 DEF IInv, World, Table
      <3> QED BY <3>1, <3>3, <3>4, <2>1, <1>7
    <2>2. CASE k = "trade"
      <3>1. d = c /\ outcome = "filled"
        BY <1>5, <2>2
      <3>2. client[c] # "absent" /\ ~ Emplacing(c)
        BY <1>1 DEF IInv, World, Sockets, Emplacing
      <3> QED BY <3>1, <3>2, <2>2, <1>7
    <2> QED BY <2>1, <2>2 DEF Kinds
  <1>10. Casting'
    <2>1. mutex' # 0 /\ pc'[mutex'] = "publish"
      BY <1>1 DEF IInv, World, Types, Conn
    <2>2. CastIdle'
      BY <1>5 DEF CastIdle
    <2>3. ASSUME NEW k \in Kinds, NEW d \in cast'.await[k]
          PROVE  /\ client'[d] # "absent" /\ ~ Emplacing(d)'
                 /\ \E n \in DOMAIN cast'.todo : cast'.todo[n] = k
      <3>1. cast'.todo = td
        BY <1>5
      <3> HIDE DEF aw
      <3> QED BY <3>1, <1>1, <1>3, <1>9 DEF Emplacing, tblVars
    <2> QED BY <1>8, <2>1, <2>2, <2>3 DEF Casting, CastType
  <1> QED BY <1>4, <1>10 DEF IInv

LEMMA ResultStep ==
    ASSUME IInv, NEW c \in Conn, Result(c)
    PROVE  IInv'
  <1>1. /\ Alive(c) /\ mutex' = 0 /\ cast' = NoCast /\ Others
    BY DEF Result, Alive
  <1>2. PICK x \in {"recv", "erase"} :
            /\ pc' = [pc EXCEPT ![c] = x]
            /\ (UNCHANGED << peer, client >> /\ x # "erase") \/ CloseInternal(c)
    BY ContinueFacts DEF Result
  <1>3. Quieter /\ Served
    BY <1>1, <1>2, ServedBy DEF IInv
  <1>4. toClose' = toClose /\ toClose \subseteq Conn /\ mutex' \in Conn \cup {0}
        /\ UNCHANGED << life, corrupt, tblVars, twins, late >>
    BY <1>1 DEF Others, srvVars, IInv, World, Types
  <1>5. World'
    BY <1>3, <1>4, QuieterWorld DEF IInv
  <1>6. Casting'
    BY <1>1, WsAssumption DEF Casting, CastType, NoCast, CastIdle, Kinds
  <1> QED BY <1>5, <1>6 DEF IInv

-----------------------------------------------------------------------------
(* The steps of the accept thread, of cleanup and of stop.                 *)

(* A step that changes neither the table nor the sockets leaves the cast   *)
(* as it is.                                                               *)
LEMMA SameCasting ==
    ASSUME IInv, UNCHANGED << peer, client, mutex, cast, twins >>,
           mutex # 0 => pc'[mutex] = "publish",
           \A c \in Conn : Emplacing(c)' => Emplacing(c) \/ client[c] = "absent"
    PROVE  Casting'
  <1>1. ASSUME NEW k \in Kinds, NEW c \in cast.await[k]
        PROVE  client[c] # "absent" /\ ~ Emplacing(c)'
    <2>1. c \in Conn /\ client[c] # "absent" /\ ~ Emplacing(c)
      BY DEF IInv, Casting, CastType, Kinds
    <2> QED BY <2>1
  <1> QED BY <1>1 DEF IInv, Casting, CastIdle

LEMMA StartStep ==
    ASSUME IInv, Start
    PROVE  IInv'
  <1> USE DEF IInv
  <1>1. /\ life = "new" /\ life' = "up" /\ acceptor' = [pc |-> "accept", conn |-> 0]
        /\ UNCHANGED << toClose, corrupt, ids, peers, peer, pc, client, mutex, cast, twins, late >>
    BY DEF Start
  <1>2. \A c \in Conn : ~ Emplacing(c)'
    BY <1>1 DEF Emplacing
  <1>3. Casting'
    BY <1>1, <1>2, SameCasting DEF Casting
  <1>4. Types'
    BY <1>1 DEF World, Types
  <1>5. Sockets'
    BY <1>1 DEF World, Sockets
  <1>6. Table'
    <2>1. ASSUME NEW c \in Conn, peer[c].open
          PROVE  c \in twins \/ \E i \in DOMAIN peers : peers[i] = c
      BY <1>1, <2>1 DEF World, Table, Stopping, Emplacing
    <2> QED BY <1>1, <1>2, <2>1 DEF World, Types, Table
  <1>7. Stopping'
    BY <1>1 DEF Stopping
  <1> QED BY <1>3, <1>4, <1>5, <1>6, <1>7 DEF World

(* The new peer finds nobody in the table under its own connection.        *)
LEMMA AcceptStep ==
    ASSUME IInv, NEW c \in Conn, Accept(c)
    PROVE  IInv'
  <1> DEFINE w == [id |-> NextId, open |-> TRUE, fd |-> FreeFd]
             same == {d \in Conn : peer[d].id = NextId}
  <1>1. /\ acceptor.pc = "accept" /\ life = "up" /\ client[c] = "absent"
        /\ \A d \in Conn : client[d] = "absent" <=> d >= c
        /\ client' = [client EXCEPT ![c] = "reading"]
        /\ acceptor' = [pc |-> "emplace", conn |-> c]
        /\ ids' = ids \cup {NextId}
        /\ peer' = [peer EXCEPT ![c] = w]
        /\ twins' = IF same = {} THEN twins ELSE twins \cup same \cup {c}
        /\ UNCHANGED << life, toClose, corrupt, peers, pc, mutex, cast, late >>
    <2>1. c >= c
      BY DEF Conn
    <2> QED BY <2>1 DEF Accept, Running, srvVars
  <1>2. /\ NextId \in Conn /\ FreeFd \in Conn
        /\ \A d \in Conn : peer[d].fd # FreeFd
    BY <1>1, NextNumbers DEF IInv, World
  <1>3. peer[c] = Closed /\ pc[c] = "none" /\ peer[c].id = 0 /\ ~ peer[c].open
    BY <1>1 DEF IInv, World, Sockets, Closed
  <1>4. w \in WsPeer /\ w.id = NextId /\ w.open /\ w.fd = FreeFd
        /\ w.id # 0 /\ w.fd # 0
    BY <1>2, WsAssumption DEF WsPeer, Conn
  <1> HIDE DEF w
  <1>5. /\ peer' \in [Conn -> WsPeer] /\ peer'[c] = w
        /\ \A d \in Conn : d # c => peer'[d] = peer[d]
    BY <1>1, <1>4 DEF IInv, World, Types
  <1>6. /\ client' \in [Conn -> {"absent", "reading", "stalled", "gone"}]
        /\ client'[c] = "reading"
        /\ \A d \in Conn : d # c => client'[d] = client[d]
    BY <1>1 DEF IInv, World, Types
  <1>7. c \notin same /\ twins \subseteq twins' /\ twins' \subseteq Conn
        /\ \A d \in same : d \in twins' /\ c \in twins'
    <2>1. c \notin same
      BY <1>2, <1>3 DEF Conn
    <2>2. same \subseteq Conn /\ twins \subseteq Conn
      BY DEF IInv, World, Types
    <2> HIDE DEF same
    <2> QED BY <2>1, <2>2, <1>1
  <1>8. \A d \in Conn : Emplacing(d)' <=> d = c
    BY <1>1 DEF Emplacing
  <1>9. \A d \in Conn : ~ Emplacing(d)
    BY <1>1 DEF Emplacing
  <1>10. \A i \in DOMAIN peers : peers[i] # c /\ peers[i] \in Conn
    BY <1>3 DEF IInv, World, Types, Table, Conn
  <1>11. Types'
    BY <1>1, <1>2, <1>5, <1>6, <1>7 DEF IInv, World, Types
  <1>12. Sockets'
    <2>1. \A d \in Conn : client'[d] = "absent" => peer'[d] = Closed /\ pc'[d] = "none"
      BY <1>1, <1>5, <1>6 DEF IInv, World, Sockets
    <2>2. acceptor'.conn = c /\ client'[c] # "absent" /\ pc'[c] = "none" /\ peer'[c].id # 0
      BY <1>1, <1>3, <1>4, <1>5, <1>6
    <2>3. \A d \in Conn : peer'[d].open <=> peer'[d].fd # 0
      BY <1>4, <1>5 DEF IInv, World, Sockets
    <2>4. \A d, e \in Conn : peer'[d].open /\ peer'[d].fd = peer'[e].fd => d = e
      BY <1>2, <1>4, <1>5 DEF IInv, World, Sockets
    <2>5. \A d \in Conn : pc'[d] = "erase" => ~ peer'[d].open
      BY <1>1, <1>3, <1>5 DEF IInv, World, Sockets
    <2> QED BY <2>1, <2>2, <2>3, <2>4, <2>5 DEF Sockets
  <1>13. Table'
    <2>1. \A i \in DOMAIN peers : /\ peer'[peers[i]].id = i /\ pc[peers[i]] # "done"
                                  /\ ~ Emplacing(peers[i])'
      BY <1>1, <1>5, <1>8, <1>10 DEF IInv, World, Table
    <2>2. \A i \in ids' : \E d \in Conn : peer'[d].id = i
      <3>1. ASSUME NEW i \in ids PROVE \E d \in Conn : peer'[d].id = i
        <4>1. PICK d \in Conn : peer[d].id = i
          BY DEF IInv, World, Table
        <4>2. d # c
          BY <1>3, <4>1 DEF IInv, World, Types, Conn
        <4> QED BY <4>1, <4>2, <1>5
      <3> QED BY <3>1, <1>1, <1>4, <1>5
    <2>3. ASSUME NEW d \in Conn, NEW e \in Conn, d # e,
                 peer'[d].id = peer'[e].id, peer'[d].id # 0
          PROVE  d \in twins'
      <3>1. CASE d = c
        <4>1. e \in same
          BY <2>3, <3>1, <1>4, <1>5
        <4> QED BY <4>1, <3>1, <1>7
      <3>2. CASE e = c
        <4>1. d \in same
          BY <2>3, <3>2, <1>4, <1>5
        <4> QED BY <4>1, <1>7
      <3>3. CASE d # c /\ e # c
        <4>1. d \in twins
          BY <2>3, <3>3, <1>5 DEF IInv, World, Table
        <4> QED BY <4>1, <1>7
      <3> QED BY <3>1, <3>2, <3>3
    <2>4. ASSUME NEW d \in Conn, peer'[d].open
          PROVE  d \in twins' \/ Emplacing(d)' \/ \E i \in DOMAIN peers : peers[i] = d
      BY <2>4, <1>1, <1>5, <1>7, <1>8, <1>9 DEF IInv, World, Table
    <2> QED BY <2>1, <2>2, <2>3, <2>4, <1>1 DEF Table
  <1>14. Stopping'
    BY <1>1 DEF Stopping
  <1>15. Casting'
    <2>1. ASSUME NEW k \in Kinds, NEW d \in cast.await[k]
          PROVE  /\ client'[d] # "absent" /\ ~ Emplacing(d)'
                 /\ peer'[d].open =>
                       \/ d \in twins'
                       \/ \E n \in DOMAIN cast.todo : cast.todo[n] = k
                       \/ cast.frame = k /\ (d \in cast.left \/ cast.fd = peer'[d].fd)
      <3>1. d \in Conn /\ client[d] # "absent" /\ d # c
        BY <1>1 DEF IInv, Casting, CastType, Kinds
      <3>2. peer'[d] = peer[d] /\ client'[d] = client[d] /\ ~ Emplacing(d)'
        BY <3>1, <1>5, <1>6, <1>8
      <3> QED BY <3>1, <3>2, <1>7 DEF IInv, Casting
    <2> QED BY <2>1, <1>1 DEF IInv, Casting, CastIdle
  <1> QED BY <1>11, <1>12, <1>13, <1>14, <1>15 DEF IInv, World

LEMMA EmplaceStep ==
    ASSUME IInv, Emplace
    PROVE  IInv'
  <1> DEFINE c == acceptor.conn
             j == peer[c].id
  <1>1. /\ acceptor.pc = "emplace" /\ life # "closing"
        /\ peers' = [i \in DOMAIN peers \cup {j} |-> IF i \in DOMAIN peers THEN peers[i] ELSE c]
        /\ late' = IF life = "up" THEN late ELSE late \cup {c}
        /\ acceptor' = [acceptor EXCEPT !.pc = "spawn"]
        /\ UNCHANGED << life, toClose, corrupt, ids, peer, pc, client, mutex, cast, twins >>
    BY DEF Emplace, PeersFree, Running, srvVars
  <1>2. /\ c \in Conn /\ client[c] # "absent" /\ pc[c] = "none" /\ j # 0
        /\ j \in 0 .. MaxConn /\ Emplacing(c)
    BY <1>1 DEF IInv, World, Types, Sockets, WsPeer, Emplacing
  <1>3. j \in Conn
    BY <1>2, WsAssumption DEF Conn
  <1>4. acceptor'.pc = "spawn" /\ acceptor'.conn = c
        /\ acceptor' \in [pc : {"off", "accept", "emplace", "spawn", "done"}, conn : Conn \cup {0}]
    BY <1>1 DEF IInv, World, Types
  <1> HIDE DEF c, j
  <1>5. /\ DOMAIN peers' = DOMAIN peers \cup {j}
        /\ \A i \in DOMAIN peers : peers'[i] = peers[i]
        /\ j \notin DOMAIN peers => peers'[j] = c
    BY <1>1
  <1>6. \A d : ~ Emplacing(d)'
    BY <1>4 DEF Emplacing
  <1>7. late \subseteq late' /\ late' \subseteq Conn /\ (life # "up" => c \in late')
    BY <1>1, <1>2 DEF IInv, World, Types
  <1>8. Types'
    BY <1>1, <1>2, <1>3, <1>4, <1>5, <1>7 DEF IInv, World, Types
  <1>9. Sockets'
    BY <1>1, <1>2, <1>4 DEF IInv, World, Sockets, c, j
  <1>10. Table'
    <2>1. \A i \in DOMAIN peers' : peer[peers'[i]].id = i /\ pc[peers'[i]] # "done"
      BY <1>2, <1>5 DEF IInv, World, Table, j
    <2>2. ASSUME NEW d \in Conn, peer[d].open, life # "stopped"
          PROVE  d \in twins \/ \E i \in DOMAIN peers' : peers'[i] = d
      <3>1. CASE \E i \in DOMAIN peers : peers[i] = d
        BY <3>1, <1>5
      <3>2. CASE Emplacing(d)
        <4>1. d = c
          BY <3>2 DEF Emplacing, c
        <4>2. CASE j \notin DOMAIN peers
          BY <4>1, <4>2, <1>5
        <4>3. CASE j \in DOMAIN peers
          <5>1. peers[j] \in Conn /\ peer[peers[j]].id = j /\ ~ Emplacing(peers[j])
            BY <4>3 DEF IInv, World, Types, Table
          <5>2. peers[j] # c
            BY <5>1, <1>2
          <5> QED BY <5>1, <5>2, <4>1, <1>2 DEF IInv, World, Table, j
        <4> QED BY <4>2, <4>3
      <3>3. CASE d \in twins
        BY <3>3
      <3> QED BY <3>1, <3>2, <3>3, <2>2 DEF IInv, World, Table
    <2>3. /\ \A i \in ids' : \E d \in Conn : peer'[d].id = i
          /\ \A d, e \in Conn : (d # e /\ peer'[d].id = peer'[e].id /\ peer'[d].id # 0) => d \in twins'
      BY <1>1 DEF IInv, World, Table
    <2>4. /\ \A i \in DOMAIN peers' : peer'[peers'[i]].id = i /\ pc'[peers'[i]] # "done"
          /\ life' # "stopped" => \A d \in Conn : peer'[d].open =>
                 d \in twins' \/ \E i \in DOMAIN peers' : peers'[i] = d
      BY <1>1, <2>1, <2>2
    <2> QED BY <1>6, <2>3, <2>4 DEF Table
  <1>11. Stopping'
    <2>1. ASSUME life = "joining", NEW i \in DOMAIN peers', peer[peers'[i]].open
          PROVE  peers'[i] \in late'
      <3>1. CASE i \in DOMAIN peers
        BY <2>1, <3>1, <1>5, <1>7 DEF IInv, World, Stopping
      <3>2. CASE i \notin DOMAIN peers
        BY <2>1, <3>2, <1>5, <1>7
      <3> QED BY <3>1, <3>2
    <2>2. life \notin {"new", "stopped"}
      BY <1>1 DEF IInv, World, Stopping
    <2> QED BY <2>1, <2>2, <1>1 DEF Stopping
  <1>12. Casting'
    BY <1>1, <1>6, SameCasting DEF IInv, Casting
  <1> QED BY <1>8, <1>9, <1>10, <1>11, <1>12 DEF IInv, World

LEMMA SpawnStep ==
    ASSUME IInv, Spawn
    PROVE  IInv'
  <1> DEFINE c == acceptor.conn
  <1>1. /\ acceptor.pc = "spawn" /\ pc' = [pc EXCEPT ![c] = "handshake"]
        /\ acceptor' = [pc |-> "accept", conn |-> 0] /\ corrupt' \in BOOLEAN
        /\ UNCHANGED << life, toClose, ids, peers, peer, client, mutex, cast, twins, late >>
    BY DEF Spawn
  <1>2. c \in Conn /\ client[c] # "absent" /\ pc[c] = "none"
    BY <1>1 DEF IInv, World, Sockets
  <1> HIDE DEF c
  <1>3. /\ pc'[c] = "handshake" /\ \A d \in Conn : d # c => pc'[d] = pc[d]
        /\ pc' \in [Conn -> Frames \cup {"none", "handshake", "recv", "publish", "erase", "done"}]
    BY <1>1, <1>2 DEF IInv, World, Types
  <1>4. \A d : ~ Emplacing(d)' /\ ~ Emplacing(d)
    BY <1>1 DEF Emplacing
  <1>5. Types'
    BY <1>1, <1>3 DEF IInv, World, Types
  <1>6. Sockets'
    BY <1>1, <1>2, <1>3 DEF IInv, World, Sockets
  <1>7. Table'
    <2>1. \A i \in DOMAIN peers : peer[peers[i]].id = i /\ pc'[peers[i]] # "done"
      BY <1>3 DEF IInv, World, Types, Table
    <2> QED BY <2>1, <1>1, <1>4 DEF IInv, World, Table
  <1>8. Stopping'
    BY <1>1 DEF IInv, World, Stopping
  <1>9. mutex # 0 => pc'[mutex] = "publish"
    BY <1>2, <1>3 DEF IInv, World, Types, Casting
  <1>10. Casting'
    BY <1>1, <1>4, <1>9, SameCasting
  <1> QED BY <1>5, <1>6, <1>7, <1>8, <1>10 DEF IInv, World

LEMMA AcceptEndStep ==
    ASSUME IInv, AcceptEnd
    PROVE  IInv'
  <1>1. /\ acceptor.pc = "accept" /\ acceptor'.pc = "done"
        /\ acceptor' \in [pc : {"off", "accept", "emplace", "spawn", "done"}, conn : Conn \cup {0}]
        /\ UNCHANGED << srvVars, ids, peers, peer, pc, client, mutex, cast, twins, late >>
    BY DEF AcceptEnd, IInv, World, Types
  <1>2. \A d : ~ Emplacing(d)' /\ ~ Emplacing(d)
    BY <1>1 DEF Emplacing
  <1>3. Types'
    BY <1>1 DEF IInv, World, Types, srvVars
  <1>4. Sockets'
    BY <1>1 DEF IInv, World, Sockets
  <1>5. Table'
    BY <1>1, <1>2 DEF IInv, World, Table, srvVars
  <1>6. Stopping'
    BY <1>1 DEF IInv, World, Stopping, Alive, srvVars
  <1>7. Casting'
    BY <1>1, <1>2, SameCasting DEF IInv, Casting
  <1> QED BY <1>3, <1>4, <1>5, <1>6, <1>7 DEF IInv, World

(* cleanup may erase the entry of another peer, which then is a twin.      *)
LEMMA EraseStep ==
    ASSUME IInv, NEW c \in Conn, Erase(c)
    PROVE  IInv'
  <1> DEFINE j == peer[c].id
  <1>1. /\ pc[c] = "erase" /\ life # "closing"
        /\ peers' = [i \in DOMAIN peers \ {j} |-> peers[i]]
        /\ ids' = ids \ {j}
        /\ pc' = [pc EXCEPT ![c] = "done"]
        /\ peer' = [peer EXCEPT ![c] = Closed]
        /\ twins' = twins \ {c} /\ late' = late \ {c}
        /\ UNCHANGED << life, toClose, corrupt, acceptor, client, mutex, cast >>
    BY DEF Erase, PeersFree, srvVars
  <1>2. ~ peer[c].open /\ client[c] # "absent" /\ life # "stopped"
        /\ (acceptor.pc \in {"emplace", "spawn"} => acceptor.conn # c)
    BY <1>1 DEF IInv, World, Sockets, Stopping, Alive
  <1> HIDE DEF j
  <1>3. /\ DOMAIN peers' = DOMAIN peers \ {j}
        /\ \A i \in DOMAIN peers' : peers'[i] = peers[i]
    BY <1>1
  <1>4. Closed \in WsPeer /\ Closed.id = 0 /\ ~ Closed.open /\ Closed.fd = 0
    BY WsAssumption DEF Closed, WsPeer
  <1>5. /\ peer' \in [Conn -> WsPeer] /\ peer'[c] = Closed
        /\ \A d \in Conn : d # c => peer'[d] = peer[d]
    BY <1>1, <1>4 DEF IInv, World, Types
  <1>6. /\ pc'[c] = "done" /\ \A d \in Conn : d # c => pc'[d] = pc[d]
        /\ pc' \in [Conn -> Frames \cup {"none", "handshake", "recv", "publish", "erase", "done"}]
    BY <1>1 DEF IInv, World, Types
  <1>7. \A i \in DOMAIN peers' : peers'[i] # c /\ peers'[i] \in Conn
    BY <1>3 DEF IInv, World, Types, Table, j
  <1>8. \A d : Emplacing(d)' <=> Emplacing(d)
    BY <1>1 DEF Emplacing
  <1>9. Types'
    BY <1>1, <1>3, <1>5, <1>6, <1>7 DEF IInv, World, Types
  <1>10. Sockets'
    <2>1. \A d \in Conn : client[d] = "absent" => peer'[d] = Closed /\ pc'[d] = "none"
      BY <1>2, <1>5, <1>6 DEF IInv, World, Sockets
    <2>2. acceptor.pc \in {"emplace", "spawn"} =>
              /\ acceptor.conn \in Conn /\ client[acceptor.conn] # "absent"
              /\ pc'[acceptor.conn] = "none" /\ peer'[acceptor.conn].id # 0
      BY <1>2, <1>5, <1>6 DEF IInv, World, Sockets
    <2>3. \A d \in Conn : peer'[d].open <=> peer'[d].fd # 0
      BY <1>4, <1>5 DEF IInv, World, Sockets
    <2>4. \A d, e \in Conn : peer'[d].open /\ peer'[d].fd = peer'[e].fd => d = e
      BY <1>4, <1>5, <2>3 DEF IInv, World, Sockets
    <2>5. \A d \in Conn : pc'[d] = "erase" => ~ peer'[d].open
      BY <1>5, <1>6 DEF IInv, World, Sockets
    <2> QED BY <2>1, <2>2, <2>3, <2>4, <2>5, <1>1 DEF Sockets
  <1>11. Table'
    <2>1. \A i \in DOMAIN peers' : /\ peer'[peers'[i]].id = i /\ pc'[peers'[i]] # "done"
                                   /\ ~ Emplacing(peers'[i])
      BY <1>3, <1>5, <1>6, <1>7 DEF IInv, World, Table
    <2>2. ASSUME NEW i \in ids' PROVE \E d \in Conn : peer'[d].id = i
      <3>1. PICK d \in Conn : peer[d].id = i
        BY <1>1 DEF IInv, World, Table
      <3>2. d # c
        BY <3>1, <1>1 DEF j
      <3> QED BY <3>1, <3>2, <1>5
    <2>3. ASSUME NEW d \in Conn, NEW e \in Conn, d # e,
                 peer'[d].id = peer'[e].id, peer'[d].id # 0
          PROVE  d \in twins'
      <3>1. d # c /\ e # c
        BY <2>3, <1>4, <1>5
      <3> QED BY <2>3, <3>1, <1>1, <1>5 DEF IInv, World, Table
    <2>4. ASSUME NEW d \in Conn, peer'[d].open
          PROVE  d \in twins' \/ Emplacing(d) \/ \E i \in DOMAIN peers' : peers'[i] = d
      <3>1. d # c /\ peer[d].open
        BY <2>4, <1>4, <1>5
      <3>2. CASE d \in twins \/ Emplacing(d)
        BY <3>1, <3>2, <1>1
      <3>3. ASSUME NEW i \in DOMAIN peers, peers[i] = d
            PROVE  d \in twins' \/ \E k \in DOMAIN peers' : peers'[k] = d
        <4>1. CASE i # j
          BY <4>1, <3>3, <1>3
        <4>2. CASE i = j
          <5>1. peer[d].id = peer[c].id /\ peer[d].id # 0
            BY <4>2, <3>3 DEF IInv, World, Types, Table, Conn, j
          <5>2. d \in twins
            BY <5>1, <3>1 DEF IInv, World, Table
          <5> QED BY <5>2, <3>1, <1>1
        <4> QED BY <4>1, <4>2
      <3> QED BY <3>1, <3>2, <3>3, <1>2 DEF IInv, World, Table
    <2> QED BY <2>1, <2>2, <2>3, <2>4, <1>8 DEF Table
  <1>12. Stopping'
    <2>1. ASSUME life = "joining", NEW i \in DOMAIN peers', peer'[peers'[i]].open
          PROVE  peers'[i] \in late'
      BY <2>1, <1>1, <1>3, <1>5, <1>7 DEF IInv, World, Stopping
    <2>2. life = "new" => acceptor.pc = "off"
      BY DEF IInv, World, Stopping
    <2> QED BY <2>1, <2>2, <1>1, <1>2 DEF Stopping
  <1>13. Casting'
    <2>1. ASSUME NEW k \in Kinds, NEW d \in cast.await[k]
          PROVE  /\ client[d] # "absent" /\ ~ Emplacing(d)
                 /\ peer'[d].open =>
                       \/ d \in twins'
                       \/ \E n \in DOMAIN cast.todo : cast.todo[n] = k
                       \/ cast.frame = k /\ (d \in cast.left \/ cast.fd = peer'[d].fd)
      <3>1. d \in Conn
        BY DEF IInv, Casting, CastType, Kinds
      <3>2. CASE d = c
        BY <3>1, <3>2, <1>4, <1>5 DEF IInv, Casting
      <3>3. CASE d # c
        <4>1. peer'[d] = peer[d] /\ (d \in twins => d \in twins')
          BY <3>1, <3>3, <1>1, <1>5
        <4> QED BY <4>1 DEF IInv, Casting
      <3> QED BY <3>2, <3>3
    <2>2. mutex # 0 => pc'[mutex] = "publish"
      BY <1>1, <1>6 DEF IInv, World, Types, Casting
    <2> QED BY <2>1, <2>2, <1>1, <1>8 DEF IInv, Casting, CastIdle
  <1> QED BY <1>9, <1>10, <1>11, <1>12, <1>13 DEF IInv, World

(* stop takes the table as it is; nobody enters or leaves it until stop    *)
(* has closed them all.                                                    *)
LEMMA StopSteps ==
    ASSUME IInv, StopBegin \/ StopUnlock \/ StopEnd
    PROVE  IInv'
  <1>1. /\ UNCHANGED << corrupt, acceptor, peer, pc, client, mutex, cast, twins, late >>
        /\ life' \in {"closing", "joining", "stopped"}
        /\ life # "stopped"
    BY DEF StopBegin, StopUnlock, StopEnd, tblVars, Running
  <1>2. Casting'
    BY <1>1, SameCasting DEF IInv, Casting, Emplacing
  <1>3. Sockets'
    BY <1>1 DEF IInv, World, Sockets
  <1>4. CASE StopBegin
    <2>1. /\ life' = "closing" /\ toClose' = Range(peers) /\ UNCHANGED << ids, peers >>
      BY <1>4 DEF StopBegin, tblVars
    <2>2. Types'
      BY <1>1, <2>1 DEF IInv, World, Types, Range
    <2>3. Table'
      BY <1>1, <2>1 DEF IInv, World, Table, Emplacing
    <2>4. Stopping'
      BY <1>1, <2>1 DEF Stopping, Range
    <2> QED BY <1>2, <1>3, <2>2, <2>3, <2>4 DEF IInv, World
  <1>5. CASE StopUnlock
    <2>1. /\ life = "closing" /\ life' = "joining" /\ toClose = {}
          /\ UNCHANGED << toClose, ids, peers >>
      BY <1>5 DEF StopUnlock, tblVars
    <2>2. Types'
      BY <1>1, <2>1 DEF IInv, World, Types
    <2>3. Table'
      BY <1>1, <2>1 DEF IInv, World, Table, Emplacing
    <2>4. Stopping'
      BY <1>1, <2>1 DEF IInv, World, Stopping
    <2> QED BY <1>2, <1>3, <2>2, <2>3, <2>4 DEF IInv, World
  <1>6. CASE StopEnd
    <2>1. /\ life' = "stopped" /\ DOMAIN peers' = {} /\ ids' = {} /\ toClose' = toClose
          /\ acceptor.pc = "done" /\ \A c \in Conn : ~ Alive(c)
      BY <1>6 DEF StopEnd
    <2>2. Types'
      BY <1>1, <2>1 DEF IInv, World, Types
    <2>3. Table'
      BY <1>1, <2>1 DEF IInv, World, Table
    <2>4. Stopping'
      BY <1>1, <2>1 DEF Stopping, Alive
    <2> QED BY <1>2, <1>3, <2>2, <2>3, <2>4 DEF IInv, World
  <1> QED BY <1>4, <1>5, <1>6

-----------------------------------------------------------------------------

LEMMA InitIInv == Init => IInv
  <1> SUFFICES ASSUME Init PROVE IInv
    OBVIOUS
  <1>1. 0 \in 0 .. MaxConn
    BY WsAssumption
  <1>2. Closed \in WsPeer /\ Closed.id = 0 /\ ~ Closed.open /\ Closed.fd = 0
    BY <1>1 DEF Closed, WsPeer
  <1>3. \A c \in Conn : peer[c] = Closed /\ pc[c] = "none"
    BY DEF Init
  <1>4. Types
    BY <1>2 DEF Init, Types
  <1>5. Sockets
    BY <1>2, <1>3 DEF Init, Sockets
  <1>6. Table
    BY <1>2, <1>3 DEF Init, Table
  <1>7. Stopping
    BY DEF Init, Stopping
  <1>8. Casting
    BY <1>1 DEF Init, Casting, CastType, NoCast, CastIdle, Kinds
  <1> QED BY <1>4, <1>5, <1>6, <1>7, <1>8 DEF IInv, World

LEMMA NextIInv ==
    ASSUME IInv, [Next]_vars
    PROVE  IInv'
  <1>1. CASE UNCHANGED vars
    BY <1>1 DEF vars, srvVars, tblVars, IInv, World, Types, Sockets, Table, Stopping,
                Casting, Emplacing, Alive, CastIdle
  <1>2. CASE Start
    BY <1>2, StartStep
  <1>3. CASE StopBegin \/ StopUnlock \/ StopEnd
    BY <1>3, StopSteps
  <1>4. CASE Emplace
    BY <1>4, EmplaceStep
  <1>5. CASE Spawn
    BY <1>5, SpawnStep
  <1>6. CASE AcceptEnd
    BY <1>6, AcceptEndStep
  <1>7. CASE Snapshot
    BY <1>7, SnapshotStep
  <1>8. CASE Send
    BY <1>8, SendStep
  <1>9. ASSUME NEW c \in Conn, Choose(c) PROVE IInv'
    BY <1>9, ChooseStep
  <1>10. ASSUME NEW c \in Conn, Leave(c) \/ Stall(c) \/ StopClose(c) PROVE IInv'
    BY <1>10, OutsideSteps
  <1>11. ASSUME NEW c \in Conn, Accept(c) PROVE IInv'
    BY <1>11, AcceptStep
  <1>12. ASSUME NEW c \in Conn,
                \/ Handshake(c) \/ HandshakeFails(c) \/ Eof(c) \/ AnswerClose(c)
                \/ Cancel(c) \/ Reply(c) \/ \E kind \in Frames : Receive(c, kind)
         PROVE  IInv'
    BY <1>12, ServeSteps
  <1>13. ASSUME NEW c \in Conn, Erase(c) PROVE IInv'
    BY <1>13, EraseStep
  <1>14. ASSUME NEW c \in Conn, NEW outcome \in {"refused", "rested", "filled"},
                Submit(c, outcome)
         PROVE  IInv'
    BY <1>14, SubmitStep
  <1>15. ASSUME NEW c \in Conn, Result(c) PROVE IInv'
    BY <1>15, ResultStep
  <1> QED BY <1>1, <1>2, <1>3, <1>4, <1>5, <1>6, <1>7, <1>8, <1>9, <1>10, <1>11,
             <1>12, <1>13, <1>14, <1>15
          DEF Next, AcceptThread, Broadcast, Stop, Input, Thread

(* The inductive invariant of the server, for any number of connections.   *)
THEOREM Invariant == Spec => []IInv
  <1>1. Init => IInv
    BY InitIInv
  <1>2. IInv /\ [Next]_vars => IInv'
    BY NextIInv
  <1> QED BY <1>1, <1>2, PTL DEF Spec

(* The table of peers never names a connection that has been cleaned up or *)
(* that has another id, in spite of ids that are given twice and erased by *)
(* whoever ends first.                                                     *)
THEOREM NoGhosts == Spec => []NoGhostPeers
  <1>1. IInv => NoGhostPeers
    <2> SUFFICES ASSUME IInv PROVE NoGhostPeers
      OBVIOUS
    <2>1. mutex # 0 <=> \E c \in Conn : c = mutex /\ pc[c] = "publish"
      BY DEF IInv, World, Types, Casting, Conn
    <2>2. TypeOK
      BY <2>1 DEF IInv, World, Types, Sockets, TypeOK, WsPeer, Range
    <2> QED BY <2>2 DEF IInv, World, Table, NoGhostPeers
  <1> QED BY <1>1, Invariant, PTL

(* When the result of a submission is sent, everybody who was in the table *)
(* has been sent what it published, except twins and who has been closed.  *)
THEOREM AllTold == Spec => []ToldBeforeResult
  <1>1. IInv => ToldBeforeResult
    <2> SUFFICES ASSUME IInv, mutex # 0, CastIdle, cast.todo = << >>,
                        NEW c \in cast.await.trade \cup cast.await.tob, peer[c].open
                 PROVE  c \in twins
      BY DEF ToldBeforeResult
    <2>1. PICK k \in Kinds : c \in cast.await[k]
      BY DEF Kinds
    <2>2. c \in Conn
      BY DEF IInv, Casting, CastType
    <2>3. peer[c].fd # 0
      BY <2>2 DEF IInv, World, Sockets
    <2>4. ~ \E n \in DOMAIN cast.todo : cast.todo[n] = k
      OBVIOUS
    <2> QED BY <2>1, <2>3, <2>4 DEF IInv, Casting, CastIdle
  <1> QED BY <1>1, Invariant, PTL

(* Whom stop leaves open has a twin, or came while stop began.             *)
THEOREM OnlyTheseMissed == Spec => []StopMisses
  <1>1. IInv => StopMisses
    <2> SUFFICES ASSUME IInv, life = "joining", NEW c \in Conn, peer[c].open
                 PROVE  c \in twins \cup late \cup {acceptor.conn}
      BY DEF StopMisses
    <2>1. c \in twins \/ Emplacing(c) \/ \E i \in DOMAIN peers : peers[i] = c
      BY DEF IInv, World, Table
    <2>2. (\E i \in DOMAIN peers : peers[i] = c) => c \in late
      BY DEF IInv, World, Stopping
    <2> QED BY <2>1, <2>2 DEF Emplacing
  <1> QED BY <1>1, Invariant, PTL
=============================================================================

------------------------------ MODULE WsServer ------------------------------
(***************************************************************************)
(* The WebSocket server with its command gateway (ws_server.hpp,           *)
(* ws_server.cpp, ws_gateway.cpp): an accept thread, a thread per peer,    *)
(* the table of peers, the broadcasts that the market data publisher makes *)
(* on the thread of a submitting peer, and stop on the thread of the       *)
(* program.  The engine is seen through what a submission publishes.       *)
(*                                                                         *)
(* A step is what a thread does between two points at which another thread *)
(* can tell the difference.  peers_mtx_ is held across steps by stop alone *)
(* and engine_mtx_ is the variable mutex.  A socket is a number, which is  *)
(* given to a later connection once it has been closed.                    *)
(***************************************************************************)
EXTENDS Naturals, Sequences, FiniteSets, Functions, FiniteSetsExt

CONSTANTS
    MaxConn,       \* bound: the connections ever made
    Trading,       \* the connections whose client sends frames
    Stalling       \* the connections whose client may stop reading

ASSUME WsAssumption ==
    /\ MaxConn \in Nat \ {0}
    /\ Trading \subseteq 1 .. MaxConn
    /\ Stalling \subseteq 1 .. MaxConn

Conn == 1 .. MaxConn

VARIABLES
    life,        \* of the server: start, and the stages of stop
    toClose,     \* the peers that stop has still to close
    corrupt,     \* threads_ was changed while stop iterated over it
    acceptor,    \* the accept thread: where it is and whom it accepts
    ids,         \* peer_ids_
    peers,       \* peers_: id -> connection
    peer,        \* the WsPeer of every connection: id_, open_ and fd_
    pc,          \* where the thread of serve_peer is
    client,      \* the other end of the socket
    mutex,       \* engine_mtx_: the connection that holds it, or 0
    cast,        \* what the submission under the mutex publishes
    twins,       \* history: peers that shared their id with another
    late         \* history: peers that entered peers_ behind stop

srvVars == << life, toClose, corrupt >>
tblVars == << acceptor, ids, peers >>
vars == << srvVars, tblVars, peer, pc, client, mutex, cast, twins, late >>

-----------------------------------------------------------------------------

Running == life = "up"

(* Mutant: stop keeps peers_mtx_ until it has joined the threads.          *)
PeersFreeAfterStop == life \notin {"closing", "joining"}

(* peers_mtx_ is free: stop holds it while it closes the peers.            *)
PeersFree == life # "closing"

Alive(c) == pc[c] \notin {"none", "done"}

Closed == [id |-> 0, open |-> FALSE, fd |-> 0]

(* The lowest number that is not in use, as the kernel gives it.           *)
FreeFd == Min((1 .. MaxConn) \ {peer[c].fd : c \in Conn})

(* A send on the socket of c waits for a client that does not read.        *)
Blocked(c) == peer[c].open /\ client[c] = "stalled"

(* close_internal; the client of a closed socket is as good as gone.       *)
CloseInternal(c) ==
    /\ peer' = [peer EXCEPT ![c].open = FALSE, ![c].fd = 0]
    /\ client' = [client EXCEPT ![c] = "gone"]

(* A submission publishes the frames todo, of which frame is being sent:   *)
(* fd is the socket send_text is about to write to, left are the peers of  *)
(* the snapshot after it.  await is history: of the peers in the table     *)
(* when the submission began, those that have not received the last frame, *)
(* and the submitter as long as it has not received its trade.             *)
NoCast == [todo |-> << >>, frame |-> "none", fd |-> 0, left |-> {},
           await |-> [trade |-> {}, tob |-> {}]]

Init ==
    /\ life = "new"
    /\ toClose = {}
    /\ corrupt = FALSE
    /\ acceptor = [pc |-> "off", conn |-> 0]
    /\ ids = {}
    /\ peers = [i \in {} |-> 0]
    /\ peer = [c \in Conn |-> Closed]
    /\ pc = [c \in Conn |-> "none"]
    /\ client = [c \in Conn |-> "absent"]
    /\ mutex = 0
    /\ cast = NoCast
    /\ twins = {}
    /\ late = {}

Start ==
    /\ life = "new"
    /\ life' = "up"
    /\ acceptor' = [pc |-> "accept", conn |-> 0]
    /\ UNCHANGED << toClose, corrupt, ids, peers, peer, pc, client, mutex, cast, twins, late >>

-----------------------------------------------------------------------------
(* Clients.                                                                *)

(* The client goes away, also without a word.                              *)
Leave(c) ==
    /\ client[c] \in {"reading", "stalled"}
    /\ client' = [client EXCEPT ![c] = "gone"]
    /\ UNCHANGED << srvVars, tblVars, peer, pc, mutex, cast, twins, late >>

(* The client stays and no longer takes what is sent to it.                *)
Stall(c) ==
    /\ c \in Stalling
    /\ client[c] = "reading"
    /\ client' = [client EXCEPT ![c] = "stalled"]
    /\ UNCHANGED << srvVars, tblVars, peer, pc, mutex, cast, twins, late >>

-----------------------------------------------------------------------------
(* accept_loop.                                                            *)

NextId == Cardinality(ids) + 1

(* accept returns the next connection, which gets the number of ids plus   *)
(* one as its id, although another peer may have it.                       *)
Accept(c) ==
    /\ acceptor.pc = "accept"
    /\ Running
    /\ \A d \in Conn : client[d] = "absent" <=> d >= c
    /\ client' = [client EXCEPT ![c] = "reading"]
    /\ acceptor' = [pc |-> "emplace", conn |-> c]
    /\ ids' = ids \cup {NextId}
    /\ peer' = [peer EXCEPT ![c] = [id |-> NextId, open |-> TRUE, fd |-> FreeFd]]
    /\ LET same == {d \in Conn : peer[d].id = NextId}
       IN  twins' = IF same = {} THEN twins ELSE twins \cup same \cup {c}
    /\ UNCHANGED << srvVars, peers, pc, mutex, cast, late >>

(* emplace leaves the entry of an id that is in the table as it is.        *)
Emplace ==
    /\ acceptor.pc = "emplace"
    /\ PeersFree
    /\ LET c == acceptor.conn
       IN  /\ peers' = [i \in DOMAIN peers \cup {peer[c].id} |->
                            IF i \in DOMAIN peers THEN peers[i] ELSE c]
           /\ late' = IF Running THEN late ELSE late \cup {c}
    /\ acceptor' = [acceptor EXCEPT !.pc = "spawn"]
    /\ UNCHANGED << srvVars, ids, peer, pc, client, mutex, cast, twins >>

(* threads_.emplace_back, which may move the threads that stop is joining  *)
(* by now: it joins that of accept_loop first.                             *)
Spawn ==
    /\ acceptor.pc = "spawn"
    /\ pc' = [pc EXCEPT ![acceptor.conn] = "handshake"]
    /\ acceptor' = [pc |-> "accept", conn |-> 0]
    /\ corrupt' \in {FALSE, life = "joining"}
    /\ UNCHANGED << life, toClose, ids, peers, peer, client, mutex, cast, twins, late >>

(* accept fails once stop has closed the listening socket.                 *)
AcceptEnd ==
    /\ acceptor.pc = "accept"
    /\ ~ Running
    /\ acceptor' = [acceptor EXCEPT !.pc = "done"]
    /\ UNCHANGED << srvVars, ids, peers, peer, pc, client, mutex, cast, twins, late >>

-----------------------------------------------------------------------------
(* serve_peer.                                                             *)

Others == UNCHANGED << srvVars, tblVars, twins, late >>

Frames == {"submit", "cancel", "ping", "close"}

(* What follows a frame: the condition of the frame loop and the next      *)
(* recv, or the end of the loop and the first half of cleanup.  A frame    *)
(* that came with the last one is handled without looking at the           *)
(* condition; since the model lets a frame arrive at any time, that is no  *)
(* different until the socket is closed.                                   *)
Continue(c) ==
    \/ /\ Running
       /\ peer[c].open
       /\ pc' = [pc EXCEPT ![c] = "recv"]
       /\ UNCHANGED << peer, client >>
    \/ /\ ~ (Running /\ peer[c].open)
       /\ pc' = [pc EXCEPT ![c] = "erase"]
       /\ CloseInternal(c)

(* The upgrade request arrives and is answered.                            *)
Handshake(c) ==
    /\ pc[c] = "handshake"
    /\ peer[c].open
    /\ client[c] = "reading"
    /\ pc' = [pc EXCEPT ![c] = IF Running THEN "recv" ELSE "erase"]
    /\ IF Running THEN UNCHANGED << peer, client >> ELSE CloseInternal(c)
    /\ UNCHANGED << mutex, cast >>
    /\ Others

(* Mutant: a path out of the handshake that forgets cleanup.               *)
HandshakeFailsReturns(c) ==
    /\ pc[c] = "handshake"
    /\ peer[c].open
    /\ client[c] = "reading"
    /\ pc' = [pc EXCEPT ![c] = "done"]
    /\ peer' = [peer EXCEPT ![c] = Closed]
    /\ UNCHANGED << client, mutex, cast >>
    /\ Others

(* The request is too long, not a GET or has no key.                       *)
HandshakeFails(c) ==
    /\ pc[c] = "handshake"
    /\ peer[c].open
    /\ client[c] = "reading"
    /\ pc' = [pc EXCEPT ![c] = "erase"]
    /\ CloseInternal(c)
    /\ UNCHANGED << mutex, cast >>
    /\ Others

(* recv ends: the client is gone, or stop has shut the socket.             *)
Eof(c) ==
    /\ pc[c] \in {"handshake", "recv"}
    /\ client[c] = "gone"
    /\ pc' = [pc EXCEPT ![c] = "erase"]
    /\ CloseInternal(c)
    /\ UNCHANGED << mutex, cast >>
    /\ Others

(* A frame arrives.  modify is served as cancel is and a ping frame as the *)
(* ping command; other frames are not for the gateway.                     *)
Receive(c, kind) ==
    /\ pc[c] = "recv"
    /\ client[c] \in {"reading", "stalled"}
    /\ c \in Trading
    /\ pc' = [pc EXCEPT ![c] = kind]
    /\ UNCHANGED << peer, client, mutex, cast >>
    /\ Others

(* A close frame is answered and the socket closed, which ends the loop.   *)
AnswerClose(c) ==
    /\ pc[c] = "close"
    /\ ~ Blocked(c)
    /\ pc' = [pc EXCEPT ![c] = "erase"]
    /\ CloseInternal(c)
    /\ UNCHANGED << mutex, cast >>
    /\ Others

(* engine_.cancel or engine_.modify, which publish nothing; the reply is   *)
(* sent after the mutex is released, like that to a ping.                  *)
Cancel(c) ==
    /\ pc[c] = "cancel"
    /\ mutex = 0
    /\ pc' = [pc EXCEPT ![c] = "ping"]
    /\ UNCHANGED << peer, client, mutex, cast >>
    /\ Others

Reply(c) ==
    /\ pc[c] = "ping"
    /\ ~ Blocked(c)
    /\ Continue(c)
    /\ UNCHANGED << mutex, cast >>
    /\ Others

(* The second half of cleanup erases the id from both tables, whosever     *)
(* entry that is.                                                          *)
Erase(c) ==
    /\ pc[c] = "erase"
    /\ PeersFree
    /\ peers' = [i \in DOMAIN peers \ {peer[c].id} |-> peers[i]]
    /\ ids' = ids \ {peer[c].id}
    /\ pc' = [pc EXCEPT ![c] = "done"]
    /\ peer' = [peer EXCEPT ![c] = Closed]
    /\ twins' = twins \ {c}
    /\ late' = late \ {c}
    /\ UNCHANGED << srvVars, acceptor, client, mutex, cast >>

-----------------------------------------------------------------------------
(* on_submit: the engine runs under the mutex, and its sink publishes.     *)

(* Mutant: an order that rests does not refresh the top of book.           *)
PublicationsOfTrades(outcome) ==
    IF outcome = "filled" THEN << "trade", "tob" >> ELSE << >>

(* What listeners are told of a submission: of a refused one nothing, of   *)
(* one that rests the top of book, of one that trades the trade and the    *)
(* top of book (twice in the code, after the trade and with the result).   *)
Publications(outcome) ==
    CASE outcome = "refused" -> << >>
      [] outcome = "rested" -> << "tob" >>
      [] outcome = "filled" -> << "trade", "tob" >>

Submit(c, outcome) ==
    /\ pc[c] = "submit"
    /\ mutex = 0
    /\ mutex' = c
    /\ cast' = [NoCast EXCEPT
                    !.todo = Publications(outcome),
                    !.await.tob = IF outcome = "refused" THEN {} ELSE Range(peers),
                    !.await.trade = IF outcome = "filled" THEN {c} ELSE {}]
    /\ pc' = [pc EXCEPT ![c] = "publish"]
    /\ UNCHANGED << peer, client >>
    /\ Others

CastIdle == cast.left = {} /\ cast.fd = 0

(* broadcast_text takes a snapshot of the peers ...                        *)
Snapshot ==
    /\ CastIdle
    /\ cast.todo # << >>
    /\ PeersFree
    /\ cast' = [cast EXCEPT !.todo = Tail(@), !.frame = Head(cast.todo), !.left = Range(peers)]
    /\ UNCHANGED << peer, pc, client, mutex >>
    /\ Others

(* ... send_text looks whether the next is open ...                        *)
Choose(c) ==
    /\ cast.fd = 0
    /\ c \in cast.left
    /\ cast' = [cast EXCEPT !.left = @ \ {c}, !.fd = peer[c].fd]
    /\ UNCHANGED << peer, pc, client, mutex >>
    /\ Others

(* ... and sends to whoever owns the number of the socket by then.         *)
Send ==
    /\ cast.fd # 0
    /\ LET owner == {c \in Conn : peer[c].fd = cast.fd}
       IN  /\ \A c \in owner : ~ Blocked(c)
           /\ cast' = [cast EXCEPT !.fd = 0, !.await[cast.frame] = @ \ owner]
    /\ UNCHANGED << peer, pc, client, mutex >>
    /\ Others

(* Mutant: a peer that was closed keeps the mutex.                         *)
ResultIfOpen(c) ==
    /\ pc[c] = "publish"
    /\ CastIdle
    /\ cast.todo = << >>
    /\ peer[c].open
    /\ ~ Blocked(c)
    /\ mutex' = 0
    /\ cast' = NoCast
    /\ Continue(c)
    /\ Others

(* The result is sent to the submitter, then the mutex is released.        *)
Result(c) ==
    /\ pc[c] = "publish"
    /\ CastIdle
    /\ cast.todo = << >>
    /\ ~ Blocked(c)
    /\ mutex' = 0
    /\ cast' = NoCast
    /\ Continue(c)
    /\ Others

-----------------------------------------------------------------------------
(* stop.                                                                   *)

(* Mutant: only the peers that have shaken hands are closed.               *)
StopBeginServed ==
    /\ Running
    /\ life' = "closing"
    /\ toClose' = {c \in Range(peers) : pc[c] # "handshake"}
    /\ UNCHANGED << corrupt, tblVars, peer, pc, client, mutex, cast, twins, late >>

(* running_ is cleared, the listening socket closed and peers_mtx_ taken.  *)
StopBegin ==
    /\ Running
    /\ life' = "closing"
    /\ toClose' = Range(peers)
    /\ UNCHANGED << corrupt, tblVars, peer, pc, client, mutex, cast, twins, late >>

(* close(1001) sends a close frame before it shuts the socket.             *)
StopClose(c) ==
    /\ c \in toClose
    /\ ~ Blocked(c)
    /\ CloseInternal(c)
    /\ toClose' = toClose \ {c}
    /\ UNCHANGED << life, corrupt, tblVars, pc, mutex, cast, twins, late >>

(* peers_mtx_ is released, then the threads are joined one by one.         *)
StopUnlock ==
    /\ life = "closing"
    /\ toClose = {}
    /\ life' = "joining"
    /\ UNCHANGED << toClose, corrupt, tblVars, peer, pc, client, mutex, cast, twins, late >>

(* All have ended: the tables are cleared and the listener unsubscribed.   *)
StopEnd ==
    /\ life = "joining"
    /\ acceptor.pc = "done"
    /\ \A c \in Conn : ~ Alive(c)
    /\ life' = "stopped"
    /\ peers' = [i \in {} |-> 0]
    /\ ids' = {}
    /\ UNCHANGED << toClose, corrupt, acceptor, peer, pc, client, mutex, cast, twins, late >>

-----------------------------------------------------------------------------

AcceptThread == Emplace \/ Spawn \/ AcceptEnd

Thread(c) ==
    \/ Eof(c)
    \/ AnswerClose(c)
    \/ Reply(c)
    \/ Cancel(c)
    \/ Erase(c)
    \/ \E outcome \in {"refused", "rested", "filled"} : Submit(c, outcome)
    \/ Result(c)

Broadcast == Snapshot \/ Send \/ \E c \in Conn : Choose(c)

Stop == StopUnlock \/ StopEnd \/ \E c \in Conn : StopClose(c)

Input(c) ==
    \/ Accept(c)
    \/ Leave(c)
    \/ Stall(c)
    \/ Handshake(c)
    \/ HandshakeFails(c)
    \/ \E kind \in Frames : Receive(c, kind)

Next ==
    /\ ~ corrupt
    /\ \/ Start
       \/ StopBegin
       \/ AcceptThread
       \/ Broadcast
       \/ Stop
       \/ \E c \in Conn : Input(c) \/ Thread(c)

(* Threads run and a stop goes on; nothing is asked of the clients.        *)
Fairness ==
    /\ WF_vars(~ corrupt /\ AcceptThread)
    /\ WF_vars(~ corrupt /\ Broadcast)
    /\ WF_vars(~ corrupt /\ Stop)
    /\ \A c \in Conn : WF_vars(~ corrupt /\ Thread(c))

Spec == Init /\ [][Next]_vars /\ Fairness

-----------------------------------------------------------------------------
(* Properties.                                                             *)

(* Every variable has its type, and no two open sockets share a number.    *)
TypeOK ==
    /\ life \in {"new", "up", "closing", "joining", "stopped"}
    /\ toClose \subseteq Conn
    /\ corrupt \in BOOLEAN
    /\ acceptor \in [pc : {"off", "accept", "emplace", "spawn", "done"}, conn : Conn \cup {0}]
    /\ ids \subseteq Conn
    /\ DOMAIN peers \subseteq Conn /\ Range(peers) \subseteq Conn
    /\ peer \in [Conn -> [id : 0 .. MaxConn, open : BOOLEAN, fd : 0 .. MaxConn]]
    /\ \A c, d \in Conn : peer[c].open /\ peer[c].fd = peer[d].fd => c = d
    /\ pc \in [Conn -> Frames \cup {"none", "handshake", "recv", "publish", "erase", "done"}]
    /\ client \in [Conn -> {"absent", "reading", "stalled", "gone"}]
    /\ mutex \in Conn \cup {0}
    /\ mutex # 0 <=> \E c \in Conn : c = mutex /\ pc[c] = "publish"
    /\ twins \subseteq Conn /\ late \subseteq Conn

(* An entry of peers_ belongs to a connection that is being accepted or    *)
(* served and has this id, although ids are given twice and a thread       *)
(* erases the entry of its id without looking whose it is.                 *)
NoGhostPeers ==
    /\ TypeOK
    /\ \A i \in DOMAIN peers : peer[peers[i]].id = i /\ pc[peers[i]] # "done"

(* When the result of a submission is sent, the submitter has been sent    *)
(* its trade before, and every peer that was in the table when the         *)
(* submission began the top of book it left; only a peer that has been     *)
(* closed, or one that shared its id with another, may have been missed.   *)
ToldBeforeResult ==
    (mutex # 0 /\ CastIdle /\ cast.todo = << >>) =>
        \A c \in cast.await.trade \cup cast.await.tob : peer[c].open => c \in twins

(* After stop has gone through the table, a connection that is still open  *)
(* shared its id with another or was accepted while stop began.            *)
StopMisses ==
    life = "joining" =>
        \A c \in Conn : peer[c].open => c \in twins \cup late \cup {acceptor.conn}

(* Somebody keeps stop from returning: a client that does not read, or a   *)
(* connection that stop missed and that its client keeps open.             *)
Held == \E c \in Conn : peer[c].open /\ (client[c] = "stalled" \/ c \in twins \cup late)

(* stop returns, unless one of those holds it up for good or the vector of *)
(* threads was changed under it.                                           *)
StopReturns == (life = "closing") ~> (life = "stopped" \/ corrupt \/ []Held)

(* The engine is released by every command, unless a client that does not  *)
(* read keeps the broadcast, and with it every other command, waiting.     *)
MutexReleased == (mutex # 0) ~> (mutex = 0 \/ corrupt \/ [](\E c \in Conn : Blocked(c)))
=============================================================================

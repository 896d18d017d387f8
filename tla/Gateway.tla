------------------------------ MODULE Gateway -------------------------------
(***************************************************************************)
(* The TCP gateway (gateway.cpp) in the program that runs it next to the   *)
(* WebSocket server (simulator.cpp): an accept thread, a thread per client *)
(* that reads lines, calls the engine and notifies the listeners of the    *)
(* publisher, and the thread of main that starts and stops both servers.   *)
(*                                                                         *)
(* The WebSocket server, the module WsServer, is here the one listener of  *)
(* the publisher and a thread that calls the engine under its own mutex.   *)
(* The engine has no lock: two threads inside it at once are a data race,  *)
(* after which the model says nothing.                                     *)
(***************************************************************************)
EXTENDS Protocol, FiniteSets

CONSTANTS
    MaxConn,       \* bound: the connections ever made
    Streams,       \* for every connection, what its client may send: tokens
    BufLen,        \* the size of buf, in tokens
    Instruments    \* the instruments that are registered

ASSUME GatewayAssumption ==
    /\ MaxConn \in Nat \ {0}
    /\ BufLen \in Nat \ {0}
    /\ DOMAIN Streams = 1 .. MaxConn
    /\ \A c \in 1 .. MaxConn : \A s \in Streams[c] : s \in Seq(Range(s))

Conn == 1 .. MaxConn

NL == Word("nl")

VARIABLES
    main,        \* where the thread of main is
    running,     \* running_ of the gateway
    acceptor,    \* the accept thread: where it is and whom it accepts
    corrupt,     \* client_threads_ was changed while stop iterated over it
    listeners,   \* listeners_ of the publisher
    wsAlive,     \* the WebSocket server exists
    wsCommand,   \* one of its threads is in the engine
    raced,       \* two threads were in the engine at the same time
    stream,      \* what the client of a connection sends
    received,    \* how many tokens of it recv has returned ...
    pos,         \* ... and how many of those have been gone through
    ended,       \* the client has sent all and shut its side
    pc,          \* where the thread of client_loop is
    line,        \* the beginning of a line whose end has not been seen
    call,        \* what the engine has still to report on the current call
    copy,        \* the listeners that notify has still to call
    log,         \* the lines kept for the end of the connection
    wire,        \* the lines written to the socket
    calls        \* history: the calls made to the engine

progVars == << main, running, acceptor, corrupt, listeners, wsAlive, wsCommand >>
inVars == << stream, received, pos, ended, line >>
outVars == << call, copy, log, wire, calls >>
vars == << progVars, raced, inVars, pc, outVars >>

-----------------------------------------------------------------------------

(* The threads in the engine: a client's from the call to its return.      *)
InEngine == {c \in Conn : pc[c] = "engine"}
EngineBusy == InEngine # {} \/ wsCommand

Taken(c) == SubSeq(stream[c], 1, received[c])
Chunk(c) == SubSeq(stream[c], pos[c] + 1, received[c])

(* What the engine reports on a call: of a submission its trades and its   *)
(* result, each followed by a notification of the top of book unless it    *)
(* was refused; of a cancel or a modify nothing.                           *)
Reports(req) ==
    IF req.command = "NEW"
    THEN {<< "OK" >>, << "OK", "tob" >>, << "TRADE", "tob", "OK", "tob" >>}
    ELSE {<< >>}

Init ==
    /\ main = "gw"
    /\ running = FALSE
    /\ acceptor = [pc |-> "off", conn |-> 0]
    /\ corrupt = FALSE
    /\ listeners = {}
    /\ wsAlive = FALSE
    /\ wsCommand = FALSE
    /\ raced = FALSE
    /\ stream = [c \in Conn |-> << >>]
    /\ received = [c \in Conn |-> 0]
    /\ pos = [c \in Conn |-> 0]
    /\ ended = [c \in Conn |-> FALSE]
    /\ pc = [c \in Conn |-> "none"]
    /\ line = [c \in Conn |-> << >>]
    /\ call = [c \in Conn |-> << >>]
    /\ copy = [c \in Conn |-> {}]
    /\ log = [c \in Conn |-> << >>]
    /\ wire = [c \in Conn |-> << >>]
    /\ calls = [c \in Conn |-> << >>]

-----------------------------------------------------------------------------
(* main, from the construction of the servers to their destruction.        *)

GwStart(ok) ==
    /\ main = "gw"
    /\ main' = IF ok THEN "ws" ELSE "exited"
    /\ running' = ok
    /\ acceptor' = [acceptor EXCEPT !.pc = IF ok THEN "accept" ELSE "off"]
    /\ UNCHANGED << corrupt, listeners, wsAlive, wsCommand, raced, inVars, pc, outVars >>

(* When the WebSocket server does not start, the gateway is stopped.       *)
WsStart(ok) ==
    /\ main = "ws"
    /\ main' = IF ok THEN "up" ELSE "gwstop"
    /\ wsAlive' = TRUE
    /\ listeners' = IF ok THEN {"ws"} ELSE {}
    /\ UNCHANGED << running, acceptor, corrupt, wsCommand, raced, inVars, pc, outVars >>

(* A signal ends the wait.                                                 *)
Signal ==
    /\ main = "up"
    /\ main' = "wsclose"
    /\ UNCHANGED << running, acceptor, corrupt, listeners, wsAlive, wsCommand, raced, inVars, pc, outVars >>

(* ws->stop() closes the connections, after which no command begins.       *)
WsClosed ==
    /\ main = "wsclose"
    /\ main' = "wsstop"
    /\ UNCHANGED << running, acceptor, corrupt, listeners, wsAlive, wsCommand, raced, inVars, pc, outVars >>

(* Mutant: the WebSocket server is destroyed as soon as it has stopped.    *)
WsStoppedReset ==
    /\ main = "wsstop"
    /\ ~ wsCommand
    /\ main' = "gwstop"
    /\ listeners' = {}
    /\ wsAlive' = FALSE
    /\ UNCHANGED << running, acceptor, corrupt, wsCommand, raced, inVars, pc, outVars >>

(* It returns: its threads have ended and the listener is unsubscribed.    *)
WsStopped ==
    /\ main = "wsstop"
    /\ ~ wsCommand
    /\ main' = "gwstop"
    /\ listeners' = {}
    /\ UNCHANGED << running, acceptor, corrupt, wsAlive, wsCommand, raced, inVars, pc, outVars >>

(* Mutant: running_ is cleared after the threads have been joined.         *)
GwStopLater ==
    /\ main = "gwstop"
    /\ main' = "joining"
    /\ UNCHANGED << running, acceptor, corrupt, listeners, wsAlive, wsCommand, raced, inVars, pc, outVars >>

(* stop closes the listening socket, but no client's, and starts to join.  *)
GwStop ==
    /\ main = "gwstop"
    /\ main' = "joining"
    /\ running' = FALSE
    /\ UNCHANGED << acceptor, corrupt, listeners, wsAlive, wsCommand, raced, inVars, pc, outVars >>

(* The threads have been joined; main returns, which destroys the servers. *)
GwJoined ==
    /\ main = "joining"
    /\ acceptor.pc = "done"
    /\ \A c \in Conn : pc[c] \in {"none", "closed"}
    /\ main' = "exited"
    /\ wsAlive' = FALSE
    /\ UNCHANGED << running, acceptor, corrupt, listeners, wsCommand, raced, inVars, pc, outVars >>

(* A command of a WebSocket client, which takes only the mutex of its own  *)
(* gateway, and its end.                                                   *)
WsEnter ==
    /\ main \in {"up", "wsclose"}
    /\ ~ wsCommand
    /\ wsCommand' = TRUE
    /\ raced' = EngineBusy
    /\ UNCHANGED << main, running, acceptor, corrupt, listeners, wsAlive, inVars, pc, outVars >>

WsLeave ==
    /\ wsCommand
    /\ wsCommand' = FALSE
    /\ UNCHANGED << main, running, acceptor, corrupt, listeners, wsAlive, raced, inVars, pc, outVars >>

-----------------------------------------------------------------------------
(* accept_loop.                                                            *)

Accept(c, s) ==
    /\ acceptor.pc = "accept"
    /\ running
    /\ pc[c] = "none"
    /\ \A d \in 1 .. c - 1 : pc[d] # "none"
    /\ acceptor' = [pc |-> "spawn", conn |-> c]
    /\ stream' = [stream EXCEPT ![c] = s]
    /\ UNCHANGED << main, running, corrupt, listeners, wsAlive, wsCommand, raced, received, pos, ended, line, pc, outVars >>

(* client_threads_.emplace_back, which may move the threads that stop is   *)
(* joining by now: it joins that of accept_loop first.                     *)
Spawn ==
    /\ acceptor.pc = "spawn"
    /\ pc' = [pc EXCEPT ![acceptor.conn] = IF running THEN "recv" ELSE "flush"]
    /\ acceptor' = [pc |-> "accept", conn |-> 0]
    /\ corrupt' \in {FALSE, main = "joining"}
    /\ UNCHANGED << main, running, listeners, wsAlive, wsCommand, raced, inVars, outVars >>

(* accept fails once stop has closed the listening socket.                 *)
AcceptEnd ==
    /\ acceptor.pc = "accept"
    /\ ~ running
    /\ acceptor' = [acceptor EXCEPT !.pc = "done"]
    /\ UNCHANGED << main, running, corrupt, listeners, wsAlive, wsCommand, raced, inVars, pc, outVars >>

-----------------------------------------------------------------------------
(* client_loop.                                                            *)

(* The client sends all that is left to it and shuts its side.             *)
EndStream(c) ==
    /\ pc[c] # "none"
    /\ received[c] = Len(stream[c])
    /\ ~ ended[c]
    /\ ended' = [ended EXCEPT ![c] = TRUE]
    /\ UNCHANGED << progVars, raced, stream, received, pos, line, pc, outVars >>

(* recv returns what has arrived, cut anywhere.                            *)
Recv(c, n) ==
    /\ pc[c] = "recv"
    /\ received[c] + n <= Len(stream[c])
    /\ received' = [received EXCEPT ![c] = @ + n]
    /\ pc' = [pc EXCEPT ![c] = "parse"]
    /\ UNCHANGED << progVars, raced, stream, pos, ended, line, outVars >>

(* Mutant: a recv of no bytes is not the end.                              *)
EofIgnored(c) ==
    /\ pc[c] = "recv"
    /\ ended[c]
    /\ ~ running
    /\ pc' = [pc EXCEPT ![c] = "flush"]
    /\ UNCHANGED << progVars, raced, inVars, outVars >>

Eof(c) ==
    /\ pc[c] = "recv"
    /\ ended[c]
    /\ pc' = [pc EXCEPT ![c] = "flush"]
    /\ UNCHANGED << progVars, raced, inVars, outVars >>

(* The rest of the chunk has no end of line and is kept; the loop looks    *)
(* whether the gateway still runs.                                         *)
KeepRest(c) ==
    /\ pc[c] = "parse"
    /\ ~ Contains(Chunk(c), NL)
    /\ line' = [line EXCEPT ![c] = @ \o Chunk(c)]
    /\ pos' = [pos EXCEPT ![c] = received[c]]
    /\ pc' = [pc EXCEPT ![c] = IF running THEN "recv" ELSE "flush"]
    /\ UNCHANGED << progVars, raced, stream, received, ended, outVars >>

Calls == {"NEW", "CANCEL", "MODIFY"}

(* The reply that is written at once; commands to the engine have none.    *)
Immediate(req) ==
    CASE req.command = "PING" -> << "PONG" >>
      [] req.command = "QUOTE" -> << IF req.args[1] \in Instruments THEN "QUOTE" ELSE "ERR" >>
      [] req.command = "ERR" -> << "ERR" >>
      [] OTHER -> << >>

(* Mutant: the line is kept when it could not be parsed.                   *)
NextLineAfterError(whole, req) == IF req.command = "ERR" THEN whole ELSE << >>

(* line.clear(), after every line.                                         *)
NextLine(whole, req) == << >>

(* A complete line is parsed, and answered or passed on to the engine;     *)
(* QUOTE only reads the engine.                                            *)
Serve(c, whole, req) ==
    /\ line' = [line EXCEPT ![c] = NextLine(whole, req)]
    /\ wire' = [wire EXCEPT ![c] = @ \o Immediate(req)]
    /\ raced' = (EngineBusy /\ req.command \in Calls \cup {"QUOTE"})
    /\ IF req.command \in Calls
       THEN /\ pc' = [pc EXCEPT ![c] = "engine"]
            /\ calls' = [calls EXCEPT ![c] = Append(@, req)]
            /\ \E r \in Reports(req) : call' = [call EXCEPT ![c] = r]
       ELSE UNCHANGED << pc, calls, call >>

HandleLine(c) ==
    /\ pc[c] = "parse"
    /\ Contains(Chunk(c), NL)
    /\ \E eol \in {SelectInSeq(Chunk(c), LAMBDA t : t = NL)} :
           /\ \E whole \in {line[c] \o SubSeq(Chunk(c), 1, eol - 1)} :
                  \E req \in {ParseRequest(whole)} : Serve(c, whole, req)
           /\ pos' = [pos EXCEPT ![c] = @ + eol]
    /\ UNCHANGED << progVars, stream, received, ended, copy, log >>

(* The engine reports to the sink: a line for the client is kept, and the  *)
(* publisher copies its list of listeners ...                              *)
Report(c) ==
    /\ pc[c] = "engine"
    /\ copy[c] = {}
    /\ call[c] # << >>
    /\ call' = [call EXCEPT ![c] = Tail(@)]
    /\ log' = [log EXCEPT ![c] = IF Head(call[c]) = "tob" THEN @ ELSE Append(@, Head(call[c]))]
    /\ copy' = [copy EXCEPT ![c] = listeners]
    /\ UNCHANGED << progVars, raced, inVars, pc, wire, calls >>

(* ... and calls them.                                                     *)
CallListener(c, l) ==
    /\ l \in copy[c]
    /\ copy' = [copy EXCEPT ![c] = @ \ {l}]
    /\ UNCHANGED << progVars, raced, inVars, pc, call, log, wire, calls >>

Return(c) ==
    /\ pc[c] = "engine"
    /\ copy[c] = {}
    /\ call[c] = << >>
    /\ pc' = [pc EXCEPT ![c] = "parse"]
    /\ UNCHANGED << progVars, raced, inVars, outVars >>

(* The lines that were kept are written and the socket is closed.          *)
Flush(c) ==
    /\ pc[c] = "flush"
    /\ wire' = [wire EXCEPT ![c] = @ \o log[c]]
    /\ pc' = [pc EXCEPT ![c] = "closed"]
    /\ UNCHANGED << progVars, raced, inVars, call, copy, log, calls >>

-----------------------------------------------------------------------------

Main ==
    \/ \E ok \in BOOLEAN : GwStart(ok) \/ WsStart(ok)
    \/ WsClosed
    \/ WsStopped
    \/ GwStop
    \/ GwJoined

Client(c) ==
    \/ Eof(c)
    \/ KeepRest(c)
    \/ HandleLine(c)
    \/ Report(c)
    \/ \E l \in listeners \cup copy[c] : CallListener(c, l)
    \/ Return(c)
    \/ Flush(c)

Input(c) ==
    \/ \E s \in Streams[c] : Accept(c, s)
    \/ EndStream(c)
    \/ \E n \in 1 .. BufLen : Recv(c, n)

Defined == ~ corrupt /\ ~ raced

Next ==
    /\ Defined
    /\ \/ Main
       \/ Signal
       \/ WsEnter
       \/ WsLeave
       \/ Spawn
       \/ AcceptEnd
       \/ \E c \in Conn : Client(c) \/ Input(c)

(* Threads run; nothing is asked of the clients or of who sends signals.   *)
Fairness ==
    /\ WF_vars(Defined /\ Main)
    /\ WF_vars(Defined /\ WsLeave)
    /\ WF_vars(Defined /\ (Spawn \/ AcceptEnd))
    /\ \A c \in Conn : WF_vars(Defined /\ Client(c))

Spec == Init /\ [][Next]_vars /\ Fairness

-----------------------------------------------------------------------------
(* Properties.                                                             *)

(* Every variable has its type.                                            *)
TypeOK ==
    /\ main \in {"gw", "ws", "up", "wsclose", "wsstop", "gwstop", "joining", "exited"}
    /\ {running, corrupt, wsAlive, wsCommand, raced} \subseteq BOOLEAN
    /\ acceptor \in [pc : {"off", "accept", "spawn", "done"}, conn : Conn \cup {0}]
    /\ listeners \subseteq {"ws"}
    /\ \A c \in Conn :
           /\ stream[c] \in Streams[c] \cup {<< >>}
           /\ received[c] \in 0 .. Len(stream[c]) /\ pos[c] \in 0 .. received[c]
           /\ pc[c] \in {"none", "recv", "parse", "engine", "flush", "closed"}
           /\ call[c] # << >> => pc[c] = "engine"
           /\ copy[c] \subseteq {"ws"}
           /\ Range(log[c]) \subseteq {"OK", "TRADE"}
           /\ Range(wire[c]) \subseteq {"OK", "TRADE", "PONG", "QUOTE", "ERR"}

(* The complete lines of a buffer.                                         *)
Lines(in) ==
    LET ends == {0} \cup {i \in DOMAIN in : in[i] = NL}
        start(e) == CHOOSE i \in ends : i < e /\ \A j \in ends : j < e => j <= i
        f[n \in 0 .. Len(in)] ==
            CASE n = 0 -> << >>
              [] n # 0 /\ n \in ends -> Append(f[n - 1], SubSeq(in, start(n) + 1, n - 1))
              [] OTHER -> f[n - 1]
    IN  f[Len(in)]

(* process_buffer: the immediate replies to the lines of a buffer, then    *)
(* what the engine reported, kept in the same way.                         *)
ProcessBuffer(in, reported) ==
    LET lines == Lines(in)
    IN  FlattenSeq([k \in DOMAIN lines |-> Immediate(ParseRequest(lines[k]))]) \o reported

(* However the input was cut into chunks, and wherever stop ended the      *)
(* loop, a client has been answered as process_buffer, which the tests     *)
(* use in place of a connection, answers the bytes that were received.     *)
SameAsProcessBuffer ==
    /\ TypeOK
    /\ \A c \in Conn : pc[c] = "closed" => wire[c] = ProcessBuffer(Taken(c), log[c])

(* The engine has been called once for every well-formed line of a client, *)
(* in their order, with the numbers that the line spells as far as they    *)
(* can be represented.                                                     *)
CalledAsWritten ==
    \A c \in Conn : pc[c] = "closed" =>
        LET lines == SelectSeq(Lines(Taken(c)), LAMBDA l : ParseRequest(l).command \in Calls)
        IN  /\ Len(calls[c]) = Len(lines)
            /\ \A k \in DOMAIN lines :
                   /\ calls[c][k].command = lines[k][1].word
                   /\ \A j \in DOMAIN calls[c][k].args :
                          Fits(lines[k][j + 1]) => calls[c][k].args[j] = Value(lines[k][j + 1])

(* A listener that a thread is about to call exists, although it may have  *)
(* been unsubscribed since the thread copied the list.                     *)
ListenersAlive == (\E c \in Conn : copy[c] # {}) => wsAlive

(* A client that keeps its connection open and silent.                     *)
Silent == \E c \in Conn : pc[c] = "recv" /\ ~ ended[c]

(* The program ends after a signal, unless a client stays silent for good: *)
(* stop joins a thread that waits in recv on a socket that nobody shuts.   *)
StopReturns == (main = "wsclose") ~> (main = "exited" \/ ~ Defined \/ []Silent)

(* A client that has shut its side gets all its answers.                   *)
AnswersDelivered == \A c \in Conn : ended[c] ~> (pc[c] = "closed" \/ ~ Defined)
=============================================================================

--------------------------- MODULE Gateway_proofs ---------------------------
(* Proofs about Gateway.                                                   *)
EXTENDS Gateway, WellFoundedInduction, SequenceTheorems, TLAPS

-----------------------------------------------------------------------------
(* The listeners that the threads of the clients call.                     *)

Threads == {"none", "recv", "parse", "engine", "flush", "closed"}

(* A copy of the list exists only while its thread is in the engine.  The  *)
(* list is empty until the WebSocket server is there, which goes away only *)
(* when no thread is left and none can start: the accept thread has ended, *)
(* or it was never started.                                                *)
AliveInv ==
    /\ pc \in [Conn -> Threads]
    /\ DOMAIN copy = Conn
    /\ acceptor \in [pc : {"off", "accept", "spawn", "done"}, conn : Conn \cup {0}]
    /\ acceptor.pc = "spawn" => acceptor.conn \in Conn /\ pc[acceptor.conn] = "none"
    /\ main = "gw" => acceptor.pc = "off" /\ \A c \in Conn : pc[c] = "none"
    /\ \A c \in Conn : copy[c] # {} => pc[c] = "engine"
    /\ (listeners # {} \/ \E c \in Conn : copy[c] # {}) =>
           main \in {"up", "wsclose", "wsstop", "gwstop", "joining"}
    /\ main \in {"up", "wsclose", "wsstop", "gwstop", "joining"} => wsAlive
    /\ main \in {"gwstop", "joining", "exited"} => listeners = {}
    /\ main = "exited" => /\ acceptor.pc \in {"off", "done"}
                          /\ \A c \in Conn : pc[c] \in {"none", "closed"}

LEMMA InitAlive == Init => AliveInv
  BY DEF Init, AliveInv, Threads

LEMMA NextAlive ==
    ASSUME AliveInv, [Next]_vars
    PROVE  AliveInv'
  <1> USE DEF AliveInv
  <1>1. CASE UNCHANGED vars
    BY <1>1 DEF vars, progVars, outVars
  <1>2. ASSUME NEW ok \in BOOLEAN, GwStart(ok) PROVE AliveInv'
    BY <1>2 DEF GwStart, outVars
  <1>3. ASSUME NEW ok \in BOOLEAN, WsStart(ok) PROVE AliveInv'
    BY <1>3 DEF WsStart, outVars
  <1>4. CASE Signal \/ WsClosed \/ WsStopped \/ GwStop
    BY <1>4 DEF Signal, WsClosed, WsStopped, GwStop, outVars
  <1>5. CASE GwJoined
    BY <1>5 DEF GwJoined, outVars
  <1>6. CASE WsEnter \/ WsLeave
    BY <1>6 DEF WsEnter, WsLeave, outVars
  <1>7. CASE Spawn
    BY <1>7 DEF Spawn, outVars, Threads
  <1>8. CASE AcceptEnd
    BY <1>8 DEF AcceptEnd, outVars
  <1>9. ASSUME NEW c \in Conn, NEW s, Accept(c, s) PROVE AliveInv'
    BY <1>9 DEF Accept, outVars
  <1>10. ASSUME NEW c \in Conn, NEW n, EndStream(c) \/ Recv(c, n) \/ Eof(c) \/ KeepRest(c)
         PROVE  AliveInv'
    BY <1>10 DEF EndStream, Recv, Eof, KeepRest, progVars, outVars, inVars, Threads
  <1>11. ASSUME NEW c \in Conn, HandleLine(c) PROVE AliveInv'
    <2>1. /\ UNCHANGED << main, acceptor, listeners, wsAlive, copy >> /\ pc[c] = "parse"
          /\ pc' = pc \/ pc' = [pc EXCEPT ![c] = "engine"]
      BY <1>11 DEF HandleLine, Serve, progVars
    <2> QED BY <2>1 DEF Threads
  <1>12. ASSUME NEW c \in Conn, Report(c) PROVE AliveInv'
    BY <1>12 DEF Report, progVars
  <1>13. ASSUME NEW c \in Conn, NEW l, CallListener(c, l) PROVE AliveInv'
    BY <1>13 DEF CallListener, progVars
  <1>14. ASSUME NEW c \in Conn, Return(c) \/ Flush(c) PROVE AliveInv'
    <2>1. UNCHANGED << main, acceptor, listeners, wsAlive, copy >> /\ pc[c] \in {"engine", "flush"} /\ copy[c] = {}
      BY <1>14 DEF Return, Flush, progVars, outVars
    <2>2. \E x \in {"parse", "closed"} : pc' = [pc EXCEPT ![c] = x]
      BY <1>14 DEF Return, Flush
    <2> QED BY <2>1, <2>2 DEF Threads
  <1> QED BY <1>1, <1>2, <1>3, <1>4, <1>5, <1>6, <1>7, <1>8, <1>9, <1>10, <1>11, <1>12, <1>13, <1>14
          DEF Next, Main, Client, Input

(* The WebSocket server outlives every call that a client's thread makes   *)
(* to it, also one from a list that was copied before the server left it,  *)
(* for any number of clients and whatever they send.                       *)
THEOREM Alive == Spec => []ListenersAlive
  <1>1. AliveInv => ListenersAlive
    BY DEF AliveInv, ListenersAlive
  <1> QED BY <1>1, InitAlive, NextAlive, PTL DEF Spec

-----------------------------------------------------------------------------
(* The lines of an input.  A fact that needs an induction is shown by      *)
(* looking at the least number for which it fails.                         *)

(* A set of natural numbers that is not empty has a least element.         *)
LEMMA LeastNat ==
    ASSUME NEW T \in SUBSET Nat, T # {}
    PROVE  \E n \in T : \A m \in T : n <= m
  <1>1. IsWellFoundedOn(OpToRel(<, Nat), Nat)
    BY NatLessThanWellFounded, Zenon
  <1>2. PICK n \in T : \A m \in T : ~ (<< m, n >> \in OpToRel(<, Nat))
    BY <1>1, WFMin
  <1>3. \A m \in T : ~ (m < n)
    BY <1>2 DEF OpToRel
  <1> QED BY <1>3

(* The places at which lines end, and the one at which the line that ends  *)
(* at e begins.                                                            *)
Ends(s) == {0} \cup {i \in DOMAIN s : s[i] = NL}

Start(s, e) == CHOOSE i \in Ends(s) : i < e /\ \A j \in Ends(s) : j < e => j <= i

(* f holds the complete lines of every beginning of s up to n.             *)
LinesOn(s, n, f) ==
    f = [k \in 0 .. n |->
            CASE k = 0 -> << >>
              [] k # 0 /\ k \in Ends(s) -> Append(f[k - 1], SubSeq(s, Start(s, k) + 1, k - 1))
              [] OTHER -> f[k - 1]]

Lined(s) == CHOOSE f : LinesOn(s, Len(s), f)

LEMMA LinesIs ==
    ASSUME NEW s
    PROVE  Lines(s) = Lined(s)[Len(s)]
  BY DEF Lines, Lined, LinesOn, Ends, Start

LEMMA SubSeqShape ==
    ASSUME NEW S, NEW s \in Seq(S), NEW a \in Nat, NEW b \in Nat, a <= b, b <= Len(s)
    PROVE  /\ SubSeq(s, a + 1, b) \in Seq(S)
           /\ Len(SubSeq(s, a + 1, b)) = b - a
           /\ \A i \in 1 .. (b - a) : SubSeq(s, a + 1, b)[i] = s[a + i]
  OBVIOUS

(* A sequence is what it holds.                                            *)
LEMMA SameSeq ==
    ASSUME NEW S, NEW s \in Seq(S), NEW t \in Seq(S), Len(s) = Len(t),
           \A i \in 1 .. Len(s) : s[i] = t[i]
    PROVE  s = t
  OBVIOUS

(* Two adjoining parts of a sequence.                                      *)
LEMMA SubSeqJoins ==
    ASSUME NEW S, NEW s \in Seq(S), NEW a \in Nat, NEW b \in Nat, NEW c \in Nat,
           a <= b, b <= c, c <= Len(s)
    PROVE  SubSeq(s, a + 1, b) \o SubSeq(s, b + 1, c) = SubSeq(s, a + 1, c)
  <1> DEFINE x == SubSeq(s, a + 1, b)
             y == SubSeq(s, b + 1, c)
             z == SubSeq(s, a + 1, c)
  <1>1. x \in Seq(S) /\ Len(x) = b - a /\ \A i \in 1 .. (b - a) : x[i] = s[a + i]
    BY SubSeqShape
  <1>2. y \in Seq(S) /\ Len(y) = c - b /\ \A i \in 1 .. (c - b) : y[i] = s[b + i]
    BY SubSeqShape
  <1>3. z \in Seq(S) /\ Len(z) = c - a /\ \A i \in 1 .. (c - a) : z[i] = s[a + i]
    <2>1. a <= c
      OBVIOUS
    <2> QED BY <2>1, SubSeqShape
  <1> HIDE DEF x, y, z
  <1> DEFINE u == x \o y
  <1>4. u \in Seq(S) /\ Len(u) = Len(x) + Len(y)
        /\ \A i \in 1 .. (Len(x) + Len(y)) : u[i] = IF i <= Len(x) THEN x[i] ELSE y[i - Len(x)]
    BY <1>1, <1>2, ConcatProperties
  <1> HIDE DEF u
  <1>5. Len(u) = Len(z)
    BY <1>1, <1>2, <1>3, <1>4
  <1>6. ASSUME NEW i \in 1 .. Len(u) PROVE u[i] = z[i]
    <2>1. i \in 1 .. (c - a) /\ z[i] = s[a + i]
      BY <1>3, <1>5, <1>6
    <2>2. CASE i <= b - a
      <3>1. i \in 1 .. (b - a) /\ u[i] = x[i]
        BY <1>1, <1>4, <1>6, <2>2
      <3> QED BY <1>1, <2>1, <3>1
    <2>3. CASE ~ (i <= b - a)
      <3>1. i - (b - a) \in 1 .. (c - b) /\ b + (i - (b - a)) = a + i
        BY <2>1, <2>3
      <3>2. u[i] = y[i - (b - a)]
        BY <1>1, <1>4, <1>6, <2>3
      <3> QED BY <1>2, <2>1, <3>1, <3>2
    <2> QED BY <2>2, <2>3
  <1>7. u = z
    BY <1>3, <1>4, <1>5, <1>6, SameSeq
  <1> QED BY <1>7 DEF u, x, y, z

(* The beginning of a part of a sequence.                                  *)
LEMMA SubSeqInner ==
    ASSUME NEW S, NEW s \in Seq(S), NEW p \in Nat, NEW r \in Nat, NEW m \in Nat,
           p + m <= r, r <= Len(s)
    PROVE  SubSeq(SubSeq(s, p + 1, r), 1, m) = SubSeq(s, p + 1, p + m)
  <1> DEFINE x == SubSeq(s, p + 1, r)
             y == SubSeq(x, 0 + 1, m)
             q == p + m
             z == SubSeq(s, p + 1, q)
  <1>1. q \in Nat /\ p <= q /\ q <= Len(s) /\ q - p = m /\ p <= r /\ m <= r - p /\ 0 <= m /\ m - 0 = m
    OBVIOUS
  <1> HIDE DEF q
  <1>2. x \in Seq(S) /\ Len(x) = r - p /\ \A i \in 1 .. (r - p) : x[i] = s[p + i]
    BY <1>1, SubSeqShape
  <1>3. z \in Seq(S) /\ Len(z) = m /\ \A i \in 1 .. m : z[i] = s[p + i]
    <2>1. z \in Seq(S) /\ Len(z) = q - p /\ \A i \in 1 .. (q - p) : z[i] = s[p + i]
      BY <1>1, SubSeqShape
    <2> HIDE DEF z
    <2> QED BY <1>1, <2>1
  <1> HIDE DEF x, z
  <1>4. y \in Seq(S) /\ Len(y) = m - 0 /\ \A i \in 1 .. (m - 0) : y[i] = x[0 + i]
    <2>1. 0 \in Nat /\ 0 <= m /\ m <= Len(x)
      BY <1>1, <1>2
    <2> QED BY <1>2, <2>1, SubSeqShape
  <1> HIDE DEF y
  <1>5. Len(y) = Len(z) /\ \A i \in 1 .. Len(y) : i \in 1 .. m /\ i \in 1 .. (m - 0) /\ 0 + i = i /\ i \in 1 .. (r - p)
    BY <1>1, <1>3, <1>4
  <1>6. \A i \in 1 .. Len(y) : y[i] = z[i]
    BY <1>2, <1>3, <1>4, <1>5
  <1>7. y = z
    BY <1>3, <1>4, <1>5, <1>6, SameSeq
  <1>8. SubSeq(x, 1, m) = z
    BY <1>7 DEF y
  <1> QED BY <1>8 DEF x, z, q

(* The line is what was kept of it and the beginning of the rest.          *)
LEMMA WholeLine ==
    ASSUME NEW S, NEW s \in Seq(S), NEW a \in Nat, NEW p \in Nat, NEW r \in Nat, NEW m \in Nat,
           NEW q \in Nat, a <= p, p + m = q, p + m <= r, p <= q, q <= Len(s), r <= Len(s)
    PROVE  SubSeq(s, a + 1, p) \o SubSeq(SubSeq(s, p + 1, r), 1, m) = SubSeq(s, a + 1, q)
  <1>1. SubSeq(SubSeq(s, p + 1, r), 1, m) = SubSeq(s, p + 1, q)
    BY SubSeqInner
  <1>2. SubSeq(s, a + 1, p) \o SubSeq(s, p + 1, q) = SubSeq(s, a + 1, q)
    BY SubSeqJoins
  <1> QED BY <1>1, <1>2

(* The beginning of the last line.                                         *)
LEMMA StartIs ==
    ASSUME NEW S, NEW s \in Seq(S), NEW e \in Nat \ {0}
    PROVE  /\ Start(s, e) \in Ends(s) /\ Start(s, e) \in Nat /\ Start(s, e) < e
           /\ \A j \in Ends(s) : j < e => j <= Start(s, e)
           /\ \A a \in Ends(s) : (a < e /\ \A j \in Ends(s) : j < e => j <= a) => Start(s, e) = a
  <1>1. Ends(s) \subseteq Nat /\ 0 \in Ends(s)
    BY DEF Ends
  <1> DEFINE T == {n \in Nat : n < e /\ (e - 1) - n \in Ends(s)}
  <1>2. e - 1 \in Nat /\ e - 1 < e /\ (e - 1) - (e - 1) = 0
    OBVIOUS
  <1>3. PICK n \in T : \A m \in T : n <= m
    <2>1. e - 1 \in T
      BY <1>1, <1>2
    <2> QED BY <2>1, LeastNat
  <1> DEFINE i == (e - 1) - n
  <1>4. i \in Ends(s) /\ i < e
    BY <1>3
  <1>5. ASSUME NEW j \in Ends(s), j < e PROVE j <= i
    <2>1. (e - 1) - j \in Nat /\ (e - 1) - j < e /\ (e - 1) - ((e - 1) - j) = j
      BY <1>1, <1>5
    <2>2. (e - 1) - j \in T
      BY <1>5, <2>1
    <2>3. n <= (e - 1) - j
      BY <1>3, <2>2
    <2> QED BY <1>1, <1>3, <2>3
  <1> HIDE DEF i
  <1>6. Start(s, e) \in Ends(s) /\ Start(s, e) < e /\ \A j \in Ends(s) : j < e => j <= Start(s, e)
    BY <1>4, <1>5 DEF Start
  <1>7. ASSUME NEW a \in Ends(s), a < e, \A j \in Ends(s) : j < e => j <= a PROVE Start(s, e) = a
    <2>1. a <= Start(s, e) /\ Start(s, e) <= a
      BY <1>6, <1>7
    <2> QED BY <1>1, <1>6, <2>1
  <1> QED BY <1>1, <1>6, <1>7

(* The lines ls before the token at k, and that token.                     *)
More(s, k, ls) ==
    IF k \in Ends(s) THEN Append(ls, SubSeq(s, Start(s, k) + 1, k - 1)) ELSE ls

LEMMA LinesStep ==
    ASSUME NEW s, NEW n \in Nat, NEW f, LinesOn(s, n, f)
    PROVE  /\ f[0] = << >>
           /\ \A k \in 1 .. n : f[k] = More(s, k, f[k - 1])
  <1> DEFINE g(k) == CASE k = 0 -> << >>
                       [] k # 0 /\ k \in Ends(s) ->
                              Append(f[k - 1], SubSeq(s, Start(s, k) + 1, k - 1))
                       [] OTHER -> f[k - 1]
  <1>1. f = [k \in 0 .. n |-> g(k)]
    BY DEF LinesOn
  <1>2. g(0) = << >>
    OBVIOUS
  <1>3. ASSUME NEW k \in 1 .. n PROVE g(k) = More(s, k, f[k - 1])
    <2>1. k # 0
      OBVIOUS
    <2> QED BY <2>1 DEF More
  <1>4. 0 \in 0 .. n /\ \A k \in 1 .. n : k \in 0 .. n
    OBVIOUS
  <1> HIDE DEF g
  <1>5. \A k \in 0 .. n : f[k] = g(k)
    BY <1>1
  <1> QED BY <1>2, <1>3, <1>4, <1>5

(* There is such a function for every length.                              *)
LEMMA LinesExist ==
    ASSUME NEW s
    PROVE  \A n \in Nat : \E f : LinesOn(s, n, f)
  <1> DEFINE Missing == {n \in Nat : ~ \E f : LinesOn(s, n, f)}
  <1> SUFFICES ASSUME Missing # {} PROVE FALSE
    OBVIOUS
  <1>1. PICK n \in Missing : \A m \in Missing : n <= m
    BY LeastNat
  <1>2. CASE n = 0
    <2> DEFINE f == [k \in 0 .. 0 |-> << >>]
    <2>1. f = [k \in 0 .. 0 |->
                 CASE k = 0 -> << >>
                   [] k # 0 /\ k \in Ends(s) -> Append(f[k - 1], SubSeq(s, Start(s, k) + 1, k - 1))
                   [] OTHER -> f[k - 1]]
      <3>1. \A k \in 0 .. 0 : k = 0
        OBVIOUS
      <3> QED BY <3>1
    <2> HIDE DEF f
    <2>2. LinesOn(s, 0, f)
      BY <2>1 DEF LinesOn
    <2> QED BY <1>1, <1>2, <2>2
  <1>3. CASE n # 0
    <2>1. n - 1 \in Nat /\ n - 1 \notin Missing
      BY <1>1, <1>3
    <2>2. PICK f : LinesOn(s, n - 1, f)
      BY <2>1
    <2> DEFINE g(k) == CASE k = 0 -> << >>
                         [] k # 0 /\ k \in Ends(s) ->
                                Append(f[k - 1], SubSeq(s, Start(s, k) + 1, k - 1))
                         [] OTHER -> f[k - 1]
               h == [k \in 0 .. n |-> g(k)]
    <2>3. f = [k \in 0 .. (n - 1) |-> g(k)]
      BY <2>2 DEF LinesOn
    <2>4. \A k \in 0 .. n : k # 0 => k - 1 \in 0 .. (n - 1) /\ k - 1 \in 0 .. n
      BY <1>1
    <2>5. \A k \in 0 .. n : k # 0 => h[k - 1] = f[k - 1]
      <3> HIDE DEF g
      <3> QED BY <2>3, <2>4
    <2>6. h = [k \in 0 .. n |->
                 CASE k = 0 -> << >>
                   [] k # 0 /\ k \in Ends(s) -> Append(h[k - 1], SubSeq(s, Start(s, k) + 1, k - 1))
                   [] OTHER -> h[k - 1]]
      <3>1. \A k \in 0 .. n : g(k) =
                CASE k = 0 -> << >>
                  [] k # 0 /\ k \in Ends(s) -> Append(h[k - 1], SubSeq(s, Start(s, k) + 1, k - 1))
                  [] OTHER -> h[k - 1]
        <4> HIDE DEF h
        <4> QED BY <2>5
      <3> HIDE DEF g
      <3>2. h = [k \in 0 .. n |-> g(k)]
        OBVIOUS
      <3> HIDE DEF h
      <3> QED BY <3>1, <3>2
    <2> HIDE DEF h
    <2>7. LinesOn(s, n, h)
      BY <2>6 DEF LinesOn
    <2> QED BY <1>1, <2>7
  <1> QED BY <1>2, <1>3

LEMMA LinedIs ==
    ASSUME NEW S, NEW s \in Seq(S)
    PROVE  /\ Lined(s)[0] = << >>
           /\ \A k \in 1 .. Len(s) : Lined(s)[k] = More(s, k, Lined(s)[k - 1])
  <1>1. Len(s) \in Nat
    OBVIOUS
  <1>2. LinesOn(s, Len(s), Lined(s))
    BY <1>1, LinesExist DEF Lined
  <1> QED BY <1>1, <1>2, LinesStep

(* The lines are sequences of sequences.                                   *)
LEMMA LinedType ==
    ASSUME NEW S, NEW s \in Seq(S)
    PROVE  \A k \in 0 .. Len(s) : Lined(s)[k] \in Seq(Seq(S))
  <1> DEFINE Bad == {k \in 0 .. Len(s) : Lined(s)[k] \notin Seq(Seq(S))}
  <1> SUFFICES ASSUME Bad # {} PROVE FALSE
    OBVIOUS
  <1>1. Len(s) \in Nat /\ Bad \in SUBSET Nat
    OBVIOUS
  <1>2. PICK n \in Bad : \A m \in Bad : n <= m
    BY <1>1, LeastNat
  <1>3. n # 0
    <2>1. Lined(s)[0] = << >> /\ << >> \in Seq(Seq(S))
      BY LinedIs
    <2> QED BY <1>2, <2>1
  <1>4. n \in 1 .. Len(s) /\ n - 1 \in 0 .. Len(s) /\ ~ (n <= n - 1)
    BY <1>1, <1>2, <1>3
  <1>5. Lined(s)[n - 1] \in Seq(Seq(S))
    BY <1>2, <1>4
  <1>6. Lined(s)[n] = More(s, n, Lined(s)[n - 1])
    BY <1>4, LinedIs
  <1>7. SubSeq(s, Start(s, n) + 1, n - 1) \in Seq(S)
    <2>1. Start(s, n) \in Nat /\ Start(s, n) < n
      BY <1>4, StartIs
    <2>2. n - 1 \in Nat /\ Start(s, n) <= n - 1 /\ n - 1 <= Len(s)
      BY <1>4, <2>1
    <2> QED BY <2>1, <2>2, SubSeqShape
  <1> DEFINE x == SubSeq(s, Start(s, n) + 1, n - 1)
             ls == Lined(s)[n - 1]
  <1> HIDE DEF x, ls
  <1>8. Append(ls, x) \in Seq(Seq(S))
    BY <1>5, <1>7 DEF ls, x
  <1>9. Lined(s)[n] \in Seq(Seq(S))
    BY <1>5, <1>6, <1>8 DEF More, ls, x
  <1> QED BY <1>2, <1>9

(* The lines of the beginning of an input.                                 *)
LEMMA LinesOfBeginning ==
    ASSUME NEW S, NEW s \in Seq(S), NEW n \in 0 .. Len(s)
    PROVE  Lines(SubSeq(s, 1, n)) = Lined(s)[n]
  <1> DEFINE t == SubSeq(s, 1, n)
  <1>1. Len(s) \in Nat /\ n \in Nat /\ n <= Len(s) /\ 0 \in Nat
    OBVIOUS
  <1>2. t \in Seq(S) /\ Len(t) = n /\ \A i \in 1 .. n : t[i] = s[i]
    <2>1. /\ SubSeq(s, 0 + 1, n) \in Seq(S) /\ Len(SubSeq(s, 0 + 1, n)) = n - 0
          /\ \A i \in 1 .. (n - 0) : SubSeq(s, 0 + 1, n)[i] = s[0 + i]
      BY <1>1, SubSeqShape
    <2>2. 0 + 1 = 1 /\ n - 0 = n /\ \A i \in 1 .. n : 0 + i = i
      BY <1>1
    <2> QED BY <2>1, <2>2
  <1> HIDE DEF t
  <1>3. \A k \in 0 .. n : k \in Ends(t) <=> k \in Ends(s)
    <2>1. DOMAIN t = 1 .. n /\ DOMAIN s = 1 .. Len(s)
      BY <1>2
    <2> QED BY <1>1, <1>2, <2>1 DEF Ends
  <1>4. Ends(t) \subseteq Nat /\ Ends(s) \subseteq Nat
    BY <1>2 DEF Ends
  <1>5. ASSUME NEW k \in 1 .. n, NEW ls PROVE More(t, k, ls) = More(s, k, ls)
    <2> DEFINE a == Start(s, k)
    <2>1. k \in Nat \ {0} /\ k \in 0 .. n
      BY <1>1
    <2>2. Start(t, k) \in Ends(t) /\ Start(t, k) \in Nat /\ Start(t, k) < k
          /\ a \in Ends(s) /\ a \in Nat /\ a < k
      BY <1>2, <2>1, StartIs
    <2>3. a \in Ends(t)
      BY <1>1, <1>3, <2>2
    <2>4. ASSUME NEW j \in Ends(t), j < k PROVE j <= a
      <3>1. j \in Nat /\ j \in Ends(s)
        BY <1>1, <1>3, <1>4, <2>4
      <3> QED BY <2>1, <2>4, <3>1, StartIs
    <2>5. Start(t, k) = a
      BY <1>2, <2>1, <2>2, <2>3, <2>4, StartIs
    <2>6. SubSeq(t, a + 1, k - 1) = SubSeq(s, a + 1, k - 1)
      <3>1. k - 1 \in Nat /\ a <= k - 1 /\ k - 1 <= n /\ k - 1 <= Len(s)
        BY <1>1, <2>2
      <3>2. /\ SubSeq(t, a + 1, k - 1) \in Seq(S) /\ Len(SubSeq(t, a + 1, k - 1)) = (k - 1) - a
            /\ \A i \in 1 .. ((k - 1) - a) : SubSeq(t, a + 1, k - 1)[i] = t[a + i]
        <4> DEFINE b == k - 1
        <4>1. a \in Nat /\ b \in Nat /\ a <= b /\ b <= Len(t)
          BY <1>2, <2>2, <3>1
        <4> HIDE DEF a, b
        <4>2. /\ SubSeq(t, a + 1, b) \in Seq(S) /\ Len(SubSeq(t, a + 1, b)) = b - a
              /\ \A i \in 1 .. (b - a) : SubSeq(t, a + 1, b)[i] = t[a + i]
          BY <1>2, <4>1, SubSeqShape
        <4> QED BY <4>2 DEF b
      <3>3. /\ SubSeq(s, a + 1, k - 1) \in Seq(S) /\ Len(SubSeq(s, a + 1, k - 1)) = (k - 1) - a
            /\ \A i \in 1 .. ((k - 1) - a) : SubSeq(s, a + 1, k - 1)[i] = s[a + i]
        <4> DEFINE b == k - 1
        <4>1. a \in Nat /\ b \in Nat /\ a <= b /\ b <= Len(s)
          BY <2>2, <3>1
        <4> HIDE DEF a, b
        <4>2. /\ SubSeq(s, a + 1, b) \in Seq(S) /\ Len(SubSeq(s, a + 1, b)) = b - a
              /\ \A i \in 1 .. (b - a) : SubSeq(s, a + 1, b)[i] = s[a + i]
          BY <4>1, SubSeqShape
        <4> QED BY <4>2 DEF b
      <3>4. \A i \in 1 .. ((k - 1) - a) : a + i \in 1 .. n
        BY <1>1, <2>2, <3>1
      <3>5. \A i \in 1 .. ((k - 1) - a) : SubSeq(t, a + 1, k - 1)[i] = SubSeq(s, a + 1, k - 1)[i]
        BY <1>2, <3>2, <3>3, <3>4
      <3> QED BY <3>2, <3>3, <3>5, SameSeq
    <2> QED BY <1>3, <2>1, <2>5, <2>6 DEF More
  <1>6. \A k \in 0 .. n : Lined(t)[k] = Lined(s)[k]
    <2> DEFINE Bad == {k \in 0 .. n : Lined(t)[k] # Lined(s)[k]}
    <2> SUFFICES ASSUME Bad # {} PROVE FALSE
      OBVIOUS
    <2>1. PICK k \in Bad : \A m \in Bad : k <= m
      <3>1. Bad \in SUBSET Nat
        BY <1>1
      <3> QED BY <3>1, LeastNat
    <2>2. k # 0
      BY <1>2, LinedIs, <2>1
    <2>3. k \in 1 .. n /\ k \in 1 .. Len(s) /\ k - 1 \in 0 .. n /\ ~ (k <= k - 1)
      BY <1>1, <2>1, <2>2
    <2>4. Lined(t)[k - 1] = Lined(s)[k - 1]
      BY <2>1, <2>3
    <2>5. Lined(t)[k] = More(t, k, Lined(t)[k - 1]) /\ Lined(s)[k] = More(s, k, Lined(s)[k - 1])
      BY <1>2, <2>3, LinedIs
    <2>6. Lined(t)[k] = Lined(s)[k]
      BY <1>5, <2>3, <2>4, <2>5
    <2> QED BY <2>1, <2>6
  <1>7. Lines(t) = Lined(t)[n]
    BY <1>2, LinesIs
  <1> QED BY <1>1, <1>6, <1>7 DEF t

(* Tokens that end no line add none.                                       *)
LEMMA NoLineEnds ==
    ASSUME NEW S, NEW s \in Seq(S), NEW p \in Nat, NEW n \in Nat, p <= n, n <= Len(s),
           \A k \in (p + 1) .. n : s[k] # NL
    PROVE  Lined(s)[n] = Lined(s)[p]
  <1> DEFINE Bad == {k \in p .. n : Lined(s)[k] # Lined(s)[p]}
  <1> SUFFICES ASSUME Bad # {} PROVE FALSE
    OBVIOUS
  <1>1. PICK k \in Bad : \A m \in Bad : k <= m
    <2>1. Bad \in SUBSET Nat
      OBVIOUS
    <2> QED BY <2>1, LeastNat
  <1>2. k # p /\ k \in p .. n
    BY <1>1
  <1>3. k - 1 \in p .. n /\ ~ (k <= k - 1) /\ k \in 1 .. Len(s) /\ k \in (p + 1) .. n /\ k # 0
    BY <1>2
  <1>4. Lined(s)[k - 1] = Lined(s)[p]
    BY <1>1, <1>3
  <1>5. Lined(s)[k] = More(s, k, Lined(s)[k - 1])
    BY <1>3, LinedIs
  <1>6. k \notin Ends(s)
    BY <1>3 DEF Ends
  <1> QED BY <1>1, <1>4, <1>5, <1>6 DEF More

(* A token that ends a line adds the line that began after a.              *)
LEMMA LineEnds ==
    ASSUME NEW S, NEW s \in Seq(S), NEW a \in Ends(s), NEW p \in Nat, NEW e \in Nat,
           a <= p, p < e, e <= Len(s), s[e] = NL, \A k \in (a + 1) .. (e - 1) : s[k] # NL
    PROVE  Lined(s)[e] = Append(Lined(s)[p], SubSeq(s, a + 1, e - 1)) /\ e \in Ends(s)
  <1>1. a \in Nat /\ e \in 1 .. Len(s) /\ e \in Nat \ {0} /\ e - 1 \in Nat /\ p <= e - 1
        /\ e - 1 <= Len(s)
    BY DEF Ends
  <1>2. e \in Ends(s)
    BY <1>1 DEF Ends
  <1>3. \A j \in Ends(s) : j < e => j <= a
    BY <1>1 DEF Ends
  <1>4. Start(s, e) = a
    BY <1>1, <1>3, StartIs
  <1>5. \A k \in (p + 1) .. (e - 1) : s[k] # NL
    BY <1>1
  <1>6. Lined(s)[e - 1] = Lined(s)[p]
    BY <1>1, <1>5, NoLineEnds
  <1>7. Lined(s)[e] = More(s, e, Lined(s)[e - 1])
    BY <1>1, LinedIs
  <1> QED BY <1>2, <1>4, <1>6, <1>7 DEF More

-----------------------------------------------------------------------------
(* The answers to the lines of an input.                                   *)

(* f holds the concatenations of the first sequences of ss.                *)
FlatOn(ss, n, f) == f = [i \in 1 .. n |-> IF i = 1 THEN ss[i] ELSE f[i - 1] \o ss[i]]

Flat(ss) == CHOOSE f : FlatOn(ss, Len(ss), f)

LEMMA FlattenIs ==
    ASSUME NEW ss, Len(ss) # 0
    PROVE  FlattenSeq(ss) = Flat(ss)[Len(ss)]
  BY DEF FlattenSeq, Flat, FlatOn

LEMMA FlatExist ==
    ASSUME NEW ss
    PROVE  \A n \in Nat : \E f : FlatOn(ss, n, f)
  <1> DEFINE Missing == {n \in Nat : ~ \E f : FlatOn(ss, n, f)}
  <1> SUFFICES ASSUME Missing # {} PROVE FALSE
    OBVIOUS
  <1>1. PICK n \in Missing : \A m \in Missing : n <= m
    BY LeastNat
  <1>2. CASE n = 0
    <2> DEFINE f == [i \in 1 .. 0 |-> << >>]
    <2>1. f = [i \in 1 .. 0 |-> IF i = 1 THEN ss[i] ELSE f[i - 1] \o ss[i]]
      <3>1. 1 .. 0 = {}
        OBVIOUS
      <3> QED BY <3>1
    <2> HIDE DEF f
    <2>2. FlatOn(ss, 0, f)
      BY <2>1 DEF FlatOn
    <2> QED BY <1>1, <1>2, <2>2
  <1>3. CASE n # 0
    <2>1. n - 1 \in Nat /\ n - 1 \notin Missing
      BY <1>1, <1>3
    <2>2. PICK f : FlatOn(ss, n - 1, f)
      BY <2>1
    <2> DEFINE g(i) == IF i = 1 THEN ss[i] ELSE f[i - 1] \o ss[i]
               h == [i \in 1 .. n |-> g(i)]
    <2>3. f = [i \in 1 .. (n - 1) |-> g(i)]
      BY <2>2 DEF FlatOn
    <2>4. \A i \in 1 .. n : i # 1 => i - 1 \in 1 .. (n - 1) /\ i - 1 \in 1 .. n
      BY <1>1
    <2>5. \A i \in 1 .. n : i # 1 => h[i - 1] = f[i - 1]
      <3> HIDE DEF g
      <3> QED BY <2>3, <2>4
    <2>6. h = [i \in 1 .. n |-> IF i = 1 THEN ss[i] ELSE h[i - 1] \o ss[i]]
      <3>1. \A i \in 1 .. n : g(i) = IF i = 1 THEN ss[i] ELSE h[i - 1] \o ss[i]
        <4> HIDE DEF h
        <4> QED BY <2>5
      <3> HIDE DEF g
      <3>2. h = [i \in 1 .. n |-> g(i)]
        OBVIOUS
      <3> HIDE DEF h
      <3> QED BY <3>1, <3>2
    <2> HIDE DEF h
    <2>7. FlatOn(ss, n, h)
      BY <2>6 DEF FlatOn
    <2> QED BY <1>1, <2>7
  <1> QED BY <1>2, <1>3

LEMMA FlatIs ==
    ASSUME NEW R, NEW ss \in Seq(Seq(R))
    PROVE  \A i \in 1 .. Len(ss) : Flat(ss)[i] = IF i = 1 THEN ss[i] ELSE Flat(ss)[i - 1] \o ss[i]
  <1>1. Len(ss) \in Nat
    OBVIOUS
  <1>2. FlatOn(ss, Len(ss), Flat(ss))
    BY <1>1, FlatExist DEF Flat
  <1> DEFINE f == Flat(ss)
  <1> HIDE DEF f
  <1>3. f = [i \in 1 .. Len(ss) |-> IF i = 1 THEN ss[i] ELSE f[i - 1] \o ss[i]]
    BY <1>2 DEF FlatOn, f
  <1>4. \A i \in 1 .. Len(ss) : f[i] = IF i = 1 THEN ss[i] ELSE f[i - 1] \o ss[i]
    BY <1>3
  <1> QED BY <1>4 DEF f

(* One more sequence is appended to the flat sequence.                     *)
LEMMA FlattenMore ==
    ASSUME NEW R, NEW ss \in Seq(Seq(R)), NEW r \in Seq(R)
    PROVE  FlattenSeq(Append(ss, r)) = FlattenSeq(ss) \o r
  <1> DEFINE n == Len(ss)
             tt == Append(ss, r)
  <1>1. n \in Nat /\ tt \in Seq(Seq(R)) /\ Len(tt) = n + 1 /\ tt[n + 1] = r
        /\ \A i \in 1 .. n : tt[i] = ss[i]
    OBVIOUS
  <1> HIDE DEF n, tt
  <1>2. FlattenSeq(tt) = Flat(tt)[n + 1]
    BY <1>1, FlattenIs
  <1>3. Flat(tt)[n + 1] = IF n + 1 = 1 THEN tt[n + 1] ELSE Flat(tt)[(n + 1) - 1] \o tt[n + 1]
    <2>1. n + 1 \in 1 .. Len(tt)
      BY <1>1
    <2> QED BY <1>1, <2>1, FlatIs
  <1>4. CASE n = 0
    <2>1. FlattenSeq(ss) = ss /\ ss = << >>
      BY <1>4 DEF FlattenSeq, n
    <2>2. << >> \o r = r
      OBVIOUS
    <2> QED BY <1>1, <1>2, <1>3, <1>4, <2>1, <2>2 DEF tt
  <1>5. CASE n # 0
    <2>1. \A k \in 1 .. n : Flat(tt)[k] = Flat(ss)[k]
      <3> DEFINE Bad == {k \in 1 .. n : Flat(tt)[k] # Flat(ss)[k]}
      <3> SUFFICES ASSUME Bad # {} PROVE FALSE
        OBVIOUS
      <3>1. PICK k \in Bad : \A m \in Bad : k <= m
        <4>1. Bad \in SUBSET Nat
          BY <1>1
        <4> QED BY <4>1, LeastNat
      <3>2. k \in 1 .. n /\ k \in 1 .. Len(tt)
        BY <1>1, <3>1
      <3>3. /\ Flat(ss)[k] = IF k = 1 THEN ss[k] ELSE Flat(ss)[k - 1] \o ss[k]
            /\ Flat(tt)[k] = IF k = 1 THEN tt[k] ELSE Flat(tt)[k - 1] \o tt[k]
        BY <1>1, <3>2, FlatIs DEF n
      <3>4. k # 1 => k - 1 \in 1 .. n /\ ~ (k <= k - 1)
        BY <1>1, <3>2
      <3>5. k # 1 => Flat(tt)[k - 1] = Flat(ss)[k - 1]
        BY <3>1, <3>4
      <3>6. Flat(tt)[k] = Flat(ss)[k]
        BY <1>1, <3>2, <3>3, <3>5
      <3> QED BY <3>1, <3>6
    <2>2. n \in 1 .. n /\ (n + 1) - 1 = n /\ n + 1 # 1
      BY <1>1, <1>5
    <2>3. FlattenSeq(ss) = Flat(ss)[n]
      BY <1>5, FlattenIs DEF n
    <2> QED BY <1>1, <1>2, <1>3, <2>1, <2>2, <2>3 DEF tt
  <1> QED BY <1>4, <1>5

Reply == {"PONG", "QUOTE", "ERR"}

Answers(ls) == FlattenSeq([k \in DOMAIN ls |-> Immediate(ParseRequest(ls[k]))])

LEMMA ImmediateType ==
    ASSUME NEW req
    PROVE  Immediate(req) \in Seq(Reply)
  <1>1. /\ << "PONG" >> \in Seq(Reply) /\ << "QUOTE" >> \in Seq(Reply)
        /\ << "ERR" >> \in Seq(Reply) /\ << >> \in Seq(Reply)
    BY DEF Reply
  <1> QED BY <1>1 DEF Immediate

(* The answers to no lines, and to one more.                               *)
LEMMA AnswersNone == Answers(<< >>) = << >>
  <1> DEFINE ss == [k \in DOMAIN << >> |-> Immediate(ParseRequest(<< >>[k]))]
  <1>1. ss = << >>
    OBVIOUS
  <1>2. Len(<< >>) = 0
    OBVIOUS
  <1> QED BY <1>1, <1>2 DEF Answers, FlattenSeq

Mapped(F, ls) == FlattenSeq([k \in DOMAIN ls |-> F[ls[k]]])

LEMMA MappedMore ==
    ASSUME NEW T, NEW R, NEW ls \in Seq(T), NEW x \in T, NEW F, \A l \in T : F[l] \in Seq(R)
    PROVE  Mapped(F, Append(ls, x)) = Mapped(F, ls) \o F[x]
  <1> DEFINE f(l) == F[l]
             ss == [k \in DOMAIN ls |-> f(ls[k])]
             a == Append(ls, x)
             tt == [k \in DOMAIN a |-> f(a[k])]
  <1>1. \A l \in T : f(l) \in Seq(R)
    OBVIOUS
  <1> HIDE DEF f
  <1>2. ss \in Seq(Seq(R)) /\ Len(ss) = Len(ls) /\ \A k \in 1 .. Len(ls) : ss[k] = f(ls[k])
    <2>1. DOMAIN ls = 1 .. Len(ls) /\ Len(ls) \in Nat /\ \A k \in 1 .. Len(ls) : ls[k] \in T
      OBVIOUS
    <2>2. \A k \in 1 .. Len(ls) : f(ls[k]) \in Seq(R)
      BY <1>1, <2>1
    <2>3. ss = [k \in 1 .. Len(ls) |-> f(ls[k])]
      BY <2>1
    <2> HIDE DEF ss
    <2>4. ss \in Seq(Seq(R)) /\ Len(ss) = Len(ls)
      BY <2>1, <2>2, <2>3
    <2> QED BY <2>3, <2>4
  <1>3. /\ tt \in Seq(Seq(R)) /\ Len(tt) = Len(ls) + 1
        /\ \A k \in 1 .. Len(ls) : tt[k] = f(ls[k])
        /\ tt[Len(ls) + 1] = f(x)
    BY <1>1
  <1> HIDE DEF ss, tt, a
  <1>4. /\ Append(ss, f(x)) \in Seq(Seq(R)) /\ Len(Append(ss, f(x))) = Len(ls) + 1
        /\ \A k \in 1 .. Len(ls) : Append(ss, f(x))[k] = f(ls[k])
        /\ Append(ss, f(x))[Len(ls) + 1] = f(x)
    BY <1>1, <1>2
  <1>5. \A k \in 1 .. (Len(ls) + 1) : k \in 1 .. Len(ls) \/ k = Len(ls) + 1
    OBVIOUS
  <1>6. tt = Append(ss, f(x))
    <2> DEFINE u == Append(ss, f(x))
    <2>0. /\ u \in Seq(Seq(R)) /\ Len(u) = Len(ls) + 1
          /\ \A k \in 1 .. Len(ls) : u[k] = f(ls[k])
          /\ u[Len(ls) + 1] = f(x)
      BY <1>4, Zenon
    <2> HIDE DEF u
    <2>1. u \in Seq(Seq(R)) /\ Len(tt) = Len(u)
      BY <1>3, <2>0
    <2>2. ASSUME NEW k \in 1 .. Len(tt) PROVE tt[k] = u[k]
      <3>1. k \in 1 .. Len(ls) => tt[k] = f(ls[k]) /\ u[k] = f(ls[k])
        BY <1>3, <2>0
      <3>2. tt[Len(ls) + 1] = u[Len(ls) + 1]
        BY <1>3, <2>0, Zenon
      <3>3. k \in 1 .. Len(ls) \/ k = Len(ls) + 1
        BY <1>3, <1>5, <2>2
      <3> QED BY <3>1, <3>2, <3>3, Zenon
    <2>3. tt = u
      BY <1>3, <2>1, <2>2, SameSeq
    <2> QED BY <2>3 DEF u
  <1>7. FlattenSeq(tt) = FlattenSeq(ss) \o f(x)
    BY <1>1, <1>2, <1>6, FlattenMore
  <1> QED BY <1>7 DEF Mapped, ss, tt, a, f

LEMMA AnswersMore ==
    ASSUME NEW T, NEW ls \in Seq(T), NEW x \in T
    PROVE  Answers(Append(ls, x)) = Answers(ls) \o Immediate(ParseRequest(x))
  <1> DEFINE F == [l \in T |-> Immediate(ParseRequest(l))]
             a == Append(ls, x)
  <1>1. \A l \in T : F[l] = Immediate(ParseRequest(l)) /\ F[l] \in Seq(Reply)
    BY ImmediateType
  <1> HIDE DEF F
  <1>2. Mapped(F, Append(ls, x)) = Mapped(F, ls) \o F[x]
    <2>1. \A l \in T : F[l] \in Seq(Reply)
      BY <1>1
    <2> QED BY <2>1, MappedMore
  <1>3. (\A k \in DOMAIN ls : ls[k] \in T) /\ (\A k \in DOMAIN a : a[k] \in T)
    OBVIOUS
  <1> HIDE DEF a
  <1>4. /\ [k \in DOMAIN a |-> F[a[k]]] = [k \in DOMAIN a |-> Immediate(ParseRequest(a[k]))]
        /\ [k \in DOMAIN ls |-> F[ls[k]]] = [k \in DOMAIN ls |-> Immediate(ParseRequest(ls[k]))]
    BY <1>1, <1>3
  <1>5. F[x] = Immediate(ParseRequest(x))
    BY <1>1
  <1> QED BY <1>2, <1>4, <1>5 DEF Answers, Mapped, a

(* The answers are replies.                                                *)
LEMMA AnswersType ==
    ASSUME NEW S, NEW ls \in Seq(S)
    PROVE  Answers(ls) \in Seq(Reply)
  <1> DEFINE ss == [k \in DOMAIN ls |-> Immediate(ParseRequest(ls[k]))]
  <1>1. \A k \in DOMAIN ls : Immediate(ParseRequest(ls[k])) \in Seq(Reply)
    BY ImmediateType
  <1>2. ss \in Seq(Seq(Reply)) /\ Len(ss) = Len(ls)
    BY <1>1
  <1>3. Answers(ls) = FlattenSeq(ss)
    BY DEF Answers
  <1> HIDE DEF ss
  <1>4. CASE Len(ss) = 0
    <2>1. FlattenSeq(ss) = ss /\ ss = << >>
      BY <1>2, <1>4 DEF FlattenSeq
    <2>2. << >> \in Seq(Reply)
      OBVIOUS
    <2> QED BY <1>3, <2>1, <2>2
  <1>5. CASE Len(ss) # 0
    <2> DEFINE Bad == {i \in 1 .. Len(ss) : Flat(ss)[i] \notin Seq(Reply)}
    <2>1. Bad = {}
      <3> SUFFICES ASSUME Bad # {} PROVE FALSE
        OBVIOUS
      <3>1. Len(ss) \in Nat /\ Bad \in SUBSET Nat
        BY <1>2
      <3>2. PICK i \in Bad : \A m \in Bad : i <= m
        BY <3>1, LeastNat
      <3>3. i \in 1 .. Len(ss) /\ ss[i] \in Seq(Reply)
        BY <1>2, <3>2
      <3>4. i # 1 => i - 1 \in 1 .. Len(ss) /\ ~ (i <= i - 1)
        BY <3>1, <3>3
      <3>5. i # 1 => Flat(ss)[i - 1] \in Seq(Reply)
        BY <3>2, <3>4
      <3>6. Flat(ss)[i] = IF i = 1 THEN ss[i] ELSE Flat(ss)[i - 1] \o ss[i]
        BY <1>2, <3>3, FlatIs
      <3> DEFINE g == Flat(ss)[i - 1]
                 h == ss[i]
      <3> HIDE DEF g, h
      <3>7. g \in Seq(Reply) /\ h \in Seq(Reply) => g \o h \in Seq(Reply)
        OBVIOUS
      <3>8. Flat(ss)[i] \in Seq(Reply)
        BY <3>3, <3>5, <3>6, <3>7 DEF g, h
      <3> QED BY <3>2, <3>8
    <2>2. Len(ss) \in 1 .. Len(ss)
      BY <1>2, <1>5
    <2>3. FlattenSeq(ss) = Flat(ss)[Len(ss)]
      BY <1>5, FlattenIs
    <2> QED BY <1>3, <2>1, <2>2, <2>3
  <1> QED BY <1>4, <1>5

-----------------------------------------------------------------------------
(* What the thread of a client has read and written.                       *)

Told == {"OK", "TRADE", "tob"}
Kept == {"OK", "TRADE"}

(* A client's thread, having gone through p of the r tokens it received of *)
(* s: it keeps the tokens since the last end of a line, and has written    *)
(* the answers to the lines that ended, followed by the log at the end.    *)
ClientOK(s, r, p, at, kept, k, cp, lg, w) ==
    /\ s \in Seq(Range(s))
    /\ r \in 0 .. Len(s) /\ p \in 0 .. r
    /\ at \in Threads
    /\ k \in Seq(Told) /\ (k # << >> => at = "engine")
    /\ cp \subseteq {"ws"}
    /\ lg \in Seq(Kept)
    /\ w \in Seq(Reply \cup Kept)
    /\ at = "none" => r = 0 /\ kept = << >> /\ w = << >>
    /\ at \notin {"parse", "engine"} => p = r
    /\ \E a \in Ends(s) : a <= p /\ (\A i \in (a + 1) .. p : s[i] # NL) /\ kept = SubSeq(s, a + 1, p)
    /\ w = Answers(Lined(s)[p]) \o (IF at = "closed" THEN lg ELSE << >>)

(* A connection that has been accepted, or not yet.                        *)
LEMMA ClientBegins ==
    ASSUME NEW s, s \in Seq(Range(s)), NEW cp \in SUBSET {"ws"}, NEW lg \in Seq(Kept)
    PROVE  ClientOK(s, 0, 0, "none", << >>, << >>, cp, lg, << >>)
  <1>1. 0 \in Ends(s) /\ 0 <= 0 /\ 0 \in 0 .. Len(s) /\ 0 \in 0 .. 0 /\ \A i \in (0 + 1) .. 0 : s[i] # NL
    BY DEF Ends
  <1>2. << >> = SubSeq(s, 0 + 1, 0)
    <2>1. 0 \in Nat /\ 0 <= Len(s) /\ 0 - 0 = 0
      OBVIOUS
    <2>2. SubSeq(s, 0 + 1, 0) \in Seq(Range(s)) /\ Len(SubSeq(s, 0 + 1, 0)) = 0
      BY <2>1, SubSeqShape
    <2> QED BY <2>2
  <1>3. Answers(Lined(s)[0]) = << >>
    BY LinedIs, AnswersNone
  <1>4. << >> = << >> \o << >> /\ << >> \in Seq(Told) /\ << >> \in Seq(Reply \cup Kept)
    OBVIOUS
  <1>5. "none" \in Threads
    BY DEF Threads
  <1>6. << >> = Answers(Lined(s)[0]) \o (IF "none" = "closed" THEN lg ELSE << >>)
    BY <1>3, <1>4
  <1>7. \E a \in Ends(s) : a <= 0 /\ (\A i \in (a + 1) .. 0 : s[i] # NL) /\ << >> = SubSeq(s, a + 1, 0)
    BY <1>1, <1>2
  <1> QED BY <1>1, <1>4, <1>5, <1>6, <1>7 DEF ClientOK

(* More is received.                                                       *)
LEMMA ClientReceives ==
    ASSUME NEW s, NEW r, NEW p, NEW kept, NEW k, NEW cp, NEW lg, NEW w, NEW n \in Nat,
           ClientOK(s, r, p, "recv", kept, k, cp, lg, w), r + n <= Len(s)
    PROVE  ClientOK(s, r + n, p, "parse", kept, k, cp, lg, w)
  <1>1. Len(s) \in Nat /\ r \in 0 .. Len(s) /\ p \in 0 .. r
    BY DEF ClientOK
  <1>2. r + n \in 0 .. Len(s) /\ p \in 0 .. (r + n)
    BY <1>1
  <1> QED BY <1>2 DEF ClientOK, Threads

(* The rest of what was received ends no line.                             *)
LEMMA RestEndsNone ==
    ASSUME NEW s, NEW r, NEW p, NEW kept, NEW k, NEW cp, NEW lg, NEW w,
           ClientOK(s, r, p, "parse", kept, k, cp, lg, w),
           ~ Contains(SubSeq(s, p + 1, r), NL)
    PROVE  (\A i \in (p + 1) .. r : s[i] # NL) /\ Lined(s)[r] = Lined(s)[p]
  <1> DEFINE S == Range(s)
             x == SubSeq(s, p + 1, r)
  <1>1. s \in Seq(S) /\ Len(s) \in Nat /\ r \in Nat /\ p \in Nat /\ p <= r /\ r <= Len(s)
    BY DEF ClientOK
  <1> HIDE DEF S
  <1>2. x \in Seq(S) /\ Len(x) = r - p /\ \A i \in 1 .. (r - p) : x[i] = s[p + i]
    BY <1>1, SubSeqShape
  <1>3. \A i \in 1 .. (r - p) : x[i] # NL
    BY <1>2 DEF Contains
  <1> HIDE DEF x
  <1>4. \A i \in (p + 1) .. r : s[i] # NL
    <2> SUFFICES ASSUME NEW i \in (p + 1) .. r PROVE s[i] # NL
      OBVIOUS
    <2>1. i - p \in 1 .. (r - p) /\ p + (i - p) = i
      BY <1>1
    <2> QED BY <1>2, <1>3, <2>1
  <1>5. Lined(s)[r] = Lined(s)[p]
    BY <1>1, <1>4, NoLineEnds
  <1> QED BY <1>4, <1>5

LEMMA ClientKeeps ==
    ASSUME NEW s, NEW r, NEW p, NEW kept, NEW k, NEW cp, NEW lg, NEW w, NEW to \in {"recv", "flush"},
           ClientOK(s, r, p, "parse", kept, k, cp, lg, w),
           ~ Contains(SubSeq(s, p + 1, r), NL)
    PROVE  ClientOK(s, r, r, to, kept \o SubSeq(s, p + 1, r), k, cp, lg, w)
  <1> DEFINE S == Range(s)
             x == SubSeq(s, p + 1, r)
  <1>1. s \in Seq(S) /\ Len(s) \in Nat /\ r \in Nat /\ p \in Nat /\ p <= r /\ r <= Len(s)
    BY DEF ClientOK
  <1> HIDE DEF S
  <1> HIDE DEF x
  <1>2. (\A i \in (p + 1) .. r : s[i] # NL) /\ Lined(s)[r] = Lined(s)[p]
    BY RestEndsNone
  <1>3. PICK a \in Ends(s) : a <= p /\ (\A i \in (a + 1) .. p : s[i] # NL) /\ kept = SubSeq(s, a + 1, p)
    BY DEF ClientOK
  <1>4. a \in Nat /\ a <= r
    BY <1>1, <1>3 DEF Ends
  <1>5. \A i \in (a + 1) .. r : s[i] # NL
    BY <1>1, <1>2, <1>3, <1>4
  <1>6. kept \o x = SubSeq(s, a + 1, r)
    BY <1>1, <1>3, <1>4, SubSeqJoins DEF x
  <1>7. r \in 0 .. r /\ to \in Threads /\ to # "none" /\ to # "closed"
    BY <1>1 DEF Threads
  <1>8. k = << >>
    BY DEF ClientOK
  <1>9. \E b \in Ends(s) : b <= r /\ (\A i \in (b + 1) .. r : s[i] # NL) /\ kept \o x = SubSeq(s, b + 1, r)
    BY <1>3, <1>4, <1>5, <1>6
  <1> QED BY <1>2, <1>7, <1>8, <1>9 DEF ClientOK, x

(* The first end of a line in what was received.                           *)
FirstEnd(x, eol) ==
    eol \in 1 .. Len(x) /\ x[eol] = NL /\ \A i \in 1 .. (eol - 1) : x[i] # NL

LEMMA FirstNL ==
    ASSUME NEW S, NEW x \in Seq(S), Contains(x, NL), NEW eol, eol = SelectInSeq(x, LAMBDA t : t = NL)
    PROVE  FirstEnd(x, eol)
  <1> DEFINE I == {i \in 1 .. Len(x) : x[i] = NL}
  <1>1. I # {} /\ I \in SUBSET Nat
    BY DEF Contains
  <1>2. PICK m \in I : \A j \in I : m <= j
    BY <1>1, LeastNat
  <1>3. eol = Min(I)
    BY <1>1 DEF SelectInSeq
  <1>4. eol \in I /\ \A j \in I : eol <= j
    BY <1>2, <1>3 DEF Min
  <1>5. Len(x) \in Nat
    OBVIOUS
  <1>6. ASSUME NEW i \in 1 .. (eol - 1) PROVE x[i] # NL
    <2>1. i \in 1 .. Len(x) /\ ~ (eol <= i)
      BY <1>4, <1>5
    <2> QED BY <1>4, <2>1
  <1> QED BY <1>4, <1>6 DEF FirstEnd

(* The line that ends is what was kept of it and the rest up to its end.   *)
LineAt(S, s, r, p, a, eol) ==
    /\ s \in Seq(S) /\ p \in Nat /\ r \in Nat /\ p <= r /\ r <= Len(s)
    /\ a \in Ends(s) /\ a <= p
    /\ \A i \in (a + 1) .. p : s[i] # NL
    /\ eol \in 1 .. (r - p) /\ s[p + eol] = NL
    /\ \A i \in 1 .. (eol - 1) : s[p + i] # NL

Whole(s, r, p, a, eol) == SubSeq(s, a + 1, p) \o SubSeq(SubSeq(s, p + 1, r), 1, eol - 1)

LEMMA LineRead ==
    ASSUME NEW S, NEW s, NEW p, NEW r, NEW a, NEW eol, LineAt(S, s, r, p, a, eol)
    PROVE  /\ p + eol \in Ends(s) /\ Whole(s, r, p, a, eol) \in Seq(S)
           /\ Lined(s)[p + eol] = Append(Lined(s)[p], Whole(s, r, p, a, eol))
  <1> USE DEF LineAt
  <1> DEFINE e == p + eol
             q == e - 1
             m == eol - 1
             whole == Whole(s, r, p, a, eol)
  <1>1. a \in Nat
    BY DEF Ends
  <1>2. /\ Len(s) \in Nat /\ e \in Nat /\ p < e /\ e <= Len(s)
        /\ q \in Nat /\ m \in Nat /\ p + m = q /\ p + m <= r /\ p <= q /\ a <= q /\ q <= Len(s)
    BY <1>1
  <1>3. ASSUME NEW i \in (a + 1) .. (e - 1) PROVE s[i] # NL
    <2>1. CASE i <= p
      <3>1. i \in (a + 1) .. p
        BY <1>1, <2>1
      <3> QED BY <3>1
    <2>2. CASE ~ (i <= p)
      <3>1. i - p \in 1 .. (eol - 1) /\ p + (i - p) = i
        BY <1>1, <2>2
      <3> QED BY <3>1
    <2> QED BY <2>1, <2>2
  <1>4. whole = SubSeq(s, a + 1, p) \o SubSeq(SubSeq(s, p + 1, r), 1, m) /\ s[e] = NL
    BY DEF Whole
  <1> HIDE DEF e, m, whole
  <1>5. Lined(s)[e] = Append(Lined(s)[p], SubSeq(s, a + 1, q)) /\ e \in Ends(s)
    BY <1>2, <1>3, <1>4, LineEnds
  <1> HIDE DEF q
  <1>6. whole = SubSeq(s, a + 1, q)
    <2>1. /\ s \in Seq(S) /\ p \in Nat /\ r \in Nat /\ a <= p /\ r <= Len(s)
          /\ m \in Nat /\ q \in Nat /\ p + m = q /\ p + m <= r /\ p <= q /\ q <= Len(s)
      BY <1>2
    <2> HIDE DEF LineAt
    <2>2. SubSeq(s, a + 1, p) \o SubSeq(SubSeq(s, p + 1, r), 1, m) = SubSeq(s, a + 1, q)
      BY <1>1, <2>1, WholeLine
    <2> QED BY <1>4, <2>2
  <1>7. SubSeq(s, a + 1, q) \in Seq(S)
    BY <1>1, <1>2, SubSeqShape
  <1>8. e \in Ends(s) /\ whole \in Seq(S) /\ Lined(s)[e] = Append(Lined(s)[p], whole)
    BY <1>5, <1>6, <1>7, Zenon
  <1> QED BY <1>8 DEF e, whole

(* A line ends.                                                            *)
LineOf(s, r, p, kept, eol) == kept \o SubSeq(SubSeq(s, p + 1, r), 1, eol - 1)

LineAdded(s, r, p, e, whole) ==
    /\ e \in Ends(s) /\ e \in 0 .. r /\ e \in Nat /\ e <= Len(s)
    /\ whole \in Seq(Range(s)) /\ Lined(s)[p] \in Seq(Seq(Range(s)))
    /\ Lined(s)[e] = Append(Lined(s)[p], whole)

LEMMA LineTaken ==
    ASSUME NEW s, NEW r, NEW p, NEW kept, NEW k, NEW cp, NEW lg, NEW w, NEW eol,
           ClientOK(s, r, p, "parse", kept, k, cp, lg, w),
           FirstEnd(SubSeq(s, p + 1, r), eol)
    PROVE  LineAdded(s, r, p, p + eol, LineOf(s, r, p, kept, eol))
  <1> DEFINE S == Range(s)
             x == SubSeq(s, p + 1, r)
             whole == LineOf(s, r, p, kept, eol)
  <1>1. s \in Seq(S) /\ Len(s) \in Nat /\ r \in Nat /\ p \in Nat /\ p <= r /\ r <= Len(s)
    BY DEF ClientOK
  <1>2. PICK a \in Ends(s) : a <= p /\ (\A i \in (a + 1) .. p : s[i] # NL) /\ kept = SubSeq(s, a + 1, p)
    BY DEF ClientOK
  <1> HIDE DEF S
  <1>3. x \in Seq(S) /\ Len(x) = r - p /\ \A i \in 1 .. (r - p) : x[i] = s[p + i]
    BY <1>1, SubSeqShape
  <1>4. eol \in 1 .. Len(x) /\ x[eol] = NL /\ \A i \in 1 .. (eol - 1) : x[i] # NL
    BY DEF FirstEnd
  <1> HIDE DEF x
  <1>5. eol \in 1 .. (r - p) /\ p + eol \in Nat /\ p + eol <= Len(s) /\ p + eol \in 0 .. r
        /\ \A i \in 1 .. (eol - 1) : i \in 1 .. (r - p)
    <2>1. eol \in 1 .. (r - p)
      BY <1>3, <1>4
    <2> QED BY <1>1, <2>1
  <1>6. s[p + eol] = NL /\ \A i \in 1 .. (eol - 1) : s[p + i] # NL
    BY <1>3, <1>4, <1>5
  <1>7. LineAt(S, s, r, p, a, eol)
    BY <1>1, <1>2, <1>5, <1>6 DEF LineAt
  <1>8. whole = Whole(s, r, p, a, eol)
    BY <1>2 DEF Whole, LineOf
  <1> HIDE DEF whole
  <1>9. p + eol \in Ends(s) /\ whole \in Seq(S) /\ Lined(s)[p + eol] = Append(Lined(s)[p], whole)
    <2>1. /\ p + eol \in Ends(s) /\ Whole(s, r, p, a, eol) \in Seq(S)
          /\ Lined(s)[p + eol] = Append(Lined(s)[p], Whole(s, r, p, a, eol))
      BY <1>7, LineRead
    <2> QED BY <1>8, <2>1, Zenon
  <1>10. Lined(s)[p] \in Seq(Seq(S))
    <2>1. p \in 0 .. Len(s)
      BY <1>1
    <2> QED BY <1>1, <2>1, LinedType
  <1> QED BY <1>5, <1>9, <1>10 DEF S, whole, LineAdded

LEMMA ClientLine ==
    ASSUME NEW s, NEW r, NEW p, NEW kept, NEW cp, NEW lg, NEW w, NEW eol, NEW k,
           NEW to \in {"parse", "engine"},
           ClientOK(s, r, p, "parse", kept, << >>, cp, lg, w),
           FirstEnd(SubSeq(s, p + 1, r), eol),
           k \in Seq(Told), k # << >> => to = "engine"
    PROVE  ClientOK(s, r, p + eol, to, << >>, k, cp, lg,
               w \o Immediate(ParseRequest(LineOf(s, r, p, kept, eol))))
  <1> DEFINE S == Range(s)
             e == p + eol
             whole == LineOf(s, r, p, kept, eol)
             ls == Lined(s)[p]
  <1>1. s \in Seq(S) /\ Len(s) \in Nat
    BY DEF ClientOK
  <1>2. cp \subseteq {"ws"} /\ lg \in Seq(Kept) /\ w \in Seq(Reply \cup Kept)
        /\ w = Answers(Lined(s)[p]) \o << >>
    BY DEF ClientOK
  <1>3. /\ e \in Ends(s) /\ e \in 0 .. r /\ e \in Nat /\ e <= Len(s)
        /\ whole \in Seq(S) /\ ls \in Seq(Seq(S)) /\ Lined(s)[e] = Append(ls, whole)
    <2>1. LineAdded(s, r, p, e, whole)
      BY LineTaken
    <2> QED BY <2>1, Zenon DEF LineAdded
  <1> HIDE DEF S, e, whole, ls
  <1>4. Answers(Lined(s)[e]) = Answers(ls) \o Immediate(ParseRequest(whole))
    BY <1>3, AnswersMore
  <1> DEFINE im == Immediate(ParseRequest(whole))
             nw == w \o im
             old == Answers(ls)
  <1>5. im \in Seq(Reply)
    BY ImmediateType
  <1>6. old \in Seq(Reply)
    BY <1>3, AnswersType
  <1> HIDE DEF im, old
  <1>7. w = old
    <2>1. w = old \o << >>
      BY <1>2 DEF ls, old
    <2> QED BY <1>6, <2>1
  <1>8. im \in Seq(Reply \cup Kept)
    BY <1>5
  <1>9. nw \in Seq(Reply \cup Kept)
    BY <1>2, <1>8
  <1>10. nw = Answers(Lined(s)[e]) \o << >>
    <2>1. nw = Answers(Lined(s)[e])
      BY <1>4, <1>7 DEF old, im
    <2> HIDE DEF nw
    <2>2. nw \o << >> = nw
      BY <1>9
    <2> QED BY <2>1, <2>2
  <1> HIDE DEF nw
  <1>11. << >> = SubSeq(s, e + 1, e) /\ \A i \in (e + 1) .. e : s[i] # NL
    <2>0. e \in Nat /\ e <= e /\ e <= Len(s)
      BY <1>3
    <2>1. SubSeq(s, e + 1, e) \in Seq(S) /\ Len(SubSeq(s, e + 1, e)) = e - e
      BY <1>1, <2>0, SubSeqShape
    <2>2. e - e = 0 /\ e + 1 > e
      BY <1>3
    <2>3. << >> = SubSeq(s, e + 1, e)
      BY <2>1, <2>2
    <2> QED BY <1>3, <2>2, <2>3
  <1>12. \E b \in Ends(s) : b <= e /\ (\A i \in (b + 1) .. e : s[i] # NL) /\ << >> = SubSeq(s, b + 1, e)
    <2>1. e <= e /\ e \in Ends(s)
      BY <1>3
    <2> QED BY <1>11, <2>1
  <1>13. s \in Seq(Range(s)) /\ r \in 0 .. Len(s) /\ to \in Threads /\ to # "none" /\ to # "closed"
    BY DEF ClientOK, Threads
  <1>14. ClientOK(s, r, e, to, << >>, k, cp, lg, nw)
    BY <1>2, <1>3, <1>9, <1>10, <1>12, <1>13 DEF ClientOK
  <1> QED BY <1>14 DEF nw, im, whole, e

(* The log is written at the end.                                          *)
LEMMA ClientFlushes ==
    ASSUME NEW s, NEW r, NEW p, NEW kept, NEW k, NEW cp, NEW lg, NEW w,
           ClientOK(s, r, p, "flush", kept, k, cp, lg, w)
    PROVE  ClientOK(s, r, p, "closed", kept, k, cp, lg, w \o lg)
  <1>1. /\ s \in Seq(Range(s)) /\ p \in 0 .. Len(s)
        /\ lg \in Seq(Kept) /\ w \in Seq(Reply \cup Kept) /\ w = Answers(Lined(s)[p]) \o << >>
    BY DEF ClientOK
  <1> DEFINE old == Answers(Lined(s)[p])
             S == Range(s)
  <1>2. Lined(s)[p] \in Seq(Seq(S))
    <2> HIDE DEF S
    <2> QED BY <1>1, LinedType DEF S
  <1>3. old \in Seq(Reply)
    BY <1>2, AnswersType
  <1> HIDE DEF old
  <1>4. w = old
    <2>1. w = old \o << >>
      BY <1>1 DEF old
    <2> QED BY <1>3, <2>1
  <1>5. lg \in Seq(Reply \cup Kept)
    BY <1>1
  <1>6. w \o lg \in Seq(Reply \cup Kept)
    BY <1>1, <1>5
  <1>7. w \o lg = Answers(Lined(s)[p]) \o lg
    BY <1>4 DEF old
  <1>8. "closed" \in Threads
    BY DEF Threads
  <1> QED BY <1>6, <1>7, <1>8 DEF ClientOK

-----------------------------------------------------------------------------
(* The gateway as a whole.                                                 *)

(* The variables of the program and of the accept thread.                  *)
Globals ==
    /\ main \in {"gw", "ws", "up", "wsclose", "wsstop", "gwstop", "joining", "exited"}
    /\ running \in BOOLEAN /\ corrupt \in BOOLEAN /\ wsAlive \in BOOLEAN
    /\ wsCommand \in BOOLEAN /\ raced \in BOOLEAN
    /\ acceptor \in [pc : {"off", "accept", "spawn", "done"}, conn : Conn \cup {0}]
    /\ listeners \subseteq {"ws"}

PerConn ==
    /\ DOMAIN stream = Conn /\ DOMAIN received = Conn /\ DOMAIN pos = Conn /\ DOMAIN line = Conn
    /\ DOMAIN call = Conn /\ DOMAIN copy = Conn /\ DOMAIN log = Conn /\ DOMAIN wire = Conn
    /\ DOMAIN pc = Conn

ThreadOK(c) ==
    /\ stream[c] \in Streams[c] \cup {<< >>}
    /\ ClientOK(stream[c], received[c], pos[c], pc[c], line[c], call[c], copy[c], log[c], wire[c])

(* Every thread has answered what it went through, whatever the others do. *)
BufInv == Globals /\ PerConn /\ \A c \in Conn : ThreadOK(c)

LEMMA StreamIsSeq ==
    ASSUME NEW c \in Conn, NEW s \in Streams[c] \cup {<< >>}
    PROVE  s \in Seq(Range(s))
  <1>1. << >> \in Seq(Range(<< >>))
    OBVIOUS
  <1> QED BY <1>1, GatewayAssumption DEF Conn

LEMMA InitBuf == Init => BufInv
  <1> SUFFICES ASSUME Init PROVE BufInv
    OBVIOUS
  <1>1. Globals /\ PerConn
    BY DEF Init, Globals, PerConn
  <1>2. ASSUME NEW c \in Conn PROVE ThreadOK(c)
    <2>1. << >> \in Seq(Range(<< >>)) /\ << >> \in Streams[c] \cup {<< >>}
      BY StreamIsSeq
    <2>2. << >> \in Seq(Kept) /\ {} \in SUBSET {"ws"}
      OBVIOUS
    <2>3. ClientOK(<< >>, 0, 0, "none", << >>, << >>, {}, << >>, << >>)
      BY <2>1, <2>2, ClientBegins
    <2>4. /\ stream[c] = << >> /\ received[c] = 0 /\ pos[c] = 0 /\ pc[c] = "none" /\ line[c] = << >>
          /\ call[c] = << >> /\ copy[c] = {} /\ log[c] = << >> /\ wire[c] = << >>
      BY DEF Init
    <2> QED BY <2>1, <2>3, <2>4 DEF ThreadOK
  <1> QED BY <1>1, <1>2 DEF BufInv

(* A step of one thread leaves those of the others as they are.            *)
Others(c) ==
    \A d \in Conn \ {c} :
        /\ stream'[d] = stream[d] /\ received'[d] = received[d] /\ pos'[d] = pos[d]
        /\ pc'[d] = pc[d] /\ line'[d] = line[d] /\ call'[d] = call[d] /\ copy'[d] = copy[d]
        /\ log'[d] = log[d] /\ wire'[d] = wire[d]

LEMMA ThreadStep ==
    ASSUME BufInv, Globals', PerConn', NEW c \in Conn, Others(c),
           NEW s, NEW r, NEW p, NEW at, NEW kept, NEW k, NEW cp, NEW lg, NEW w,
           ClientOK(s, r, p, at, kept, k, cp, lg, w), s \in Streams[c] \cup {<< >>},
           stream'[c] = s, received'[c] = r, pos'[c] = p, pc'[c] = at, line'[c] = kept,
           call'[c] = k, copy'[c] = cp, log'[c] = lg, wire'[c] = w
    PROVE  BufInv'
  <1>1. ThreadOK(c)'
    BY DEF ThreadOK
  <1>2. ASSUME NEW d \in Conn, d # c PROVE ThreadOK(d)'
    <2>1. ThreadOK(d)
      BY DEF BufInv
    <2>2. /\ stream'[d] = stream[d] /\ received'[d] = received[d] /\ pos'[d] = pos[d]
          /\ pc'[d] = pc[d] /\ line'[d] = line[d] /\ call'[d] = call[d] /\ copy'[d] = copy[d]
          /\ log'[d] = log[d] /\ wire'[d] = wire[d]
      BY <1>2 DEF Others
    <2> QED BY <2>1, <2>2 DEF ThreadOK
  <1>3. \A d \in Conn : ThreadOK(d)'
    BY <1>1, <1>2
  <1> QED BY <1>3 DEF BufInv

(* The steps of main, of the WebSocket server and of the accept thread.    *)
LEMMA ProgramStepBuf ==
    ASSUME BufInv,
           \/ \E ok \in BOOLEAN : GwStart(ok) \/ WsStart(ok)
           \/ Signal \/ WsClosed \/ WsStopped \/ GwStop \/ GwJoined
           \/ WsEnter \/ WsLeave \/ AcceptEnd
    PROVE  BufInv'
  <1>1. UNCHANGED << inVars, pc, outVars >>
    BY DEF GwStart, WsStart, Signal, WsClosed, WsStopped, GwStop, GwJoined, WsEnter, WsLeave, AcceptEnd
  <1>2. UNCHANGED << stream, received, pos, pc, line, call, copy, log, wire >>
    BY <1>1 DEF inVars, outVars
  <1>3. PerConn' /\ \A c \in Conn : ThreadOK(c)'
    BY <1>2 DEF BufInv, PerConn, ThreadOK
  <1>4. Globals'
    <2> USE DEF BufInv, Globals
    <2>1. CASE \E ok \in BOOLEAN : GwStart(ok) \/ WsStart(ok)
      BY <2>1 DEF GwStart, WsStart
    <2>2. CASE Signal \/ WsClosed \/ WsStopped \/ GwStop \/ GwJoined
      BY <2>2 DEF Signal, WsClosed, WsStopped, GwStop, GwJoined
    <2>3. CASE WsEnter \/ WsLeave
      BY <2>3 DEF WsEnter, WsLeave, EngineBusy
    <2>4. CASE AcceptEnd
      BY <2>4 DEF AcceptEnd
    <2> QED BY <2>1, <2>2, <2>3, <2>4
  <1> QED BY <1>3, <1>4 DEF BufInv

(* The steps of the accept thread for a connection.                        *)
LEMMA AcceptBuf ==
    ASSUME BufInv, NEW c \in Conn, NEW s \in Streams[c], Accept(c, s)
    PROVE  BufInv'
  <1>1. Globals /\ PerConn /\ ThreadOK(c)
    BY DEF BufInv
  <1>2. /\ pc[c] = "none" /\ stream' = [stream EXCEPT ![c] = s]
        /\ UNCHANGED << received, pos, line, pc, call, copy, log, wire >>
    BY DEF Accept, outVars
  <1>3. Globals'
    BY <1>1 DEF Accept, Globals
  <1>4. PerConn' /\ Others(c) /\ stream'[c] = s
    BY <1>1, <1>2 DEF PerConn, Others
  <1>5. /\ received[c] = 0 /\ pos[c] = 0 /\ line[c] = << >> /\ call[c] = << >> /\ wire[c] = << >>
        /\ copy[c] \in SUBSET {"ws"} /\ log[c] \in Seq(Kept)
    <2>1. ClientOK(stream[c], received[c], pos[c], "none", line[c], call[c], copy[c], log[c], wire[c])
      BY <1>1, <1>2 DEF ThreadOK
    <2> QED BY <2>1 DEF ClientOK
  <1>6. ClientOK(s, received[c], pos[c], pc[c], line[c], call[c], copy[c], log[c], wire[c])
    BY <1>2, <1>5, StreamIsSeq, ClientBegins
  <1>7. s \in Streams[c] \cup {<< >>}
    OBVIOUS
  <1> QED BY <1>2, <1>3, <1>4, <1>6, <1>7, ThreadStep

LEMMA SpawnBuf ==
    ASSUME AliveInv, BufInv, Spawn
    PROVE  BufInv'
  <1> DEFINE c == acceptor.conn
  <1>1. Globals /\ PerConn
    BY DEF BufInv
  <1>2. c \in Conn /\ pc[c] = "none"
    BY DEF AliveInv, Spawn
  <1>3. ThreadOK(c)
    BY <1>2 DEF BufInv
  <1>4. PICK to \in {"recv", "flush"} : pc' = [pc EXCEPT ![c] = to]
    BY DEF Spawn
  <1>5. UNCHANGED << stream, received, pos, line, call, copy, log, wire >>
    BY DEF Spawn, inVars, outVars
  <1>6. Globals'
    BY <1>1 DEF Spawn, Globals
  <1> HIDE DEF c
  <1>7. PerConn' /\ Others(c) /\ pc'[c] = to
    BY <1>1, <1>2, <1>4, <1>5 DEF PerConn, Others
  <1>8. ClientOK(stream[c], received[c], pos[c], "none", line[c], call[c], copy[c], log[c], wire[c])
    BY <1>2, <1>3 DEF ThreadOK
  <1>9. call[c] \in Seq(Told) /\ call[c] = << >> /\ log[c] \in Seq(Kept) /\ copy[c] \subseteq {"ws"}
    BY <1>8 DEF ClientOK
  <1>10. to \in Threads \ {"none", "closed"} /\ to \notin {"parse", "engine"}
    BY DEF Threads
  <1>11. ClientOK(stream[c], received[c], pos[c], to, line[c], call[c], copy[c], log[c], wire[c])
    BY <1>8, <1>9, <1>10 DEF ClientOK
  <1>12. stream[c] \in Streams[c] \cup {<< >>}
    BY <1>3 DEF ThreadOK
  <1> QED BY <1>2, <1>5, <1>6, <1>7, <1>11, <1>12, ThreadStep

(* The steps of a client and of its thread.                                *)
LEMMA ClientStepBuf ==
    ASSUME BufInv, NEW c \in Conn,
           NEW r, NEW p, NEW at, NEW kept, NEW k, NEW cp, NEW lg, NEW w,
           UNCHANGED << main, running, acceptor, corrupt, listeners, wsAlive, wsCommand, stream >>,
           raced' \in BOOLEAN, PerConn', Others(c),
           ClientOK(stream[c], r, p, at, kept, k, cp, lg, w),
           received'[c] = r, pos'[c] = p, pc'[c] = at, line'[c] = kept,
           call'[c] = k, copy'[c] = cp, log'[c] = lg, wire'[c] = w
    PROVE  BufInv'
  <1>1. Globals'
    BY DEF BufInv, Globals
  <1>2. stream[c] \in Streams[c] \cup {<< >>} /\ stream'[c] = stream[c]
    BY DEF BufInv, ThreadOK
  <1> QED BY <1>1, <1>2, ThreadStep

LEMMA ReportsType ==
    ASSUME NEW req, NEW l \in Reports(req)
    PROVE  l \in Seq(Told)
  <1>1. /\ << "OK" >> \in Seq(Told) /\ << "OK", "tob" >> \in Seq(Told)
        /\ << "TRADE", "tob", "OK", "tob" >> \in Seq(Told) /\ << >> \in Seq(Told)
    BY DEF Told
  <1> QED BY <1>1, Zenon DEF Reports

LEMMA ClientBuf ==
    ASSUME AliveInv, BufInv, NEW c \in Conn, Client(c) \/ EndStream(c) \/ \E n \in 1 .. BufLen : Recv(c, n)
    PROVE  BufInv'
  <1> DEFINE s == stream[c]
             r == received[c]
             p == pos[c]
             kept == line[c]
             k == call[c]
             cp == copy[c]
             lg == log[c]
             w == wire[c]
  <1>1. /\ Globals /\ PerConn /\ ThreadOK(c) /\ raced \in BOOLEAN /\ running \in BOOLEAN
        /\ wsCommand \in BOOLEAN /\ listeners \subseteq {"ws"}
    BY DEF BufInv, Globals
  <1>2. ClientOK(s, r, p, pc[c], kept, k, cp, lg, w)
    BY <1>1 DEF ThreadOK
  <1>3. k \in Seq(Told) /\ (k # << >> => pc[c] = "engine") /\ cp \subseteq {"ws"} /\ lg \in Seq(Kept)
    BY <1>2 DEF ClientOK
  <1>4. ASSUME NEW n \in 1 .. BufLen, Recv(c, n) PROVE BufInv'
    <2>1. n \in Nat
      BY GatewayAssumption
    <2>2. /\ pc[c] = "recv" /\ r + n <= Len(s) /\ received' = [received EXCEPT ![c] = r + n]
          /\ pc' = [pc EXCEPT ![c] = "parse"]
          /\ UNCHANGED << main, running, acceptor, corrupt, listeners, wsAlive, wsCommand, stream >>
          /\ UNCHANGED << raced, pos, line, call, copy, log, wire >>
      BY <1>4 DEF Recv, progVars, outVars
    <2>3. PerConn' /\ Others(c) /\ received'[c] = r + n /\ pc'[c] = "parse"
      BY <1>1, <2>2 DEF PerConn, Others
    <2>4. ClientOK(s, r + n, p, "parse", kept, k, cp, lg, w)
      BY <1>2, <2>1, <2>2, ClientReceives
    <2> QED BY <1>1, <2>2, <2>3, <2>4, ClientStepBuf
  <1>5. CASE EndStream(c)
    <2>1. /\ UNCHANGED << main, running, acceptor, corrupt, listeners, wsAlive, wsCommand, stream >>
          /\ UNCHANGED << raced, received, pos, line, pc, call, copy, log, wire >>
      BY <1>5 DEF EndStream, progVars, outVars
    <2> QED BY <2>1 DEF BufInv, Globals, PerConn, ThreadOK
  <1>6. CASE Eof(c) \/ Return(c)
    <2>1. PICK to \in {"flush", "parse"} :
          /\ pc[c] \in {"recv", "engine"} /\ (pc[c] = "engine" => to = "parse") /\ k = << >>
          /\ pc' = [pc EXCEPT ![c] = to]
          /\ UNCHANGED << main, running, acceptor, corrupt, listeners, wsAlive, wsCommand, stream >>
          /\ UNCHANGED << raced, received, pos, line, call, copy, log, wire >>
      <3>1. CASE Eof(c)
        BY <1>3, <3>1 DEF Eof, progVars, inVars, outVars
      <3>2. CASE Return(c)
        BY <1>3, <3>2 DEF Return, progVars, inVars, outVars
      <3> QED BY <1>6, <3>1, <3>2
    <2>2. PerConn' /\ Others(c) /\ pc'[c] = to
      BY <1>1, <2>1 DEF PerConn, Others
    <2>3. ClientOK(s, r, p, to, kept, k, cp, lg, w)
      BY <1>2, <2>1 DEF ClientOK, Threads
    <2> QED BY <1>1, <2>1, <2>2, <2>3, ClientStepBuf
  <1>7. CASE KeepRest(c)
    <2>1. PICK to \in {"recv", "flush"} : pc' = [pc EXCEPT ![c] = to]
      BY <1>7 DEF KeepRest
    <2>2. /\ pc[c] = "parse" /\ ~ Contains(SubSeq(s, p + 1, r), NL)
          /\ line' = [line EXCEPT ![c] = kept \o SubSeq(s, p + 1, r)]
          /\ pos' = [pos EXCEPT ![c] = r]
          /\ UNCHANGED << main, running, acceptor, corrupt, listeners, wsAlive, wsCommand, stream >>
          /\ UNCHANGED << raced, received, call, copy, log, wire >>
      BY <1>7 DEF KeepRest, Chunk, progVars, outVars
    <2>3. PerConn' /\ Others(c) /\ pc'[c] = to /\ line'[c] = kept \o SubSeq(s, p + 1, r) /\ pos'[c] = r
      BY <1>1, <2>1, <2>2 DEF PerConn, Others
    <2>4. ClientOK(s, r, r, to, kept \o SubSeq(s, p + 1, r), k, cp, lg, w)
      BY <1>2, <2>2, ClientKeeps
    <2> QED BY <1>1, <2>2, <2>3, <2>4, ClientStepBuf
  <1>8. CASE HandleLine(c)
    <2> DEFINE x == SubSeq(s, p + 1, r)
               eol == SelectInSeq(x, LAMBDA t : t = NL)
               whole == kept \o SubSeq(x, 1, eol - 1)
               req == ParseRequest(whole)
    <2>1. /\ pc[c] = "parse" /\ Contains(x, NL) /\ Serve(c, whole, req)
          /\ pos' = [pos EXCEPT ![c] = p + eol]
          /\ UNCHANGED << main, running, acceptor, corrupt, listeners, wsAlive, wsCommand, stream >>
          /\ UNCHANGED << received, copy, log >>
      BY <1>8 DEF HandleLine, Chunk, progVars
    <2>2. k = << >>
      BY <1>3, <2>1
    <2>3. FirstEnd(x, eol)
      <3>1. x \in Seq(Range(s))
        <4>1. s \in Seq(Range(s)) /\ p \in Nat /\ r \in Nat /\ p <= r /\ r <= Len(s)
          BY <1>2 DEF ClientOK
        <4> QED BY <4>1, SubSeqShape
      <3> HIDE DEF x
      <3> QED BY <2>1, <3>1, FirstNL
    <2> HIDE DEF eol, req
    <2>4. /\ line' = [line EXCEPT ![c] = << >>] /\ wire' = [wire EXCEPT ![c] = w \o Immediate(req)]
          /\ raced' \in BOOLEAN
      BY <1>1, <2>1 DEF Serve, NextLine, EngineBusy
    <2>5. PICK to \in {"parse", "engine"}, l \in Seq(Told) :
              /\ l # << >> => to = "engine"
              /\ DOMAIN pc' = Conn /\ DOMAIN call' = Conn /\ pc'[c] = to /\ call'[c] = l
              /\ \A d \in Conn \ {c} : pc'[d] = pc[d] /\ call'[d] = call[d]
      <3>1. CASE req.command \in Calls
        <4>1. PICK l \in Reports(req) : call' = [call EXCEPT ![c] = l]
          BY <2>1, <3>1 DEF Serve
        <4>2. pc' = [pc EXCEPT ![c] = "engine"]
          BY <2>1, <3>1 DEF Serve
        <4>3. l \in Seq(Told)
          BY ReportsType
        <4>4. /\ DOMAIN pc' = Conn /\ DOMAIN call' = Conn /\ pc'[c] = "engine" /\ call'[c] = l
              /\ \A d \in Conn \ {c} : pc'[d] = pc[d] /\ call'[d] = call[d]
          BY <1>1, <4>1, <4>2 DEF PerConn
        <4> QED BY <4>3, <4>4
      <3>2. CASE req.command \notin Calls
        <4>1. pc' = pc /\ call' = call
          BY <2>1, <3>2 DEF Serve
        <4>2. /\ DOMAIN pc' = Conn /\ DOMAIN call' = Conn /\ pc'[c] = "parse" /\ call'[c] = k
              /\ \A d \in Conn \ {c} : pc'[d] = pc[d] /\ call'[d] = call[d]
          BY <1>1, <2>1, <4>1 DEF PerConn
        <4> QED BY <1>3, <2>2, <4>2
      <3> QED BY <3>1, <3>2
    <2> DEFINE nw == w \o Immediate(req)
               q == p + eol
    <2>6. ClientOK(s, r, q, to, << >>, l, cp, lg, nw)
      <3>1. ClientOK(s, r, p, "parse", kept, << >>, cp, lg, w)
        BY <1>2, <2>1, <2>2
      <3> QED BY <2>3, <2>5, <3>1, ClientLine DEF req, LineOf
    <2> HIDE DEF nw, q
    <2>7. PerConn' /\ Others(c) /\ pos'[c] = q /\ line'[c] = << >> /\ wire'[c] = nw
      BY <1>1, <2>1, <2>4, <2>5 DEF PerConn, Others, nw, q
    <2>8. /\ UNCHANGED << main, running, acceptor, corrupt, listeners, wsAlive, wsCommand, stream >>
          /\ received'[c] = r /\ copy'[c] = cp /\ log'[c] = lg
      BY <2>1
    <2> QED BY <2>4, <2>5, <2>6, <2>7, <2>8, ClientStepBuf
  <1>9. CASE Report(c)
    <2>1. /\ pc[c] = "engine" /\ k # << >> /\ call' = [call EXCEPT ![c] = Tail(k)]
          /\ log' = [log EXCEPT ![c] = IF Head(k) = "tob" THEN lg ELSE Append(lg, Head(k))]
          /\ copy' = [copy EXCEPT ![c] = listeners]
          /\ UNCHANGED << main, running, acceptor, corrupt, listeners, wsAlive, wsCommand, stream >>
          /\ UNCHANGED << raced, received, pos, line, pc, wire >>
      BY <1>9 DEF Report, progVars, inVars
    <2> DEFINE l == Tail(k)
               m == IF Head(k) = "tob" THEN lg ELSE Append(lg, Head(k))
    <2>2. l \in Seq(Told) /\ Head(k) \in Told
      BY <1>3, <2>1
    <2>3. m \in Seq(Kept)
      BY <1>3, <2>2 DEF Told, Kept
    <2>4. PerConn' /\ Others(c) /\ call'[c] = l /\ log'[c] = m /\ copy'[c] = listeners
      BY <1>1, <2>1 DEF PerConn, Others
    <2> HIDE DEF l, m
    <2>5. ClientOK(s, r, p, pc[c], kept, l, listeners, m, w)
      BY <1>1, <1>2, <2>1, <2>2, <2>3 DEF ClientOK
    <2> QED BY <1>1, <2>1, <2>4, <2>5, ClientStepBuf
  <1>10. ASSUME NEW l, CallListener(c, l) PROVE BufInv'
    <2>1. /\ copy' = [copy EXCEPT ![c] = cp \ {l}]
          /\ UNCHANGED << main, running, acceptor, corrupt, listeners, wsAlive, wsCommand, stream >>
          /\ UNCHANGED << raced, received, pos, line, pc, call, log, wire >>
      BY <1>10 DEF CallListener, progVars, inVars
    <2>2. PerConn' /\ Others(c) /\ copy'[c] = cp \ {l}
      BY <1>1, <2>1 DEF PerConn, Others
    <2>3. ClientOK(s, r, p, pc[c], kept, k, cp \ {l}, lg, w)
      BY <1>2 DEF ClientOK
    <2> QED BY <1>1, <2>1, <2>2, <2>3, ClientStepBuf
  <1>11. CASE Flush(c)
    <2>1. /\ pc[c] = "flush" /\ pc' = [pc EXCEPT ![c] = "closed"]
          /\ wire' = [wire EXCEPT ![c] = w \o lg]
          /\ UNCHANGED << main, running, acceptor, corrupt, listeners, wsAlive, wsCommand, stream >>
          /\ UNCHANGED << raced, received, pos, line, call, copy, log >>
      BY <1>11 DEF Flush, progVars, inVars
    <2>2. PerConn' /\ Others(c) /\ pc'[c] = "closed" /\ wire'[c] = w \o lg
      BY <1>1, <2>1 DEF PerConn, Others
    <2>3. ClientOK(s, r, p, "closed", kept, k, cp, lg, w \o lg)
      BY <1>2, <2>1, ClientFlushes
    <2> QED BY <1>1, <2>1, <2>2, <2>3, ClientStepBuf
  <1> QED BY <1>4, <1>5, <1>6, <1>7, <1>8, <1>9, <1>10, <1>11 DEF Client

LEMMA NextBuf ==
    ASSUME AliveInv, BufInv, [Next]_vars
    PROVE  BufInv'
  <1>1. CASE UNCHANGED vars
    BY <1>1 DEF vars, progVars, inVars, outVars, BufInv, Globals, PerConn, ThreadOK
  <1>2. CASE Next
    BY <1>2, ProgramStepBuf, AcceptBuf, SpawnBuf, ClientBuf DEF Next, Main, Input
  <1> QED BY <1>1, <1>2

(* The answers to what a client sent do not depend on how the network cut  *)
(* it or on when the loop ended: they are those of process_buffer, for any *)
(* number of clients, whatever they send, and any size of the buffer.      *)
THEOREM Answered == Spec => []SameAsProcessBuffer
  <1>1. BufInv => SameAsProcessBuffer
    <2> SUFFICES ASSUME BufInv PROVE SameAsProcessBuffer
      OBVIOUS
    <2>1. Globals /\ \A c \in Conn : ThreadOK(c)
      BY DEF BufInv
    <2>2. ASSUME NEW c \in Conn
          PROVE  /\ Range(log[c]) \subseteq {"OK", "TRADE"}
                 /\ Range(wire[c]) \subseteq {"OK", "TRADE", "PONG", "QUOTE", "ERR"}
      <3>1. log[c] \in Seq(Kept) /\ wire[c] \in Seq(Reply \cup Kept)
        BY <2>1 DEF ThreadOK, ClientOK
      <3> QED BY <3>1 DEF Range, Kept, Reply
    <2>3. TypeOK
      BY <2>1, <2>2 DEF TypeOK, Globals, ThreadOK, ClientOK, Threads
    <2>4. ASSUME NEW c \in Conn, pc[c] = "closed" PROVE wire[c] = ProcessBuffer(Taken(c), log[c])
      <3>1. /\ stream[c] \in Seq(Range(stream[c])) /\ received[c] \in 0 .. Len(stream[c])
            /\ pos[c] = received[c] /\ wire[c] = Answers(Lined(stream[c])[pos[c]]) \o log[c]
        BY <2>1, <2>4 DEF ThreadOK, ClientOK
      <3>2. Lines(Taken(c)) = Lined(stream[c])[received[c]]
        BY <3>1, LinesOfBeginning DEF Taken
      <3> QED BY <3>1, <3>2 DEF ProcessBuffer, Answers
    <2> QED BY <2>3, <2>4 DEF SameAsProcessBuffer
  <1>2. Init => AliveInv /\ BufInv
    BY InitAlive, InitBuf
  <1>3. AliveInv /\ BufInv /\ [Next]_vars => AliveInv' /\ BufInv'
    BY NextAlive, NextBuf
  <1> QED BY <1>1, <1>2, <1>3, PTL DEF Spec

-----------------------------------------------------------------------------
(* The calls that the threads make to the engine.                          *)

(* The call that a line asks for, if any.                                  *)
Asked(req) == IF req.command \in Calls THEN << req >> ELSE << >>

AskedBy(ls) == FlattenSeq([k \in DOMAIN ls |-> Asked(ParseRequest(ls[k]))])

(* The engine has been called by every thread with what the complete lines *)
(* of the tokens it went through ask for, in their order.                  *)
CalledInOrder ==
    \A c \in Conn : calls[c] = AskedBy(Lines(SubSeq(stream[c], 1, pos[c])))

AskedOK(s, p, cs) ==
    /\ cs \in Seq({ParseRequest(l) : l \in Seq(Range(s))})
    /\ cs = AskedBy(Lined(s)[p])

CallInv == DOMAIN calls = Conn /\ \A c \in Conn : AskedOK(stream[c], pos[c], calls[c])

LEMMA AskedNone == AskedBy(<< >>) = << >>
  <1> DEFINE ss == [k \in DOMAIN << >> |-> Asked(ParseRequest(<< >>[k]))]
  <1>1. ss = << >>
    OBVIOUS
  <1>2. Len(<< >>) = 0
    OBVIOUS
  <1> QED BY <1>1, <1>2 DEF AskedBy, FlattenSeq

LEMMA AskedMore ==
    ASSUME NEW T, NEW ls \in Seq(T), NEW x \in T
    PROVE  AskedBy(Append(ls, x)) = AskedBy(ls) \o Asked(ParseRequest(x))
  <1> DEFINE F == [l \in T |-> Asked(ParseRequest(l))]
             R == {ParseRequest(l) : l \in T}
             a == Append(ls, x)
  <1>1. \A l \in T : F[l] = Asked(ParseRequest(l))
    OBVIOUS
  <1>2. ASSUME NEW l \in T PROVE Asked(ParseRequest(l)) \in Seq(R)
    <2>1. ParseRequest(l) \in R
      OBVIOUS
    <2> HIDE DEF R
    <2>2. << ParseRequest(l) >> \in Seq(R) /\ << >> \in Seq(R)
      BY <2>1
    <2> QED BY <2>2, Zenon DEF Asked
  <1> HIDE DEF F, R
  <1>3. Mapped(F, Append(ls, x)) = Mapped(F, ls) \o F[x]
    <2>1. \A l \in T : F[l] \in Seq(R)
      BY <1>1, <1>2
    <2> QED BY <2>1, MappedMore
  <1>4. (\A k \in DOMAIN ls : ls[k] \in T) /\ (\A k \in DOMAIN a : a[k] \in T)
    OBVIOUS
  <1> HIDE DEF a
  <1>5. /\ [k \in DOMAIN a |-> F[a[k]]] = [k \in DOMAIN a |-> Asked(ParseRequest(a[k]))]
        /\ [k \in DOMAIN ls |-> F[ls[k]]] = [k \in DOMAIN ls |-> Asked(ParseRequest(ls[k]))]
    BY <1>1, <1>4
  <1>6. F[x] = Asked(ParseRequest(x))
    BY <1>1
  <1> QED BY <1>3, <1>5, <1>6 DEF AskedBy, Mapped, a

LEMMA AskedBegins ==
    ASSUME NEW s, s \in Seq(Range(s))
    PROVE  AskedOK(s, 0, << >>)
  <1>1. Lined(s)[0] = << >>
    BY LinedIs
  <1>2. << >> \in Seq({ParseRequest(l) : l \in Seq(Range(s))})
    OBVIOUS
  <1> QED BY <1>1, <1>2, AskedNone DEF AskedOK

LEMMA AskedLine ==
    ASSUME NEW s, NEW r, NEW p, NEW e, NEW whole, NEW cs,
           AskedOK(s, p, cs), LineAdded(s, r, p, e, whole)
    PROVE  LET req == ParseRequest(whole)
           IN  AskedOK(s, e, IF req.command \in Calls THEN Append(cs, req) ELSE cs)
  <1> DEFINE req == ParseRequest(whole)
             S == Seq(Range(s))
             R == {ParseRequest(l) : l \in S}
             ls == Lined(s)[p]
             as == Asked(req)
             ns == IF req.command \in Calls THEN Append(cs, req) ELSE cs
  <1>1. whole \in S /\ ls \in Seq(S) /\ Lined(s)[e] = Append(ls, whole)
    BY Zenon DEF LineAdded
  <1>2. cs \in Seq(R) /\ cs = AskedBy(ls) /\ req \in R
    BY <1>1 DEF AskedOK
  <1> HIDE DEF S, R, ls, req
  <1>3. AskedBy(Append(ls, whole)) = AskedBy(ls) \o as
    BY <1>1, AskedMore DEF req
  <1>4. cs \o << req >> = Append(cs, req) /\ cs \o << >> = cs /\ Append(cs, req) \in Seq(R)
    BY <1>2
  <1>5. cs \o as = ns
    BY <1>4, Zenon DEF Asked
  <1>6. ns \in Seq(R)
    BY <1>2, <1>4
  <1> HIDE DEF ns, as
  <1>7. ns = AskedBy(Lined(s)[e])
    BY <1>1, <1>2, <1>3, <1>5, Zenon
  <1>8. AskedOK(s, e, ns)
    BY <1>6, <1>7 DEF AskedOK, R, S
  <1> QED BY <1>8 DEF ns, req

LEMMA InitCalls == Init => CallInv
  <1> SUFFICES ASSUME Init, NEW c \in Conn PROVE DOMAIN calls = Conn /\ AskedOK(stream[c], pos[c], calls[c])
    BY DEF CallInv, Init
  <1>1. << >> \in Seq(Range(<< >>))
    BY StreamIsSeq
  <1>2. stream[c] = << >> /\ pos[c] = 0 /\ calls[c] = << >> /\ DOMAIN calls = Conn
    BY DEF Init
  <1> QED BY <1>1, <1>2, AskedBegins

(* A step that leaves what a thread has gone through, and its calls.       *)
LEMMA OtherCalls ==
    ASSUME BufInv, CallInv, NEW c \in Conn, DOMAIN calls' = Conn,
           \A d \in Conn \ {c} : stream'[d] = stream[d] /\ pos'[d] = pos[d] /\ calls'[d] = calls[d],
           AskedOK(stream'[c], pos'[c], calls'[c])
    PROVE  CallInv'
  <1>1. ASSUME NEW d \in Conn PROVE AskedOK(stream'[d], pos'[d], calls'[d])
    <2>1. CASE d = c
      BY <2>1
    <2>2. CASE d # c
      BY <2>2 DEF CallInv
    <2> QED BY <2>1, <2>2
  <1> QED BY <1>1 DEF CallInv

LEMMA NextCalls ==
    ASSUME AliveInv, BufInv, CallInv, [Next]_vars
    PROVE  CallInv'
  <1>1. CASE UNCHANGED << stream, pos, calls >>
    BY <1>1 DEF CallInv
  <1>2. ASSUME NEW c \in Conn, NEW s \in Streams[c], Accept(c, s) PROVE CallInv'
    <2>1. /\ pc[c] = "none" /\ stream' = [stream EXCEPT ![c] = s] /\ UNCHANGED << pos, calls >>
      BY <1>2 DEF Accept, outVars
    <2>2. DOMAIN stream = Conn /\ ThreadOK(c) /\ stream[c] \in Seq(Range(stream[c]))
      BY DEF BufInv, PerConn, ThreadOK, ClientOK
    <2>3. pos[c] = 0
      <3>1. ClientOK(stream[c], received[c], pos[c], "none", line[c], call[c], copy[c], log[c], wire[c])
        BY <2>1, <2>2 DEF ThreadOK
      <3> QED BY <3>1 DEF ClientOK
    <2>4. calls[c] = << >>
      <3>1. Lined(stream[c])[0] = << >>
        BY <2>2, LinedIs
      <3>2. calls[c] = AskedBy(Lined(stream[c])[0])
        BY <2>3 DEF CallInv, AskedOK
      <3> QED BY <3>1, <3>2, AskedNone
    <2>5. AskedOK(s, 0, << >>)
      BY StreamIsSeq, AskedBegins
    <2>6. /\ stream'[c] = s /\ pos'[c] = 0 /\ calls'[c] = << >> /\ DOMAIN calls' = Conn
          /\ \A d \in Conn \ {c} : stream'[d] = stream[d] /\ pos'[d] = pos[d] /\ calls'[d] = calls[d]
      BY <2>1, <2>2, <2>3, <2>4 DEF CallInv
    <2> QED BY <2>5, <2>6, OtherCalls
  <1>3. ASSUME NEW c \in Conn, KeepRest(c) PROVE CallInv'
    <2>1. /\ pc[c] = "parse" /\ ~ Contains(SubSeq(stream[c], pos[c] + 1, received[c]), NL)
          /\ pos' = [pos EXCEPT ![c] = received[c]] /\ UNCHANGED << stream, calls >>
      BY <1>3 DEF KeepRest, Chunk, outVars
    <2>2. DOMAIN pos = Conn /\ ThreadOK(c)
      BY DEF BufInv, PerConn
    <2>3. Lined(stream[c])[received[c]] = Lined(stream[c])[pos[c]]
      <3>1. ClientOK(stream[c], received[c], pos[c], "parse", line[c], call[c], copy[c], log[c], wire[c])
        BY <2>1, <2>2 DEF ThreadOK
      <3> QED BY <2>1, <3>1, RestEndsNone
    <2>4. AskedOK(stream[c], pos[c], calls[c])
      BY DEF CallInv
    <2>5. AskedOK(stream[c], received[c], calls[c])
      BY <2>3, <2>4 DEF AskedOK
    <2>6. /\ stream'[c] = stream[c] /\ pos'[c] = received[c] /\ calls'[c] = calls[c] /\ DOMAIN calls' = Conn
          /\ \A d \in Conn \ {c} : stream'[d] = stream[d] /\ pos'[d] = pos[d] /\ calls'[d] = calls[d]
      BY <2>1, <2>2 DEF CallInv
    <2> QED BY <2>5, <2>6, OtherCalls
  <1>4. ASSUME NEW c \in Conn, HandleLine(c) PROVE CallInv'
    <2> DEFINE s == stream[c]
               r == received[c]
               p == pos[c]
               x == SubSeq(s, p + 1, r)
               eol == SelectInSeq(x, LAMBDA t : t = NL)
               e == p + eol
               whole == LineOf(s, r, p, line[c], eol)
               req == ParseRequest(whole)
               cs == calls[c]
    <2>1. /\ pc[c] = "parse" /\ Contains(x, NL) /\ Serve(c, whole, req)
          /\ pos' = [pos EXCEPT ![c] = e] /\ stream' = stream
      BY <1>4 DEF HandleLine, Chunk, LineOf
    <2>2. DOMAIN pos = Conn /\ DOMAIN calls = Conn /\ ThreadOK(c)
      BY DEF BufInv, PerConn, CallInv
    <2>3. ClientOK(s, r, p, "parse", line[c], call[c], copy[c], log[c], wire[c])
      BY <2>1, <2>2 DEF ThreadOK
    <2>4. FirstEnd(x, eol)
      <3>1. x \in Seq(Range(s))
        <4>1. s \in Seq(Range(s)) /\ p \in Nat /\ r \in Nat /\ p <= r /\ r <= Len(s)
          BY <2>3 DEF ClientOK
        <4> QED BY <4>1, SubSeqShape
      <3> HIDE DEF x
      <3> QED BY <2>1, <3>1, FirstNL
    <2> HIDE DEF eol
    <2>5. LineAdded(s, r, p, e, whole)
      BY <2>3, <2>4, LineTaken
    <2> DEFINE ns == IF req.command \in Calls THEN Append(cs, req) ELSE cs
    <2>6. AskedOK(s, e, ns)
      <3>1. AskedOK(s, p, cs)
        BY DEF CallInv
      <3> HIDE DEF e, whole, cs, p
      <3> QED BY <2>5, <3>1, AskedLine
    <2>7. IF req.command \in Calls THEN calls' = [calls EXCEPT ![c] = Append(cs, req)] ELSE calls' = calls
      <3> HIDE DEF req
      <3> QED BY <2>1 DEF Serve
    <2> HIDE DEF e, req
    <2>8. /\ stream'[c] = s /\ pos'[c] = e /\ calls'[c] = ns /\ DOMAIN calls' = Conn
          /\ \A d \in Conn \ {c} : stream'[d] = stream[d] /\ pos'[d] = pos[d] /\ calls'[d] = calls[d]
      BY <2>1, <2>2, <2>7
    <2> QED BY <2>6, <2>8, OtherCalls
  <1>5. CASE Main \/ Signal \/ WsEnter \/ WsLeave \/ Spawn \/ AcceptEnd
    <2>1. UNCHANGED << stream, pos, calls >>
      BY <1>5 DEF Main, GwStart, WsStart, Signal, WsClosed, WsStopped, GwStop, GwJoined, WsEnter, WsLeave,
                  Spawn, AcceptEnd, inVars, outVars
    <2> QED BY <1>1, <2>1
  <1>6. ASSUME NEW c \in Conn, NEW n, NEW l,
               \/ EndStream(c) \/ Recv(c, n) \/ Eof(c) \/ Report(c)
               \/ CallListener(c, l) \/ Return(c) \/ Flush(c)
        PROVE  CallInv'
    <2>1. UNCHANGED << stream, pos, calls >>
      BY <1>6 DEF EndStream, Recv, Eof, Report, CallListener, Return, Flush, inVars, outVars
    <2> QED BY <1>1, <2>1
  <1>7. CASE UNCHANGED vars
    <2>1. UNCHANGED << stream, pos, calls >>
      BY <1>7 DEF vars, inVars, outVars
    <2> QED BY <1>1, <2>1
  <1>8. CASE Next
    BY <1>2, <1>3, <1>4, <1>5, <1>6, <1>8 DEF Next, Client, Input
  <1> QED BY <1>7, <1>8

(* The engine is called once for every line that asks for it, in the order *)
(* of the lines, with what parse_request makes of them: no call is lost,   *)
(* made twice or taken from two lines, for any number of clients, whatever *)
(* they send and however recv cuts it.                                     *)
THEOREM Called == Spec => []CalledInOrder
  <1>1. BufInv /\ CallInv => CalledInOrder
    <2> SUFFICES ASSUME BufInv, CallInv, NEW c \in Conn
                 PROVE  calls[c] = AskedBy(Lines(SubSeq(stream[c], 1, pos[c])))
      BY DEF CalledInOrder
    <2>1. stream[c] \in Seq(Range(stream[c])) /\ pos[c] \in 0 .. Len(stream[c])
      <3>1. /\ stream[c] \in Seq(Range(stream[c])) /\ received[c] \in 0 .. Len(stream[c])
            /\ pos[c] \in 0 .. received[c]
        BY DEF BufInv, ThreadOK, ClientOK
      <3>2. Len(stream[c]) \in Nat
        BY <3>1
      <3> QED BY <3>1, <3>2
    <2>2. Lines(SubSeq(stream[c], 1, pos[c])) = Lined(stream[c])[pos[c]]
      BY <2>1, LinesOfBeginning
    <2> QED BY <2>2 DEF CallInv, AskedOK
  <1>2. Init => AliveInv /\ BufInv /\ CallInv
    BY InitAlive, InitBuf, InitCalls
  <1>3. AliveInv /\ BufInv /\ CallInv /\ [Next]_vars => AliveInv' /\ BufInv' /\ CallInv'
    BY NextAlive, NextBuf, NextCalls
  <1> QED BY <1>1, <1>2, <1>3, PTL DEF Spec
=============================================================================

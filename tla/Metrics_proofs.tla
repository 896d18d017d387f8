--------------------------- MODULE Metrics_proofs ---------------------------
(***************************************************************************)
(* Proofs about the metrics, for any number of threads, instruments, slots *)
(* and calls and for counters of any width.                                *)
(*                                                                         *)
(* Between a call and its last visible update a counter shows a part of    *)
(* what was asked for.  The invariant accounts for every thread: what the  *)
(* calls of a slot amount to is what has ended, what threads under way     *)
(* have already shown, and what they still owe.                            *)
(***************************************************************************)
EXTENDS Metrics, Book_proofs

-----------------------------------------------------------------------------
(* Sums of natural numbers.                                                *)

(* Such a sum is a natural number, and 0 if all its summands are.          *)
LEMMA SumNat ==
    ASSUME NEW g, NEW S, IsFiniteSet(S), \A x \in S : g[x] \in Nat
    PROVE  /\ SumFunctionOnSet(g, S) \in Nat
           /\ (\A x \in S : g[x] = 0) => SumFunctionOnSet(g, S) = 0
  <1> DEFINE Sum(T) == SumFunctionOnSet(g, T)
             Good(T) == Sum(T) \in Nat /\ ((\A x \in T : g[x] = 0) => Sum(T) = 0)
             Bad == {n \in Nat : \E T \in SUBSET S : Cardinality(T) = n /\ ~ Good(T)}
  <1>1. Bad = {}
    <2> SUFFICES ASSUME Bad # {} PROVE FALSE
      OBVIOUS
    <2>1. PICK n \in Bad : \A m \in Bad : n <= m
      BY LeastNat
    <2>2. PICK T \in SUBSET S : Cardinality(T) = n /\ ~ Good(T)
      BY <2>1
    <2>3. T # {}
      BY <2>2, SumEmpty
    <2> DEFINE c == Pick(T)
    <2>4. c \in T /\ IsFiniteSet(T) /\ T \ {c} \in SUBSET S /\ Cardinality(T \ {c}) = n - 1
          /\ n - 1 \in Nat /\ n - 1 < n
      <3>1. /\ c \in T /\ IsFiniteSet(T) /\ n \in Nat /\ Cardinality(T) > 0
            /\ T \ {c} \in SUBSET S /\ Cardinality(T \ {c}) = Cardinality(T) - 1
        BY <2>3, PickShrinks
      <3> QED BY <3>1, <2>2
    <2>5. Sum(T) = g[c] + Sum(T \ {c})
      BY <2>3, <2>4, SumPick
    <2>6. Good(T \ {c})
      BY <2>1, <2>4
    <2> HIDE DEF c, Sum
    <2>7. Good(T)
      BY <2>4, <2>5, <2>6
    <2> QED BY <2>2, <2>7
  <1>2. Cardinality(S) \in Nat /\ S \in SUBSET S
    BY FS_CardinalityType
  <1> QED BY <1>1, <1>2

(* Two sums that differ in one summand.                                    *)
LEMMA SumChange ==
    ASSUME NEW g, NEW h, NEW S, IsFiniteSet(S), NEW t \in S,
           \A x \in S : g[x] \in Nat /\ h[x] \in Nat /\ (x # t => g[x] = h[x])
    PROVE  SumFunctionOnSet(h, S) + g[t] = SumFunctionOnSet(g, S) + h[t]
  <1> DEFINE T == S \ {t}
  <1>1. IsFiniteSet(T)
    BY FS_Subset
  <1>2. /\ SumFunctionOnSet(g, S) = g[t] + SumFunctionOnSet(g, T)
        /\ SumFunctionOnSet(h, S) = h[t] + SumFunctionOnSet(h, T)
    BY SumInt
  <1>3. SumFunctionOnSet(g, T) = SumFunctionOnSet(h, T)
    BY <1>1, SumSame
  <1>4. SumFunctionOnSet(g, T) \in Nat
    BY <1>1, SumNat
  <1> QED BY <1>2, <1>3, <1>4

-----------------------------------------------------------------------------
(* Remainders, for a modulus that is not a literal.                        *)

LEMMA DivMod ==
    ASSUME NEW a \in Nat, NEW n \in Nat \ {0}
    PROVE  /\ a % n \in 0 .. (n - 1)
           /\ \E q \in Nat : a = n * q + (a % n)
  <1>1. a % n \in 0 .. (n - 1) /\ a \div n \in Nat /\ a = n * (a \div n) + (a % n)
    OBVIOUS
  <1> QED BY <1>1

LEMMA DivModUnique ==
    ASSUME NEW n \in Nat \ {0}, NEW p \in Int, NEW q \in Int,
           NEW r \in 0 .. (n - 1), NEW s \in 0 .. (n - 1),
           n * p + r = n * q + s
    PROVE  r = s
  <1>1. ASSUME NEW k \in Int, k >= 1 PROVE n * k >= n
    BY <1>1
  <1>2. n * (p - q) = s - r /\ n * (q - p) = r - s
    OBVIOUS
  <1>3. ~ (p - q >= 1) /\ ~ (q - p >= 1)
    BY <1>1, <1>2
  <1> QED BY <1>3

(* What is added to a remainder may itself be reduced.                     *)
LEMMA WrapAdd ==
    ASSUME NEW a \in Nat, NEW b \in Nat, NEW d \in Nat, Wrap(b) = Wrap(d)
    PROVE  Wrap(Wrap(a) + b) = Wrap(a + d)
  <1> DEFINE n == Modulus
             x == (a % n) + b
             y == a + d
  <1>0. n \in Nat \ {0} /\ b % n = d % n
    BY MetricsAssumption DEF Wrap
  <1> HIDE DEF n
  <1>1. /\ a % n \in 0 .. (n - 1)
        /\ \E q \in Nat : a = n * q + (a % n)
    BY <1>0, DivMod
  <1>2. PICK q1 \in Nat : a = n * q1 + (a % n)
    BY <1>1
  <1>3. PICK q2 \in Nat : b = n * q2 + (b % n)
    BY <1>0, DivMod
  <1>4. PICK q3 \in Nat : d = n * q3 + (d % n)
    BY <1>0, DivMod
  <1>5. x \in Nat /\ y \in Nat
    BY <1>0, <1>1
  <1>6. x % n \in 0 .. (n - 1) /\ y % n \in 0 .. (n - 1)
    BY <1>0, <1>5, DivMod
  <1>7. PICK q4 \in Nat : x = n * q4 + (x % n)
    BY <1>0, <1>5, DivMod
  <1>8. PICK q5 \in Nat : y = n * q5 + (y % n)
    BY <1>0, <1>5, DivMod
  <1> DEFINE r == x % n
             s == y % n
             k == q4 - q2 + q3 + q1
  <1>9. n * k + r = n * q5 + s
    <2>1. b % n \in 0 .. (n - 1) /\ d % n \in 0 .. (n - 1)
      BY <1>0, DivMod
    <2> DEFINE am == a % n
               bm == b % n
               dm == d % n
    <2>2. /\ a = n * q1 + am /\ b = n * q2 + bm /\ d = n * q3 + dm /\ bm = dm
          /\ am + b = n * q4 + r /\ a + d = n * q5 + s
          /\ am \in Nat /\ bm \in Nat /\ dm \in Nat /\ r \in Nat /\ s \in Nat
      BY <1>0, <1>1, <1>2, <1>3, <1>4, <1>6, <1>7, <1>8, <2>1
    <2> HIDE DEF am, bm, dm, r, s, x, y
    <2> QED BY <1>0, <2>2
  <1>10. k \in Int /\ q5 \in Int /\ r \in 0 .. (n - 1) /\ s \in 0 .. (n - 1)
    BY <1>0, <1>6
  <1> HIDE DEF k, r, s
  <1>11. r = s
    BY <1>0, <1>9, <1>10, DivModUnique
  <1> QED BY <1>11 DEF r, s, Wrap, n

(* A remainder is its own remainder.                                       *)
LEMMA WrapWrap ==
    ASSUME NEW a \in Nat PROVE Wrap(a) \in Nat /\ Wrap(Wrap(a)) = Wrap(a)
  <1>1. Wrap(a) \in Nat
    BY MetricsAssumption DEF Wrap
  <1>2. Wrap(Wrap(a) + 0) = Wrap(a + 0)
    BY WrapAdd
  <1> QED BY <1>1, <1>2

-----------------------------------------------------------------------------
(* The updates of a call.                                                  *)

FieldNames == {"accepted", "filled", "partial", "cancelled", "rejected",
               "trades", "qty", "notional", "cancels_attempted", "cancels_succeeded",
               "modifies_attempted", "modifies_succeeded", "last_sequence"}

LEMMA FieldsAre == Field = FieldNames /\ Fields \in Seq(Field) /\ Fields # << >>
  <1>1. Len(Fields) = 13 /\ DOMAIN Fields = 1 .. 13 /\ Fields \in Seq(FieldNames) /\ Fields # << >>
    BY DEF Fields, FieldNames
  <1>2. Field \subseteq FieldNames
    <2>1. \A i \in 1 .. Len(Fields) : Fields[i] \in FieldNames
      BY <1>1, SMTT(20)
    <2> QED BY <1>1, <2>1 DEF Field, Range
  <1>3. FieldNames \subseteq Field
    <2>1. /\ Fields[1] = "accepted" /\ Fields[2] = "filled" /\ Fields[3] = "partial" /\ Fields[4] = "cancelled"
          /\ Fields[5] = "rejected" /\ Fields[6] = "trades" /\ Fields[7] = "qty" /\ Fields[8] = "notional"
          /\ Fields[9] = "cancels_attempted" /\ Fields[10] = "cancels_succeeded"
          /\ Fields[11] = "modifies_attempted" /\ Fields[12] = "modifies_succeeded" /\ Fields[13] = "last_sequence"
      BY DEF Fields
    <2>2. \A i \in 1 .. 13 : Fields[i] \in Field
      BY <1>1 DEF Field, Range
    <2> QED BY <2>1, <2>2 DEF FieldNames
  <1> QED BY <1>1, <1>2, <1>3

Touches(us, f) == \E u \in us : u.field = f

(* A call updates each field at most once, adds to counters only, and what *)
(* it adds is, but for multiples of the modulus, what they should show.    *)
Regular(c) ==
    /\ Updates(c) # {}
    /\ \A u \in Updates(c) :
           /\ u.field \in Field /\ u.n \in Nat
           /\ u.field \in Counter => u.add /\ Wrap(u.n) = Wrap(Amount(u.field, c))
           /\ u.field \notin Counter => ~ u.add /\ u.n \in 0 .. (Modulus - 1)
    /\ \A u, w \in Updates(c) : u.field = w.field => u = w
    /\ \A f \in Counter : /\ Amount(f, c) \in Nat
                          /\ Touches(Updates(c), f) \/ Amount(f, c) = 0

LEMMA CallsRegular ==
    ASSUME NEW c \in Calls
    PROVE  Regular(c)
  <1>1. c \in Call
    BY MetricsAssumption
  <1>2. CASE c.kind = "trade"
    <2>1. c.price \in Nat /\ c.qty \in Nat /\ c.sequence \in 0 .. (Modulus - 1) /\ c.price * c.qty \in Nat
      BY <1>1, <1>2 DEF Call
    <2>2. Wrap(c.price * c.qty) \in Nat /\ Wrap(Wrap(c.price * c.qty)) = Wrap(c.price * c.qty)
      BY <2>1, WrapWrap
    <2>3. Updates(c) = OnTrade(c)
      BY <1>2 DEF Updates
    <2>4. \A f \in Counter : Amount(f, c) = CASE f = "trades" -> 1 [] f = "qty" -> c.qty
                                              [] f = "notional" -> c.price * c.qty [] OTHER -> 0
      BY <1>2, FieldsAre DEF Amount, Status, Counter, FieldNames
    <2> QED BY <2>1, <2>2, <2>3, <2>4, FieldsAre DEF Regular, OnTrade, Add, Store, Touches, Counter, FieldNames
  <1>3. CASE c.kind = "result"
    <2>1. c.status \in Status /\ c.sequence \in 0 .. (Modulus - 1)
      BY <1>1, <1>3 DEF Call
    <2>2. Updates(c) = OnSubmitResult(c)
      BY <1>3 DEF Updates
    <2>3. \A f \in Counter : Amount(f, c) = IF f = c.status THEN 1 ELSE 0
      BY <1>3, <2>1, FieldsAre DEF Amount, Status, Counter, FieldNames
    <2> QED BY <2>1, <2>2, <2>3, FieldsAre, MetricsAssumption
            DEF Regular, OnSubmitResult, Add, Store, Touches, Counter, FieldNames, Status
  <1>4. CASE c.kind = "cancel"
    <2>1. c.ok \in BOOLEAN
      BY <1>1, <1>4 DEF Call
    <2>2. Updates(c) = RecordCancel(c)
      BY <1>4 DEF Updates
    <2>3. \A f \in Counter : Amount(f, c) = IF f = "cancels_attempted" \/ (f = "cancels_succeeded" /\ c.ok) THEN 1 ELSE 0
      BY <1>4, <2>1, FieldsAre DEF Amount, Status, Counter, FieldNames
    <2>4. "cancels_attempted" \in Counter /\ "cancels_succeeded" \in Counter /\ Counter \subseteq Field
      BY FieldsAre DEF Counter, FieldNames
    <2>5. CASE c.ok
      <3>1. Updates(c) = {Add("cancels_attempted", 1), Add("cancels_succeeded", 1)}
        BY <2>2, <2>5 DEF RecordCancel
      <3> QED BY <2>3, <2>4, <2>5, <3>1 DEF Regular, Add, Touches
    <2>6. CASE ~ c.ok
      <3>1. Updates(c) = {Add("cancels_attempted", 1)}
        BY <2>2, <2>6 DEF RecordCancel
      <3> QED BY <2>3, <2>4, <2>6, <3>1 DEF Regular, Add, Touches
    <2> QED BY <2>1, <2>5, <2>6
  <1>5. CASE c.kind = "modify"
    <2>1. c.ok \in BOOLEAN
      BY <1>1, <1>5 DEF Call
    <2>2. Updates(c) = RecordModify(c)
      BY <1>5 DEF Updates
    <2>3. \A f \in Counter : Amount(f, c) = IF f = "modifies_attempted" \/ (f = "modifies_succeeded" /\ c.ok) THEN 1 ELSE 0
      BY <1>5, <2>1, FieldsAre DEF Amount, Status, Counter, FieldNames
    <2>4. "modifies_attempted" \in Counter /\ "modifies_succeeded" \in Counter /\ Counter \subseteq Field
      BY FieldsAre DEF Counter, FieldNames
    <2>5. CASE c.ok
      <3>1. Updates(c) = {Add("modifies_attempted", 1), Add("modifies_succeeded", 1)}
        BY <2>2, <2>5 DEF RecordModify
      <3> QED BY <2>3, <2>4, <2>5, <3>1 DEF Regular, Add, Touches
    <2>6. CASE ~ c.ok
      <3>1. Updates(c) = {Add("modifies_attempted", 1)}
        BY <2>2, <2>6 DEF RecordModify
      <3> QED BY <2>3, <2>4, <2>6, <3>1 DEF Regular, Add, Touches
    <2> QED BY <2>1, <2>5, <2>6
  <1> QED BY <1>1, <1>2, <1>3, <1>4, <1>5 DEF Call

-----------------------------------------------------------------------------
(* What the threads owe.                                                   *)

(* What a thread that is at p owes a counter, and what of an unfinished    *)
(* call the counter shows.                                                 *)
Owes(p, s, f) ==
    IF p.slot = s /\ Touches(p.updates, f) THEN Amount(f, p.call) ELSE 0

Shows(p, s, f) ==
    IF p.updates # {} /\ p.slot = s /\ ~ Touches(p.updates, f) THEN Amount(f, p.call) ELSE 0

Owed(P, s, f) == SumFunctionOnSet([t \in Threads |-> Owes(P[t], s, f)], Threads)
Shown(P, s, f) == SumFunctionOnSet([t \in Threads |-> Shows(P[t], s, f)], Threads)

(* A thread that has made all updates of its call, or some are left.       *)
ThreadOK(p) ==
    /\ DOMAIN p = {"slot", "call", "updates"}
    /\ p.updates # {} => p.slot \in Slotted /\ p.call \in Calls /\ p.updates \subseteq Updates(p.call)

LEMMA OneAccount ==
    ASSUME NEW p, ThreadOK(p), NEW s, NEW f \in Counter
    PROVE  /\ Owes(p, s, f) \in Nat /\ Shows(p, s, f) \in Nat
           /\ (p.updates = {} \/ p.slot # s) => Owes(p, s, f) = 0 /\ Shows(p, s, f) = 0
  <1>1. p.updates # {} => Amount(f, p.call) \in Nat
    BY CallsRegular DEF ThreadOK, Regular
  <1>2. p.updates = {} => ~ Touches(p.updates, f)
    BY DEF Touches
  <1> QED BY <1>1, <1>2 DEF Owes, Shows

(* The accounts of a slot that no thread is updating are settled.          *)
LEMMA Settled ==
    ASSUME NEW P, \A t \in Threads : ThreadOK(P[t]), NEW s, NEW f \in Counter
    PROVE  /\ Owed(P, s, f) \in Nat /\ Shown(P, s, f) \in Nat
           /\ (\A t \in Threads : P[t].updates = {} \/ P[t].slot # s) =>
                  Owed(P, s, f) = 0 /\ Shown(P, s, f) = 0
  <1> DEFINE o == [t \in Threads |-> Owes(P[t], s, f)]
             h == [t \in Threads |-> Shows(P[t], s, f)]
  <1>1. \A t \in Threads : /\ o[t] \in Nat /\ h[t] \in Nat
                           /\ (P[t].updates = {} \/ P[t].slot # s) => o[t] = 0 /\ h[t] = 0
    BY OneAccount
  <1> HIDE DEF o, h
  <1>2. IsFiniteSet(Threads)
    BY MetricsAssumption
  <1>3. /\ SumFunctionOnSet(o, Threads) \in Nat
        /\ (\A t \in Threads : o[t] = 0) => SumFunctionOnSet(o, Threads) = 0
    BY <1>1, <1>2, SumNat
  <1>4. /\ SumFunctionOnSet(h, Threads) \in Nat
        /\ (\A t \in Threads : h[t] = 0) => SumFunctionOnSet(h, Threads) = 0
    BY <1>1, <1>2, SumNat
  <1>5. Owed(P, s, f) = SumFunctionOnSet(o, Threads) /\ Shown(P, s, f) = SumFunctionOnSet(h, Threads)
    BY DEF Owed, Shown, o, h
  <1> QED BY <1>1, <1>3, <1>4, <1>5

(* A step of one thread changes its own accounts.                          *)
LEMMA AccountChange ==
    ASSUME NEW P, NEW Q, NEW t \in Threads, NEW s, NEW f \in Counter,
           \A x \in Threads : ThreadOK(P[x]) /\ ThreadOK(Q[x]) /\ (x # t => P[x] = Q[x])
    PROVE  /\ Owed(Q, s, f) + Owes(P[t], s, f) = Owed(P, s, f) + Owes(Q[t], s, f)
           /\ Shown(Q, s, f) + Shows(P[t], s, f) = Shown(P, s, f) + Shows(Q[t], s, f)
  <1> DEFINE o1 == [x \in Threads |-> Owes(P[x], s, f)]
             h1 == [x \in Threads |-> Shows(P[x], s, f)]
             o2 == [x \in Threads |-> Owes(Q[x], s, f)]
             h2 == [x \in Threads |-> Shows(Q[x], s, f)]
  <1>1. \A x \in Threads : /\ o1[x] \in Nat /\ h1[x] \in Nat /\ o2[x] \in Nat /\ h2[x] \in Nat
                           /\ x # t => o1[x] = o2[x] /\ h1[x] = h2[x]
    BY OneAccount
  <1>2. o1[t] = Owes(P[t], s, f) /\ h1[t] = Shows(P[t], s, f) /\ o2[t] = Owes(Q[t], s, f) /\ h2[t] = Shows(Q[t], s, f)
    OBVIOUS
  <1> HIDE DEF o1, o2, h1, h2
  <1>3. IsFiniteSet(Threads)
    BY MetricsAssumption
  <1>4. SumFunctionOnSet(o2, Threads) + o1[t] = SumFunctionOnSet(o1, Threads) + o2[t]
    BY <1>1, <1>3, SumChange
  <1>5. SumFunctionOnSet(h2, Threads) + h1[t] = SumFunctionOnSet(h1, Threads) + h2[t]
    BY <1>1, <1>3, SumChange
  <1>6. /\ Owed(P, s, f) = SumFunctionOnSet(o1, Threads) /\ Shown(P, s, f) = SumFunctionOnSet(h1, Threads)
        /\ Owed(Q, s, f) = SumFunctionOnSet(o2, Threads) /\ Shown(Q, s, f) = SumFunctionOnSet(h2, Threads)
    BY DEF Owed, Shown, o1, o2, h1, h2
  <1> QED BY <1>2, <1>4, <1>5, <1>6

-----------------------------------------------------------------------------
(* The inductive invariant.                                                *)

Types ==
    /\ bundle \in [Slotted -> [Field -> 0 .. Modulus - 1]]
    /\ made \in [Slotted -> [Counter -> Nat]]
    /\ done \in [Slotted -> [Counter -> Nat]]
    /\ DOMAIN pending = Threads
    /\ \A t \in Threads : ThreadOK(pending[t])
    /\ torn \subseteq Slotted

PassOK ==
    /\ pass \in [kind : {"none", "reset", "snapshot"}, slot : Nat, left : Seq(Field),
                 got : [Field -> 0 .. Modulus - 1], before : [Counter -> Nat]]
    /\ IF pass.kind = "none" THEN pass.left = << >> ELSE pass.slot \in Slotted

(* The books of a slot balance, and a counter that is not about to be      *)
(* reset shows, modulo its width, what has ended and what was shown of     *)
(* unfinished calls.  A reset that met no call meets an empty account.     *)
Balanced(s) ==
    /\ \A f \in Counter :
           /\ made[s][f] = done[s][f] + Shown(pending, s, f) + Owed(pending, s, f)
           /\ ~ (Wiping(s) /\ f \in Range(pass.left)) =>
                  bundle[s][f] = Wrap(done[s][f] + Shown(pending, s, f))
    /\ Wiping(s) => InCall(s) = {} /\ made[s] = Nothing /\ done[s] = Nothing

(* A field that was read showed v at some moment since the snapshot began. *)
SnapshotOK ==
    (pass.kind = "snapshot" /\ pass.slot \notin torn) =>
        \A f \in Counter :
            /\ pass.before[f] <= done[pass.slot][f]
            /\ f \notin Range(pass.left) =>
                   \E v \in Nat : /\ pass.before[f] <= v /\ v <= made[pass.slot][f]
                                  /\ pass.got[f] = Wrap(v)

IInv == Types /\ PassOK /\ (\A s \in Slotted \ torn : Balanced(s)) /\ SnapshotOK

LEMMA Numbers ==
    /\ Modulus \in Nat \ {0} /\ 0 \in 0 .. (Modulus - 1) /\ Wrap(0) = 0
    /\ \A x \in Nat : Wrap(x) \in 0 .. (Modulus - 1)
    /\ Slotted \subseteq Nat
    /\ Counter \subseteq Field
    /\ Nothing \in [Counter -> Nat] /\ (\A f \in Counter : Nothing[f] = 0)
    /\ Zero \in [Field -> 0 .. (Modulus - 1)] /\ (\A f \in Field : Zero[f] = 0)
  <1>1. Modulus \in Nat \ {0} /\ Slots \in Nat \ {0} /\ Instruments \subseteq Nat
    BY MetricsAssumption
  <1>2. Wrap(0) = 0
    BY <1>1 DEF Wrap
  <1>3. \A x \in Nat : Wrap(x) \in 0 .. (Modulus - 1)
    BY <1>1, DivMod DEF Wrap
  <1>4. Slotted \subseteq Nat
    BY <1>1 DEF Slotted, Slot
  <1> QED BY <1>1, <1>2, <1>3, <1>4 DEF Counter, Nothing, Zero

LEMMA InitIInv == Init => IInv
  <1> SUFFICES ASSUME Init PROVE IInv
    OBVIOUS
  <1>1. Types
    BY Numbers DEF Init, Types, ThreadOK, Free
  <1>2. PassOK
    BY Numbers DEF Init, PassOK, NoPass
  <1>3. ASSUME NEW s \in Slotted PROVE Balanced(s)
    <2>1. \A f \in Counter : Owed(pending, s, f) = 0 /\ Shown(pending, s, f) = 0
      BY <1>1, Settled DEF Init, Types, Free
    <2>2. \A f \in Counter : made[s][f] = 0 /\ done[s][f] = 0 /\ bundle[s][f] = 0
      BY <1>3, Numbers DEF Init
    <2>3. ~ Wiping(s)
      BY DEF Init, Wiping, NoPass
    <2> QED BY <2>1, <2>2, <2>3, Numbers DEF Balanced
  <1>4. SnapshotOK
    BY DEF Init, NoPass, SnapshotOK
  <1> QED BY <1>1, <1>2, <1>3, <1>4 DEF IInv

LEMMA BeginIInv ==
    ASSUME IInv, NEW t \in Threads, NEW id \in Instruments, NEW c \in Calls, Begin(t, id, c)
    PROVE  IInv'
  <1> DEFINE s0 == Slot(id)
             p == [slot |-> s0, call |-> c, updates |-> Updates(c)]
  <1>1. /\ pending[t].updates = {} /\ bundle' = bundle /\ pass' = pass /\ done' = done
        /\ torn' = IF Wiping(s0) THEN torn \cup {s0} ELSE torn
        /\ pending' = [pending EXCEPT ![t] = p] /\ made' = [made EXCEPT ![s0] = Plus(@, c)]
    BY DEF Begin
  <1>2. s0 \in Slotted /\ Regular(c) /\ Types
    BY CallsRegular DEF IInv, Slotted
  <1> HIDE DEF s0
  <1>3. DOMAIN pending' = Threads /\ \A x \in Threads : pending'[x] = IF x = t THEN p ELSE pending[x]
    BY <1>1, <1>2 DEF Types
  <1>4. \A x \in Threads : ThreadOK(pending[x]) /\ ThreadOK(pending'[x])
    BY <1>2, <1>3 DEF Types, ThreadOK
  <1>5. /\ made' \in [Slotted -> [Counter -> Nat]]
        /\ \A s \in Slotted, f \in Counter :
               made'[s][f] = IF s = s0 THEN made[s][f] + Amount(f, c) ELSE made[s][f]
    <2>1. Plus(made[s0], c) \in [Counter -> Nat] /\ \A f \in Counter : Plus(made[s0], c)[f] = made[s0][f] + Amount(f, c)
      BY <1>2 DEF Types, Plus, Regular
    <2> QED BY <1>1, <1>2, <2>1 DEF Types
  <1>6. ASSUME NEW s \in Slotted, NEW f \in Counter
        PROVE  /\ Owed(pending', s, f) = IF s = s0 THEN Owed(pending, s, f) + Amount(f, c) ELSE Owed(pending, s, f)
               /\ Shown(pending', s, f) = Shown(pending, s, f)
               /\ Owed(pending, s, f) \in Nat /\ Shown(pending, s, f) \in Nat
    <2>1. /\ Owes(p, s, f) = IF s = s0 THEN Amount(f, c) ELSE 0
          /\ Shows(p, s, f) = 0 /\ Amount(f, c) \in Nat
      BY <1>2 DEF Owes, Shows, Regular
    <2>2. Owes(pending[t], s, f) = 0 /\ Shows(pending[t], s, f) = 0
      BY <1>1, <1>4, OneAccount
    <2>3. /\ Owed(pending', s, f) + Owes(pending[t], s, f) = Owed(pending, s, f) + Owes(pending'[t], s, f)
          /\ Shown(pending', s, f) + Shows(pending[t], s, f) = Shown(pending, s, f) + Shows(pending'[t], s, f)
      <3>1. \A x \in Threads : ThreadOK(pending[x]) /\ ThreadOK(pending'[x]) /\ (x # t => pending[x] = pending'[x])
        BY <1>3, <1>4
      <3> HIDE DEF p
      <3> QED BY <3>1, AccountChange
    <2>4. /\ Owed(pending, s, f) \in Nat /\ Shown(pending, s, f) \in Nat
          /\ Owed(pending', s, f) \in Nat /\ Shown(pending', s, f) \in Nat
      BY <1>4, Settled
    <2>5. pending'[t] = p
      BY <1>3
    <2> HIDE DEF p
    <2> QED BY <2>1, <2>2, <2>3, <2>4, <2>5
  <1>7. Types'
    BY <1>1, <1>2, <1>3, <1>4, <1>5 DEF Types
  <1>8. PassOK'
    BY <1>1 DEF IInv, PassOK
  <1>9. ASSUME NEW s \in Slotted, s \notin torn' PROVE Balanced(s)'
    <2>1. s \notin torn /\ Balanced(s) /\ (s = s0 => ~ Wiping(s)) /\ (Wiping(s)' <=> Wiping(s))
      BY <1>1, <1>9 DEF IInv, Wiping
    <2>2. ASSUME Wiping(s) PROVE InCall(s)' = InCall(s) /\ made'[s] = made[s]
      <3>1. s # s0
        BY <2>1, <2>2
      <3> QED BY <1>1, <1>2, <1>3, <3>1 DEF InCall, Types
    <2>3. ASSUME NEW f \in Counter
          PROVE  made'[s][f] = done'[s][f] + Shown(pending', s, f) + Owed(pending', s, f)
      <3>1. made[s][f] = done[s][f] + Shown(pending, s, f) + Owed(pending, s, f) /\ done[s][f] \in Nat /\ Amount(f, c) \in Nat
        BY <1>2, <2>1 DEF Balanced, Types, Regular
      <3>2. /\ made'[s][f] = IF s = s0 THEN made[s][f] + Amount(f, c) ELSE made[s][f]
            /\ done'[s][f] = done[s][f]
        BY <1>1, <1>5
      <3>3. /\ Owed(pending', s, f) = IF s = s0 THEN Owed(pending, s, f) + Amount(f, c) ELSE Owed(pending, s, f)
            /\ Shown(pending', s, f) = Shown(pending, s, f)
            /\ Owed(pending, s, f) \in Nat /\ Shown(pending, s, f) \in Nat
        BY <1>6
      <3> QED BY <3>1, <3>2, <3>3
    <2>4. ASSUME NEW f \in Counter, ~ (Wiping(s) /\ f \in Range(pass.left))
          PROVE  bundle'[s][f] = Wrap(done'[s][f] + Shown(pending', s, f))
      BY <1>1, <1>6, <2>1, <2>4 DEF Balanced
    <2> QED BY <1>1, <2>1, <2>2, <2>3, <2>4 DEF Balanced
  <1>10. SnapshotOK'
    <2> SUFFICES ASSUME pass.kind = "snapshot", pass.slot \notin torn, NEW f \in Counter
                 PROVE  /\ pass.before[f] <= done[pass.slot][f]
                        /\ f \notin Range(pass.left) =>
                               \E v \in Nat : pass.before[f] <= v /\ v <= made'[pass.slot][f] /\ pass.got[f] = Wrap(v)
      BY <1>1 DEF SnapshotOK
    <2>1. pass.slot \in Slotted /\ made'[pass.slot][f] \in Nat /\ made[pass.slot][f] \in Nat
          /\ made[pass.slot][f] <= made'[pass.slot][f]
      <3>1. pass.slot \in Slotted
        BY DEF IInv, PassOK
      <3>2. made'[pass.slot][f] \in Nat /\ made[pass.slot][f] \in Nat /\ Amount(f, c) \in Nat
        BY <1>2, <1>5, <3>1 DEF Types, Regular
      <3>3. made'[pass.slot][f] = IF pass.slot = s0 THEN made[pass.slot][f] + Amount(f, c) ELSE made[pass.slot][f]
        BY <1>5, <3>1
      <3> QED BY <3>1, <3>2, <3>3
    <2>2. /\ pass.before[f] <= done[pass.slot][f]
          /\ f \notin Range(pass.left) =>
                 \E v \in Nat : pass.before[f] <= v /\ v <= made[pass.slot][f] /\ pass.got[f] = Wrap(v)
      BY DEF IInv, SnapshotOK
    <2> QED BY <2>1, <2>2
  <1> QED BY <1>7, <1>8, <1>9, <1>10 DEF IInv

(* The accounts of a thread before and after one of its updates: what it   *)
(* owed it has shown, and with the last update its call has ended.         *)
LEMMA UpdateAccounts ==
    ASSUME NEW p, ThreadOK(p), NEW u \in p.updates, NEW q, q = Without(p, u),
           NEW f \in Counter
    PROVE  /\ ThreadOK(q) /\ (q.updates = {} \/ q.slot = p.slot)
           /\ Owes(p, p.slot, f) = Owes(q, p.slot, f) + (IF f = u.field THEN Amount(f, p.call) ELSE 0)
           /\ Shows(q, p.slot, f) + (IF p.updates = {u} THEN Amount(f, p.call) ELSE 0)
                  = Shows(p, p.slot, f) + (IF f = u.field THEN Amount(f, p.call) ELSE 0)
  <1> DEFINE a == Amount(f, p.call)
  <1>1. p.slot \in Slotted /\ p.call \in Calls /\ p.updates \subseteq Updates(p.call) /\ p.updates # {}
    BY DEF ThreadOK
  <1>2. Regular(p.call)
    BY <1>1, CallsRegular
  <1>3. a \in Nat /\ \A w \in p.updates : w.field = u.field => w = u
    BY <1>1, <1>2 DEF Regular
  <1> HIDE DEF a
  <1>4. CASE p.updates = {u}
    <2>1. q = Free /\ q.updates = {}
      BY <1>4 DEF Without, Free
    <2>2. ThreadOK(q)
      BY <2>1 DEF ThreadOK, Free
    <2>3. Owes(q, p.slot, f) = 0 /\ Shows(q, p.slot, f) = 0
      BY <2>1, <2>2, OneAccount
    <2>4. Touches(p.updates, f) <=> f = u.field
      BY <1>4 DEF Touches
    <2>5. Owes(p, p.slot, f) = (IF f = u.field THEN a ELSE 0) /\ Shows(p, p.slot, f) = (IF f = u.field THEN 0 ELSE a)
      BY <1>1, <2>4 DEF Owes, Shows, a
    <2> QED BY <1>3, <1>4, <2>1, <2>2, <2>3, <2>5 DEF a
  <1>5. CASE p.updates # {u}
    <2>1. q.slot = p.slot /\ q.call = p.call /\ q.updates = p.updates \ {u} /\ DOMAIN q = DOMAIN p
      BY <1>5 DEF ThreadOK, Without
    <2>2. ThreadOK(q) /\ q.updates # {}
      BY <1>1, <1>5, <2>1 DEF ThreadOK
    <2>3. Touches(q.updates, f) <=> Touches(p.updates, f) /\ f # u.field
      BY <1>3, <2>1 DEF Touches
    <2>4. f = u.field => Touches(p.updates, f)
      BY DEF Touches
    <2>5. /\ Owes(q, p.slot, f) = IF Touches(q.updates, f) THEN a ELSE 0
          /\ Shows(q, p.slot, f) = IF Touches(q.updates, f) THEN 0 ELSE a
          /\ Owes(p, p.slot, f) = IF Touches(p.updates, f) THEN a ELSE 0
          /\ Shows(p, p.slot, f) = IF Touches(p.updates, f) THEN 0 ELSE a
      BY <1>1, <2>1, <2>2 DEF Owes, Shows, a
    <2> QED BY <1>3, <1>5, <2>1, <2>2, <2>3, <2>4, <2>5 DEF a
  <1> QED BY <1>4, <1>5

LEMMA UpdateIInv ==
    ASSUME IInv, NEW t \in Threads, NEW u \in pending[t].updates, Update(t, u)
    PROVE  IInv'
  <1> DEFINE p == pending[t]
             q == pending'[t]
             s0 == pending[t].slot
             c == pending[t].call
             g == u.field
             more(f) == IF f = g THEN Amount(f, c) ELSE 0
             ended(f) == IF p.updates = {u} THEN Amount(f, c) ELSE 0
  <1>1. /\ pass' = pass /\ made' = made /\ torn' = torn
        /\ bundle' = [bundle EXCEPT ![s0][g] = Applied(@, u)]
        /\ pending' = [pending EXCEPT ![t] = Without(p, u)]
        /\ done' = IF p.updates = {u} THEN [done EXCEPT ![s0] = Plus(@, c)] ELSE done
    BY DEF Update
  <1>2. Types /\ ThreadOK(p) /\ p.updates # {}
    BY DEF IInv, Types
  <1>3. s0 \in Slotted /\ c \in Calls /\ u \in Updates(c)
    BY <1>2 DEF ThreadOK
  <1>4. Regular(c) /\ \A f \in Counter : Amount(f, c) \in Nat
    BY <1>3, CallsRegular DEF Regular
  <1>5. /\ DOMAIN pending' = Threads /\ \A x \in Threads : x # t => pending[x] = pending'[x]
        /\ q = Without(p, u)
    BY <1>1, <1>2 DEF Types
  <1>6. u \in p.updates
    OBVIOUS
  <1> HIDE DEF p, q, s0, c
  <1>7. \A f \in Counter :
            /\ ThreadOK(q) /\ (q.updates = {} \/ q.slot = s0)
            /\ Owes(p, s0, f) = Owes(q, s0, f) + more(f)
            /\ Shows(q, s0, f) + ended(f) = Shows(p, s0, f) + more(f)
    BY <1>2, <1>5, <1>6, UpdateAccounts DEF p, s0, c
  <1>8. Counter # {} /\ ThreadOK(q)
    BY <1>7, FieldsAre DEF Counter, FieldNames
  <1>9. \A x \in Threads : ThreadOK(pending[x]) /\ ThreadOK(pending'[x]) /\ (x # t => pending[x] = pending'[x])
    BY <1>2, <1>5, <1>8 DEF Types, q
  (* A slot's accounts after the update.                                   *)
  <1>10. /\ done' \in [Slotted -> [Counter -> Nat]]
         /\ \A s \in Slotted, f \in Counter :
                done'[s][f] = IF s = s0 THEN done[s][f] + ended(f) ELSE done[s][f]
    <2>1. Plus(done[s0], c) \in [Counter -> Nat] /\ \A f \in Counter : Plus(done[s0], c)[f] = done[s0][f] + Amount(f, c)
      BY <1>2, <1>3, <1>4 DEF Types, Plus
    <2>2. CASE p.updates = {u}
      BY <1>1, <1>2, <1>3, <2>1, <2>2 DEF Types
    <2>3. CASE p.updates # {u}
      BY <1>1, <1>2, <1>3, <2>3 DEF Types
    <2> QED BY <2>2, <2>3
  <1>11. ASSUME NEW s \in Slotted, NEW f \in Counter
         PROVE  /\ Owed(pending, s, f) = Owed(pending', s, f) + (IF s = s0 THEN more(f) ELSE 0)
                /\ done'[s][f] + Shown(pending', s, f)
                       = done[s][f] + Shown(pending, s, f) + (IF s = s0 THEN more(f) ELSE 0)
                /\ Shown(pending, s, f) \in Nat /\ Owed(pending, s, f) \in Nat
                /\ Shown(pending', s, f) \in Nat /\ Owed(pending', s, f) \in Nat
    <2>1. /\ Owed(pending', s, f) + Owes(p, s, f) = Owed(pending, s, f) + Owes(q, s, f)
          /\ Shown(pending', s, f) + Shows(p, s, f) = Shown(pending, s, f) + Shows(q, s, f)
      <3>1. /\ Owed(pending', s, f) + Owes(pending[t], s, f) = Owed(pending, s, f) + Owes(pending'[t], s, f)
            /\ Shown(pending', s, f) + Shows(pending[t], s, f) = Shown(pending, s, f) + Shows(pending'[t], s, f)
        BY <1>9, AccountChange
      <3> QED BY <3>1 DEF p, q
    <2>2. /\ Owed(pending, s, f) \in Nat /\ Shown(pending, s, f) \in Nat
          /\ Owed(pending', s, f) \in Nat /\ Shown(pending', s, f) \in Nat
      BY <1>9, Settled
    <2>3. Owes(p, s, f) \in Nat /\ Shows(p, s, f) \in Nat /\ Owes(q, s, f) \in Nat /\ Shows(q, s, f) \in Nat
      BY <1>2, <1>8, OneAccount
    <2>4. done[s][f] \in Nat /\ done'[s][f] = IF s = s0 THEN done[s][f] + ended(f) ELSE done[s][f]
      BY <1>2, <1>10 DEF Types
    <2>5. more(f) \in Nat /\ ended(f) \in Nat
      BY <1>4
    <2>6. CASE s = s0
      <3>1. Owes(p, s, f) = Owes(q, s, f) + more(f) /\ Shows(q, s, f) + ended(f) = Shows(p, s, f) + more(f)
        BY <1>7, <2>6
      <3> HIDE DEF more, ended
      <3> QED BY <2>1, <2>2, <2>3, <2>4, <2>5, <2>6, <3>1
    <2>7. CASE s # s0
      <3>1. Owes(p, s, f) = 0 /\ Shows(p, s, f) = 0
        BY <1>2, <2>7, OneAccount DEF s0, p
      <3>2. Owes(q, s, f) = 0 /\ Shows(q, s, f) = 0
        BY <1>7, <1>8, <2>7, OneAccount
      <3> HIDE DEF more, ended
      <3> QED BY <2>1, <2>2, <2>4, <2>7, <3>1, <3>2
    <2> QED BY <2>6, <2>7
  <1>12. /\ bundle' \in [Slotted -> [Field -> 0 .. Modulus - 1]]
         /\ \A s \in Slotted, f \in Field :
                bundle'[s][f] = IF s = s0 /\ f = g THEN Applied(bundle[s0][g], u) ELSE bundle[s][f]
    <2>1. g \in Field /\ bundle[s0][g] \in 0 .. (Modulus - 1) /\ bundle[s0] \in [Field -> 0 .. Modulus - 1]
      BY <1>2, <1>3, <1>4 DEF Types, Regular
    <2>2. Applied(bundle[s0][g], u) \in 0 .. (Modulus - 1)
      <3>1. u.n \in Nat /\ (u.add \/ u.n \in 0 .. (Modulus - 1)) /\ bundle[s0][g] + u.n \in Nat
        BY <1>3, <1>4, <2>1, Numbers DEF Regular
      <3> QED BY <3>1, Numbers DEF Applied
    <2> HIDE DEF g
    <2> QED BY <1>1, <1>2, <1>3, <2>1, <2>2 DEF Types
  <1>13. Types'
    BY <1>1, <1>2, <1>5, <1>9, <1>10, <1>12 DEF Types
  <1>14. PassOK'
    BY <1>1 DEF IInv, PassOK
  <1>15. ASSUME NEW s \in Slotted, s \notin torn' PROVE Balanced(s)'
    <2>1. s \notin torn /\ Balanced(s) /\ (Wiping(s)' <=> Wiping(s))
      BY <1>1, <1>15 DEF IInv, Wiping
    <2>2. s = s0 => ~ Wiping(s)
      <3>1. s = s0 => t \in InCall(s)
        BY <1>2 DEF InCall, s0, p
      <3> QED BY <2>1, <3>1 DEF Balanced
    <2>3. ASSUME Wiping(s) PROVE InCall(s)' = InCall(s) /\ done'[s] = done[s]
      <3>1. s # s0 /\ pending[t].slot # s
        BY <2>2, <2>3 DEF s0
      <3>2. q.updates = {} \/ q.slot # s
        BY <1>7, <1>8, <3>1
      <3>3. InCall(s)' = InCall(s)
        BY <1>5, <3>1, <3>2 DEF InCall, q
      <3>4. done'[s] = done[s]
        BY <1>1, <1>2, <3>1 DEF Types
      <3> QED BY <3>3, <3>4
    <2>4. ASSUME NEW f \in Counter
          PROVE  made'[s][f] = done'[s][f] + Shown(pending', s, f) + Owed(pending', s, f)
      <3>1. made[s][f] = done[s][f] + Shown(pending, s, f) + Owed(pending, s, f) /\ done[s][f] \in Nat /\ done'[s][f] \in Nat
        BY <1>2, <1>10, <2>1 DEF Balanced, Types
      <3> DEFINE d == IF s = s0 THEN more(f) ELSE 0
      <3>2. /\ Owed(pending, s, f) = Owed(pending', s, f) + d
            /\ done'[s][f] + Shown(pending', s, f) = done[s][f] + Shown(pending, s, f) + d
            /\ Shown(pending, s, f) \in Nat /\ Owed(pending, s, f) \in Nat
            /\ Shown(pending', s, f) \in Nat /\ Owed(pending', s, f) \in Nat /\ d \in Nat
        BY <1>4, <1>11
      <3> HIDE DEF d
      <3> QED BY <1>1, <3>1, <3>2
    <2>5. ASSUME NEW f \in Counter, ~ (Wiping(s) /\ f \in Range(pass.left))
          PROVE  bundle'[s][f] = Wrap(done'[s][f] + Shown(pending', s, f))
      <3> DEFINE x == done[s][f] + Shown(pending, s, f)
      <3>1. bundle[s][f] = Wrap(x) /\ f \in Field /\ x \in Nat
        BY <1>2, <1>11, <2>1, <2>5, Numbers DEF Balanced, Types
      <3>2. done'[s][f] + Shown(pending', s, f) = x + (IF s = s0 THEN more(f) ELSE 0)
        BY <1>11
      <3>3. bundle'[s][f] = IF s = s0 /\ f = g THEN Applied(bundle[s0][g], u) ELSE bundle[s][f]
        BY <1>12, <3>1
      <3> HIDE DEF x
      <3>4. CASE s = s0 /\ f = g
        <4>1. u.add /\ u.n \in Nat /\ Wrap(u.n) = Wrap(Amount(f, c)) /\ Amount(f, c) \in Nat
          BY <1>3, <1>4, <3>4 DEF Regular
        <4>2. bundle'[s][f] = Wrap(Wrap(x) + u.n)
          BY <3>1, <3>3, <3>4, <4>1 DEF Applied
        <4>3. Wrap(Wrap(x) + u.n) = Wrap(x + Amount(f, c))
          BY <3>1, <4>1, WrapAdd
        <4> QED BY <3>2, <3>4, <4>2, <4>3
      <3>5. CASE ~ (s = s0 /\ f = g)
        <4>1. done'[s][f] + Shown(pending', s, f) = x
          BY <3>1, <3>2, <3>5
        <4> QED BY <3>1, <3>3, <3>5, <4>1
      <3> QED BY <3>4, <3>5
    <2> QED BY <1>1, <2>1, <2>3, <2>4, <2>5 DEF Balanced
  <1>16. SnapshotOK'
    <2> SUFFICES ASSUME pass.kind = "snapshot", pass.slot \notin torn, NEW f \in Counter
                 PROVE  /\ pass.before[f] <= done'[pass.slot][f]
                        /\ f \notin Range(pass.left) =>
                               \E v \in Nat : pass.before[f] <= v /\ v <= made[pass.slot][f] /\ pass.got[f] = Wrap(v)
      BY <1>1 DEF SnapshotOK
    <2>1. pass.slot \in Slotted /\ pass.before[f] \in Nat
      BY DEF IInv, PassOK
    <2>2. done[pass.slot][f] \in Nat /\ done'[pass.slot][f] \in Nat /\ done[pass.slot][f] <= done'[pass.slot][f]
      <3>1. done'[pass.slot][f] = IF pass.slot = s0 THEN done[pass.slot][f] + ended(f) ELSE done[pass.slot][f]
        BY <1>10, <2>1
      <3>2. done[pass.slot][f] \in Nat /\ ended(f) \in Nat
        BY <1>2, <1>4, <2>1 DEF Types
      <3> HIDE DEF ended
      <3> QED BY <3>1, <3>2
    <2>3. /\ pass.before[f] <= done[pass.slot][f]
          /\ f \notin Range(pass.left) =>
                 \E v \in Nat : pass.before[f] <= v /\ v <= made[pass.slot][f] /\ pass.got[f] = Wrap(v)
      BY DEF IInv, SnapshotOK
    <2> QED BY <2>1, <2>2, <2>3
  <1> QED BY <1>13, <1>14, <1>15, <1>16 DEF IInv

LEMMA WipeBeginIInv ==
    ASSUME IInv, NEW s0 \in Slotted, WipeBegin(s0)
    PROVE  IInv'
  <1>1. /\ pass.left = << >> /\ bundle' = bundle /\ pending' = pending
        /\ pass' = [NoPass EXCEPT !.kind = "reset", !.slot = s0, !.left = Fields]
        /\ made' = [made EXCEPT ![s0] = Nothing] /\ done' = [done EXCEPT ![s0] = Nothing]
        /\ torn' = IF InCall(s0) = {} THEN torn \ {s0} ELSE torn \cup {s0}
    BY DEF WipeBegin, PassBegins, WipedFields
  <1>2. Types
    BY DEF IInv
  <1>3. /\ pass'.kind = "reset" /\ pass'.slot = s0 /\ pass'.left = Fields
        /\ pass'.got = Zero /\ pass'.before = Nothing
        /\ pass' \in [kind : {"none", "reset", "snapshot"}, slot : Nat, left : Seq(Field),
                      got : [Field -> 0 .. Modulus - 1], before : [Counter -> Nat]]
    BY <1>1, FieldsAre, Numbers DEF NoPass
  <1>4. Types'
    BY <1>1, <1>2, Numbers DEF Types
  <1>5. PassOK'
    BY <1>3 DEF PassOK
  <1>6. ASSUME NEW s \in Slotted, s \notin torn' PROVE Balanced(s)'
    <2>1. CASE s = s0
      <3>1. InCall(s0) = {} /\ InCall(s0)' = {}
        BY <1>1, <1>6, <2>1 DEF InCall
      <3>2. \A f \in Counter : Owed(pending, s0, f) = 0 /\ Shown(pending, s0, f) = 0
        BY <1>2, <3>1, Settled DEF InCall, Types
      <3>3. /\ made'[s0] = Nothing /\ done'[s0] = Nothing
            /\ \A f \in Counter : made'[s0][f] = 0 /\ done'[s0][f] = 0
        BY <1>1, <1>2, Numbers DEF Types
      <3>4. Wiping(s0)' /\ \A f \in Counter : f \in Range(pass'.left)
        BY <1>3, FieldsAre DEF Wiping, Counter, Field
      <3> QED BY <1>1, <2>1, <3>1, <3>2, <3>3, <3>4 DEF Balanced
    <2>2. CASE s # s0
      <3>1. s \notin torn /\ ~ Wiping(s) /\ ~ Wiping(s)'
        BY <1>1, <1>3, <1>6, <2>2 DEF Wiping
      <3>2. Balanced(s) /\ made'[s] = made[s] /\ done'[s] = done[s]
        BY <1>1, <1>2, <2>2, <3>1 DEF IInv, Types
      <3> QED BY <1>1, <3>1, <3>2 DEF Balanced
    <2> QED BY <2>1, <2>2
  <1>7. SnapshotOK'
    BY <1>3 DEF SnapshotOK
  <1> QED BY <1>4, <1>5, <1>6, <1>7 DEF IInv

(* The fields a pass has still to go through.                              *)
LEMMA PassStep ==
    ASSUME NEW l \in Seq(Field), l # << >>
    PROVE  /\ Head(l) \in Field /\ Tail(l) \in Seq(Field)
           /\ \A f : f \in Range(l) <=> f = Head(l) \/ f \in Range(Tail(l))
  <1>1. /\ Head(l) = l[1] /\ Len(l) \in Nat \ {0} /\ Len(Tail(l)) = Len(l) - 1
        /\ DOMAIN l = 1 .. Len(l) /\ DOMAIN Tail(l) = 1 .. (Len(l) - 1)
        /\ \A i \in 1 .. (Len(l) - 1) : Tail(l)[i] = l[i + 1]
    OBVIOUS
  <1>2. ASSUME NEW f, f \in Range(l) PROVE f = Head(l) \/ f \in Range(Tail(l))
    <2>1. PICK i \in 1 .. Len(l) : f = l[i]
      BY <1>1, <1>2 DEF Range
    <2>2. CASE i = 1
      BY <1>1, <2>1, <2>2
    <2>3. CASE i # 1
      <3>1. i - 1 \in 1 .. (Len(l) - 1) /\ (i - 1) + 1 = i
        BY <1>1, <2>3
      <3>2. Tail(l)[i - 1] = f
        BY <1>1, <2>1, <3>1
      <3> QED BY <1>1, <3>1, <3>2 DEF Range
    <2> QED BY <2>2, <2>3
  <1>3. Head(l) \in Range(l)
    BY <1>1 DEF Range
  <1>4. ASSUME NEW f, f \in Range(Tail(l)) PROVE f \in Range(l)
    <2>1. PICK i \in 1 .. (Len(l) - 1) : f = Tail(l)[i]
      BY <1>1, <1>4 DEF Range
    <2>2. i + 1 \in 1 .. Len(l) /\ f = l[i + 1]
      BY <1>1, <2>1
    <2> QED BY <1>1, <2>2 DEF Range
  <1>5. Head(l) \in Field /\ Tail(l) \in Seq(Field)
    OBVIOUS
  <1> QED BY <1>2, <1>3, <1>4, <1>5

LEMMA WipeIInv ==
    ASSUME IInv, Wipe
    PROVE  IInv'
  <1> DEFINE s0 == pass.slot
             h == Head(pass.left)
  <1>1. /\ pass.kind = "reset" /\ pass.left # << >> /\ pending' = pending /\ made' = made
        /\ done' = done /\ torn' = torn
        /\ bundle' = [bundle EXCEPT ![s0][h] = 0] /\ pass' = [pass EXCEPT !.left = Tail(@)]
    BY DEF Wipe
  <1>2. Types /\ PassOK /\ s0 \in Slotted /\ pass.left \in Seq(Field)
    BY <1>1 DEF IInv, PassOK
  <1>3. h \in Field /\ Tail(pass.left) \in Seq(Field)
        /\ \A f : f \in Range(pass.left) <=> f = h \/ f \in Range(Tail(pass.left))
    BY <1>1, <1>2, PassStep
  <1>4. pass'.kind = "reset" /\ pass'.slot = s0 /\ pass'.left = Tail(pass.left) /\ PassOK'
    <2> HIDE DEF h
    <2> QED BY <1>1, <1>2, <1>3 DEF PassOK
  <1> HIDE DEF s0, h
  <1>5. /\ bundle' \in [Slotted -> [Field -> 0 .. Modulus - 1]]
        /\ \A s \in Slotted, f \in Field : bundle'[s][f] = IF s = s0 /\ f = h THEN 0 ELSE bundle[s][f]
    BY <1>1, <1>2, <1>3, Numbers DEF Types
  <1>6. Types'
    BY <1>1, <1>2, <1>5 DEF Types
  <1>7. ASSUME NEW s \in Slotted, s \notin torn' PROVE Balanced(s)'
    <2>1. Balanced(s)
      BY <1>1, <1>7 DEF IInv
    <2>2. CASE s = s0
      <3>1. Wiping(s)
        BY <1>1, <2>2 DEF Wiping, s0
      <3>2. InCall(s) = {} /\ made[s] = Nothing /\ done[s] = Nothing /\ InCall(s)' = InCall(s)
        BY <1>1, <2>1, <3>1 DEF Balanced, InCall
      <3>3. \A f \in Counter : Owed(pending, s, f) = 0 /\ Shown(pending, s, f) = 0 /\ made[s][f] = 0 /\ done[s][f] = 0
        BY <1>2, <3>2, Settled, Numbers DEF InCall, Types
      <3>4. ASSUME NEW f \in Counter, ~ (Wiping(s)' /\ f \in Range(pass'.left))
            PROVE  bundle'[s][f] = 0
        <4>1. f \in Field
          BY Numbers
        <4>2. CASE f = h
          BY <1>5, <2>2, <4>1, <4>2
        <4>3. CASE f # h
          <5>1. f \notin Range(pass.left)
            <6>1. CASE Wiping(s)'
              BY <1>3, <1>4, <3>4, <4>3, <6>1
            <6>2. CASE ~ Wiping(s)'
              <7>1. Tail(pass.left) = << >>
                BY <1>4, <2>2, <6>2 DEF Wiping
              <7>2. Range(Tail(pass.left)) = {}
                BY <7>1 DEF Range
              <7> QED BY <1>3, <4>3, <7>2
            <6> QED BY <6>1, <6>2
          <5>2. bundle[s][f] = Wrap(done[s][f] + Shown(pending, s, f))
            BY <2>1, <5>1 DEF Balanced
          <5>3. bundle[s][f] = 0
            BY <3>3, <5>2, Numbers
          <5> QED BY <1>5, <4>1, <4>3, <5>3
        <4> QED BY <4>2, <4>3
      <3> QED BY <1>1, <3>2, <3>3, <3>4, Numbers DEF Balanced
    <2>3. CASE s # s0
      <3>1. ~ Wiping(s) /\ ~ Wiping(s)'
        BY <1>4, <2>3 DEF Wiping, s0
      <3>2. \A f \in Counter : bundle'[s][f] = bundle[s][f]
        BY <1>5, <2>3, Numbers
      <3> QED BY <1>1, <2>1, <3>1, <3>2 DEF Balanced
    <2> QED BY <2>2, <2>3
  <1>8. SnapshotOK'
    BY <1>4 DEF SnapshotOK
  <1> QED BY <1>4, <1>6, <1>7, <1>8 DEF IInv

LEMMA ReadBeginIInv ==
    ASSUME IInv, NEW s0 \in Slotted, ReadBegin(s0)
    PROVE  IInv'
  <1>1. /\ pass.left = << >> /\ bundle' = bundle /\ pending' = pending /\ made' = made
        /\ done' = done /\ torn' = torn
        /\ pass' = [NoPass EXCEPT !.kind = "snapshot", !.slot = s0, !.left = Fields, !.before = done[s0]]
    BY DEF ReadBegin, PassBegins
  <1>2. Types /\ done[s0] \in [Counter -> Nat]
    BY DEF IInv, Types
  <1>3. /\ pass'.kind = "snapshot" /\ pass'.slot = s0 /\ pass'.left = Fields /\ pass'.before = done[s0]
        /\ pass' \in [kind : {"none", "reset", "snapshot"}, slot : Nat, left : Seq(Field),
                      got : [Field -> 0 .. Modulus - 1], before : [Counter -> Nat]]
    BY <1>1, <1>2, FieldsAre, Numbers DEF NoPass
  <1>4. Types' /\ PassOK'
    BY <1>1, <1>2, <1>3 DEF Types, PassOK
  <1>5. ASSUME NEW s \in Slotted, s \notin torn' PROVE Balanced(s)'
    <2>1. Balanced(s) /\ ~ Wiping(s) /\ ~ Wiping(s)'
      BY <1>1, <1>3, <1>5 DEF IInv, Wiping
    <2> QED BY <1>1, <2>1 DEF Balanced
  <1>6. SnapshotOK'
    <2>1. \A f \in Counter : done[s0][f] <= done[s0][f] /\ f \in Range(Fields)
      BY <1>2 DEF Counter, Field
    <2> QED BY <1>1, <1>3, <2>1 DEF SnapshotOK
  <1> QED BY <1>4, <1>5, <1>6 DEF IInv

LEMMA ReadIInv ==
    ASSUME IInv, Read
    PROVE  IInv'
  <1> DEFINE s0 == pass.slot
             h == Head(pass.left)
  <1>1. /\ pass.kind = "snapshot" /\ pass.left # << >> /\ bundle' = bundle /\ pending' = pending
        /\ made' = made /\ done' = done /\ torn' = torn
        /\ pass' = [pass EXCEPT !.left = Tail(@), !.got[h] = bundle[s0][h]]
    BY DEF Read, ReadValue
  <1>2. Types /\ PassOK /\ s0 \in Slotted /\ pass.left \in Seq(Field)
    BY <1>1 DEF IInv, PassOK
  <1>3. h \in Field /\ Tail(pass.left) \in Seq(Field)
        /\ \A f : f \in Range(pass.left) <=> f = h \/ f \in Range(Tail(pass.left))
    BY <1>1, <1>2, PassStep
  <1> HIDE DEF h, s0
  <1>4. /\ pass'.kind = "snapshot" /\ pass'.slot = s0 /\ pass'.left = Tail(pass.left) /\ pass'.before = pass.before
        /\ \A f \in Field : pass'.got[f] = IF f = h THEN bundle[s0][h] ELSE pass.got[f]
        /\ pass' \in [kind : {"none", "reset", "snapshot"}, slot : Nat, left : Seq(Field),
                      got : [Field -> 0 .. Modulus - 1], before : [Counter -> Nat]]
    <2>1. bundle[s0][h] \in 0 .. (Modulus - 1)
      BY <1>2, <1>3 DEF Types
    <2> QED BY <1>1, <1>2, <1>3, <2>1 DEF PassOK, s0
  <1>5. Types' /\ PassOK'
    BY <1>1, <1>2, <1>4 DEF Types, PassOK
  <1>6. ASSUME NEW s \in Slotted, s \notin torn' PROVE Balanced(s)'
    <2>1. Balanced(s) /\ ~ Wiping(s) /\ ~ Wiping(s)'
      BY <1>1, <1>4, <1>6 DEF IInv, Wiping
    <2> QED BY <1>1, <2>1 DEF Balanced
  <1>7. SnapshotOK'
    <2> SUFFICES ASSUME s0 \notin torn, NEW f \in Counter
                 PROVE  /\ pass.before[f] <= done[s0][f]
                        /\ f \notin Range(pass'.left) =>
                               \E v \in Nat : pass.before[f] <= v /\ v <= made[s0][f] /\ pass'.got[f] = Wrap(v)
      BY <1>1, <1>4 DEF SnapshotOK
    <2>1. /\ pass.before[f] <= done[s0][f]
          /\ f \notin Range(pass.left) =>
                 \E v \in Nat : pass.before[f] <= v /\ v <= made[s0][f] /\ pass.got[f] = Wrap(v)
      BY <1>1 DEF IInv, SnapshotOK, s0
    <2>2. ASSUME f = h
          PROVE  \E v \in Nat : pass.before[f] <= v /\ v <= made[s0][f] /\ pass'.got[f] = Wrap(v)
      <3> DEFINE v == done[s0][f] + Shown(pending, s0, f)
      <3>1. Balanced(s0) /\ ~ Wiping(s0)
        BY <1>1, <1>2 DEF IInv, Wiping
      <3>2. /\ made[s0][f] = done[s0][f] + Shown(pending, s0, f) + Owed(pending, s0, f)
            /\ bundle[s0][f] = Wrap(v)
        BY <3>1 DEF Balanced
      <3>3. Shown(pending, s0, f) \in Nat /\ Owed(pending, s0, f) \in Nat /\ done[s0][f] \in Nat /\ pass.before[f] \in Nat
        <4>1. Shown(pending, s0, f) \in Nat /\ Owed(pending, s0, f) \in Nat
          BY <1>2, Settled DEF Types
        <4>2. done[s0][f] \in Nat /\ pass.before[f] \in Nat
          BY <1>2 DEF Types, PassOK
        <4> QED BY <4>1, <4>2
      <3>4. v \in Nat /\ pass.before[f] <= v /\ v <= made[s0][f]
        BY <2>1, <3>2, <3>3
      <3>5. pass'.got[f] = Wrap(v)
        BY <1>4, <2>2, <3>2, Numbers
      <3> HIDE DEF v
      <3> QED BY <3>4, <3>5
    <2>3. ASSUME f # h, f \notin Range(pass'.left)
          PROVE  \E v \in Nat : pass.before[f] <= v /\ v <= made[s0][f] /\ pass'.got[f] = Wrap(v)
      <3>1. f \notin Range(pass.left) /\ pass'.got[f] = pass.got[f]
        BY <1>3, <1>4, <2>3, Numbers
      <3> QED BY <2>1, <3>1
    <2> QED BY <2>1, <2>2, <2>3
  <1> QED BY <1>5, <1>6, <1>7 DEF IInv

LEMMA NextIInv == IInv /\ [Next]_vars => IInv'
  <1> SUFFICES ASSUME IInv, [Next]_vars PROVE IInv'
    OBVIOUS
  <1>1. CASE UNCHANGED vars
    BY <1>1 DEF vars, IInv, Types, PassOK, Balanced, SnapshotOK, Wiping, InCall
  <1>2. CASE Next
    BY <1>2, BeginIInv, UpdateIInv, WipeBeginIInv, WipeIInv, ReadBeginIInv, ReadIInv DEF Next
  <1> QED BY <1>1, <1>2

(* The accounts of every slot balance: what its calls amount to is what    *)
(* has ended, what is shown of unfinished calls and what is still owed.    *)
THEOREM Invariant == Spec => []IInv
  BY InitIInv, NextIInv, PTL DEF Spec

(* No update of concurrent threads is lost: when no call and no reset of a *)
(* bundle is under way, its counters show exactly the calls since the last *)
(* reset, modulo their width.                                              *)
THEOREM NoUpdateLost == Spec => []CountsAtRest
  <1>1. IInv => CountsAtRest
    <2> SUFFICES ASSUME IInv PROVE CountsAtRest
      OBVIOUS
    <2>1. TypeOK
      BY DEF IInv, Types, PassOK, ThreadOK, TypeOK
    <2>2. ASSUME NEW s \in Slotted, InCall(s) = {}, ~ Wiping(s), s \notin torn, NEW f \in Counter
          PROVE  bundle[s][f] = Wrap(made[s][f])
      <3>1. Owed(pending, s, f) = 0 /\ Shown(pending, s, f) = 0
        BY <2>2, Settled DEF InCall, IInv, Types
      <3>2. made[s][f] = done[s][f] + Shown(pending, s, f) + Owed(pending, s, f)
            /\ bundle[s][f] = Wrap(done[s][f] + Shown(pending, s, f)) /\ done[s][f] \in Nat
        BY <2>2 DEF IInv, Balanced, Types
      <3>3. made[s][f] = done[s][f] /\ done[s][f] + Shown(pending, s, f) = done[s][f]
        BY <3>1, <3>2
      <3> QED BY <3>2, <3>3
    <2> QED BY <2>1, <2>2 DEF CountsAtRest
  <1> QED BY <1>1, Invariant, PTL

(* A snapshot shows of every counter at least what had ended when it began *)
(* and at most what has begun by now, however the reads of its fields and  *)
(* the updates of the threads interleave, unless the counter wrapped.      *)
THEOREM SnapshotInBounds == Spec => []SnapshotBounded
  <1>1. IInv => SnapshotBounded
    <2> SUFFICES ASSUME IInv, pass.kind = "snapshot", pass.slot \notin torn,
                        NEW f \in Counter, f \notin Range(pass.left), ~ (made[pass.slot][f] >= Modulus)
                 PROVE  pass.before[f] <= pass.got[f] /\ pass.got[f] <= made[pass.slot][f]
      BY DEF SnapshotBounded
    <2>1. PICK v \in Nat : pass.before[f] <= v /\ v <= made[pass.slot][f] /\ pass.got[f] = Wrap(v)
      BY DEF IInv, SnapshotOK
    <2>2. made[pass.slot][f] \in Nat /\ pass.slot \in Slotted
      BY DEF IInv, Types, PassOK
    <2>3. v < Modulus /\ Modulus \in Nat \ {0}
      BY <2>1, <2>2, Numbers
    <2>4. Wrap(v) = v
      BY <2>3 DEF Wrap
    <2> QED BY <2>1, <2>4
  <1> QED BY <1>1, Invariant, PTL

=============================================================================

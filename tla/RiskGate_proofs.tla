--------------------------- MODULE RiskGate_proofs --------------------------
(***************************************************************************)
(* Proofs about the risk gate, for any limits, any size and rate of the    *)
(* token bucket and any history of orders: the rate limiter keeps to its   *)
(* limit in every window, and the decisions of the gate are justified.     *)
(*                                                                         *)
(* The argument is an account of the tokens.  Since any pass of a trader,  *)
(* the passes from it on plus what is left in the bucket cost no more than *)
(* a full bucket and what time has refilled (Budget); and for some pass    *)
(* they cost exactly that (Tight), the latest one at which the bucket was  *)
(* full, which is why a rejection is never needless.                       *)
(***************************************************************************)
EXTENDS RiskGate, WellFoundedInduction, SequenceTheorems, TLAPS

-----------------------------------------------------------------------------
(* Arithmetic and minima.                                                  *)

LEMMA Constants ==
    /\ Burst \in Nat /\ Refill \in Nat /\ Refill > 0 /\ MaxTime \in Nat /\ MaxTime >= 1
    /\ Burst * Refill \in Nat
    /\ Burst # 0 => Burst * Refill >= Refill
  <1>1. Burst \in Nat /\ Refill \in Nat /\ Refill > 0 /\ MaxTime \in Nat /\ MaxTime >= 1
    BY RiskAssumption
  <1>2. Burst * Refill \in Nat
    BY <1>1
  <1>3. Burst # 0 => Burst * Refill >= Refill
    BY <1>1
  <1> QED BY <1>1, <1>2, <1>3

LEMMA OneMore ==
    ASSUME NEW k \in Int
    PROVE  /\ k * Refill \in Int
           /\ (k + 1) * Refill = k * Refill + Refill
           /\ (k - Burst) * Refill = k * Refill - Burst * Refill
  BY Constants

(* Both sides of the account grow alike, or the costs less.                *)
LEMMA Balance ==
    ASSUME NEW c \in Int, NEW d \in Int, NEW tokens \in Nat, NEW elapsed \in Int, NEW r \in Nat
    PROVE  /\ c + tokens <= d /\ r <= tokens + elapsed =>
                  (c + Refill) + (r - Refill) <= d + elapsed
           /\ c + tokens <= d /\ r <= tokens + elapsed => c + r <= d + elapsed
           /\ c + tokens = d /\ r = tokens + elapsed =>
                  (c + Refill) + (r - Refill) = d + elapsed /\ c + r = d + elapsed
  BY Constants

LEMMA MinOfTwo ==
    ASSUME NEW a \in Int, NEW b \in Int
    PROVE  Min({a, b}) = IF a <= b THEN a ELSE b
  <1> DEFINE m == IF a <= b THEN a ELSE b
  <1>1. m \in {a, b} /\ \A y \in {a, b} : m <= y
    OBVIOUS
  <1>2. \A x \in {a, b} : (\A y \in {a, b} : x <= y) => x = m
    OBVIOUS
  <1> QED BY <1>1, <1>2 DEF Min

(* A set of natural numbers that is not empty has a minimum.               *)
LEMMA MinExists ==
    ASSUME NEW S, S \subseteq Nat, S # {}
    PROVE  Min(S) \in S /\ \A y \in S : Min(S) <= y
  <1> DEFINE R == OpToRel(<, Nat)
  <1>1. IsWellFoundedOn(R, Nat)
    BY NatLessThanWellFounded, Zenon
  <1> HIDE DEF R
  <1>2. PICK x \in S : \A y \in S : ~ (<< y, x >> \in R)
    BY <1>1, WFMin
  <1>3. \A y \in S : x <= y
    <2> SUFFICES ASSUME NEW y \in S, ~ (x <= y) PROVE FALSE
      OBVIOUS
    <2>1. x \in Nat /\ y \in Nat /\ y < x
      OBVIOUS
    <2>2. << y, x >> \in R
      BY <2>1 DEF R, OpToRel
    <2> QED BY <2>2, <1>2
  <1> QED BY <1>3 DEF Min

-----------------------------------------------------------------------------
(* The inductive invariant.                                                *)

(* What the passes of trader t from the i-th on cost.                      *)
Cost(t, i) == (Len(passes[t]) - i + 1) * Refill

(* A full bucket and what was refilled between pass i and the last order.  *)
Income(t, i) == Burst * Refill + (states[t].last - passes[t][i])

Clock ==
    \A t \in Trader :
        /\ states[t].last <= now
        /\ states[t].last = 0 => passes[t] = << >>
        /\ \A i \in DOMAIN passes[t] : passes[t][i] <= states[t].last

Budget ==
    \A t \in Trader : \A i \in DOMAIN passes[t] :
        Cost(t, i) + states[t].tokens <= Income(t, i)

Tight ==
    \A t \in Trader :
        Burst # 0 /\ states[t].last # 0 =>
            \E i \in DOMAIN passes[t] : Cost(t, i) + states[t].tokens = Income(t, i)

IInv ==
    /\ TypeOK
    /\ Clock
    /\ Budget
    /\ Tight
    /\ RateBounded

LEMMA InitIInv == Init => IInv
  <1> SUFFICES ASSUME Init PROVE IInv
    OBVIOUS
  <1>1. TypeOK
    BY Constants DEF Init, TypeOK, Unseen
  <1>2. \A t \in Trader : DOMAIN passes[t] = {} /\ states[t].last = 0
    BY DEF Init, Unseen
  <1> QED BY <1>1, <1>2, Constants DEF Init, IInv, Clock, Budget, Tight, RateBounded

-----------------------------------------------------------------------------
(* The steps.                                                              *)

LEMMA AddCheckIInv ==
    ASSUME IInv, NEW k \in Kind, AddCheck(k)
    PROVE  IInv'
  <1>1. TypeOK'
    BY AppendProperties DEF IInv, TypeOK, AddCheck
  <1>2. UNCHANGED << states, now, passes >>
    BY DEF AddCheck
  <1> QED BY <1>1, <1>2
          DEF IInv, Clock, Budget, Tight, Cost, Income, RateBounded

LEMMA ClearChecksIInv == IInv /\ ClearChecks => IInv'
  <1> SUFFICES ASSUME IInv, ClearChecks PROVE IInv'
    OBVIOUS
  <1>1. TypeOK'
    BY Constants DEF IInv, TypeOK, ClearChecks, Unseen
  <1>2. \A t \in Trader : /\ passes'[t] = << >> /\ DOMAIN passes'[t] = {}
                          /\ states'[t].last = 0
    BY DEF ClearChecks, Unseen
  <1>3. now' \in Nat
    BY <1>1, Constants DEF TypeOK
  <1> QED BY <1>1, <1>2, <1>3 DEF IInv, Clock, Budget, Tight, RateBounded

LEMMA TickIInv == IInv /\ Tick => IInv'
  <1> SUFFICES ASSUME IInv, Tick PROVE IInv'
    OBVIOUS
  <1>1. TypeOK'
    BY Constants DEF IInv, TypeOK, Tick
  <1>2. Clock'
    <2>1. \A t \in Trader : states[t].last \in Nat
      BY Constants DEF IInv, TypeOK
    <2>2. now \in Nat /\ now' = now + 1 /\ UNCHANGED << states, passes >>
      BY Constants DEF IInv, TypeOK, Tick
    <2> QED BY <2>1, <2>2 DEF IInv, Clock
  <1> QED BY <1>1, <1>2
          DEF Tick, IInv, Budget, Tight, Cost, Income, RateBounded

(* What the bucket of a trader holds after the refill.                     *)
LEMMA RefilledFacts ==
    ASSUME IInv, NEW t \in Trader
    PROVE  /\ Refilled(t) \in Nat
           /\ Refilled(t) <= Burst * Refill
           /\ states[t].last = 0 => Refilled(t) = Burst * Refill
           /\ states[t].last # 0 =>
                  /\ Refilled(t) <= states[t].tokens + (now - states[t].last)
                  /\ \/ Refilled(t) = states[t].tokens + (now - states[t].last)
                     \/ Refilled(t) = Burst * Refill
  <1>1. /\ states[t].tokens \in Nat /\ states[t].last \in Nat /\ now \in Nat
        /\ states[t].last <= now
    BY Constants DEF IInv, TypeOK, Clock
  <1>2. CASE states[t].last = 0
    BY <1>2, Constants DEF Refilled
  <1>3. CASE states[t].last # 0
    <2> DEFINE a == states[t].tokens + (now - states[t].last)
               b == Burst * Refill
    <2>1. a \in Nat /\ b \in Nat
      BY <1>1, Constants
    <2>2. Refilled(t) = Min({a, b})
      BY <1>3 DEF Refilled
    <2> HIDE DEF a, b
    <2>3. Refilled(t) = IF a <= b THEN a ELSE b
      BY <2>1, <2>2, MinOfTwo
    <2>4. Refilled(t) \in Nat /\ Refilled(t) <= b /\ Refilled(t) <= a
          /\ (Refilled(t) = a \/ Refilled(t) = b)
      BY <2>1, <2>3
    <2> QED BY <2>4, <1>3 DEF a, b
  <1> QED BY <1>2, <1>3

(* The rate limiter lets an order by.                                      *)
LEMMA PassIInv ==
    ASSUME IInv, NEW t \in Trader, ~ (Refilled(t) < Refill),
           states' = [states EXCEPT ![t] = [tokens |-> Refilled(t) - Refill, last |-> now]],
           passes' = [passes EXCEPT ![t] = Append(passes[t], now)],
           UNCHANGED << checks, now >>
    PROVE  IInv'
  <1> DEFINE n == Len(passes[t])
             p == passes[t]
             q == Append(passes[t], now)
             r == Refilled(t)
  <1>1. /\ p \in Seq(1 .. MaxTime) /\ n \in Nat /\ DOMAIN p = 1 .. n
        /\ now \in 1 .. MaxTime /\ now \in Nat /\ now # 0
    BY Constants DEF IInv, TypeOK
  <1>2. /\ q \in Seq(1 .. MaxTime) /\ Len(q) = n + 1 /\ DOMAIN q = 1 .. (n + 1)
        /\ q[n + 1] = now /\ \A i \in 1 .. n : q[i] = p[i]
    BY <1>1, AppendProperties
  <1>3. /\ states[t].tokens \in Nat /\ states[t].last \in Nat /\ states[t].last <= now
    BY Constants DEF IInv, TypeOK, Clock
  <1>4. /\ r \in Nat /\ r >= Refill /\ r <= Burst * Refill
        /\ states[t].last = 0 => r = Burst * Refill
        /\ states[t].last # 0 =>
               /\ r <= states[t].tokens + (now - states[t].last)
               /\ \/ r = states[t].tokens + (now - states[t].last)
                  \/ r = Burst * Refill
    BY RefilledFacts, Constants
  <1> HIDE DEF r, q
  <1>5. /\ states'[t].tokens = r - Refill /\ states'[t].last = now
        /\ passes'[t] = q
        /\ \A u \in Trader \ {t} : states'[u] = states[u] /\ passes'[u] = passes[u]
    BY DEF IInv, TypeOK, r, q
  <1>6. \A i \in 1 .. n : p[i] \in Nat /\ p[i] <= states[t].last /\ states[t].last # 0
    <2> SUFFICES ASSUME NEW i \in 1 .. n
                 PROVE  p[i] \in Nat /\ p[i] <= states[t].last /\ states[t].last # 0
      OBVIOUS
    <2>1. p[i] \in 1 .. MaxTime
      BY <1>1, ElementOfSeq
    <2>2. p[i] <= states[t].last
      BY <1>1 DEF IInv, Clock
    <2> QED BY <2>1, <2>2, <1>3, Constants
  <1>7. TypeOK'
    <2>1. states' \in [Trader -> [tokens : 0 .. (Burst * Refill), last : 0 .. MaxTime]]
      <3>1. [tokens |-> r - Refill, last |-> now]
                \in [tokens : 0 .. (Burst * Refill), last : 0 .. MaxTime]
        BY <1>1, <1>4, Constants
      <3> QED BY <3>1 DEF IInv, TypeOK, r
    <2>2. passes' \in [Trader -> Seq(1 .. MaxTime)]
      BY <1>2 DEF IInv, TypeOK, q
    <2> QED BY <2>1, <2>2 DEF IInv, TypeOK
  <1>8. Clock'
    <2>1. \A i \in 1 .. (n + 1) : q[i] <= now
      BY <1>1, <1>2, <1>3, <1>6, SMTT(20)
    <2> QED BY <2>1, <1>1, <1>2, <1>5 DEF IInv, Clock
  (* The account of t after the pass, for every pass of t.                 *)
  <1>9. ASSUME NEW i \in 1 .. n
        PROVE  /\ Cost(t, i)' = Cost(t, i) + Refill /\ Cost(t, i) \in Int
               /\ Income(t, i)' = Income(t, i) + (now - states[t].last)
               /\ Income(t, i) \in Int
    <2>1. Cost(t, i) \in Int
      <3>1. n - i + 1 \in Int
        BY <1>1
      <3> QED BY <3>1, OneMore DEF Cost
    <2>2. Cost(t, i)' = ((n + 1) - i + 1) * Refill
      BY <1>2, <1>5 DEF Cost
    <2>3. Cost(t, i) = (n - i + 1) * Refill
      BY DEF Cost
    <2>4. (n + 1) - i + 1 = (n - i + 1) + 1 /\ n - i + 1 \in Int
      BY <1>1
    <2>5. Income(t, i)' = Burst * Refill + (now - p[i])
      BY <1>2, <1>5 DEF Income
    <2>6. Income(t, i) = Burst * Refill + (states[t].last - p[i])
      BY DEF Income
    <2>7. p[i] \in Nat
      BY <1>6
    <2>8. ((n - i + 1) + 1) * Refill = (n - i + 1) * Refill + Refill
      BY <2>4, OneMore
    <2>9. Cost(t, i)' = Cost(t, i) + Refill
      BY <2>2, <2>3, <2>4, <2>8
    <2>10. /\ Income(t, i)' = Income(t, i) + (now - states[t].last)
           /\ Income(t, i) \in Int
      <3> DEFINE b == Burst * Refill
      <3>1. b \in Nat
        BY Constants
      <3> HIDE DEF b
      <3> QED BY <3>1, <2>5, <2>6, <2>7, <1>1, <1>3, SMTT(20) DEF b
    <2> QED BY <2>1, <2>9, <2>10
  <1>10. PICK k \in Nat : k = n + 1
    BY <1>1
  <1>10a. /\ Cost(t, k)' = Refill
          /\ Income(t, k)' = Burst * Refill
    <2>1. k - k + 1 = 1 /\ now - now = 0
      BY <1>1
    <2>2. Cost(t, k)' = (k - k + 1) * Refill
      BY <1>2, <1>5, <1>10 DEF Cost
    <2>3. Income(t, k)' = Burst * Refill + (now - now)
      BY <1>2, <1>5, <1>10 DEF Income
    <2> QED BY <2>1, <2>2, <2>3, Constants
  <1>11. \A i \in 1 .. (n + 1) : Cost(t, i)' + (r - Refill) <= Income(t, i)'
    <2> SUFFICES ASSUME NEW i \in 1 .. (n + 1)
                 PROVE  Cost(t, i)' + (r - Refill) <= Income(t, i)'
      OBVIOUS
    <2>1. CASE i \in 1 .. n
      <3>1. Cost(t, i) + states[t].tokens <= Income(t, i)
        BY <2>1, <1>1 DEF IInv, Budget
      <3>2. r <= states[t].tokens + (now - states[t].last)
        BY <2>1, <1>4, <1>6
      <3>3. /\ Cost(t, i)' = Cost(t, i) + Refill /\ Cost(t, i) \in Int
            /\ Income(t, i)' = Income(t, i) + (now - states[t].last)
            /\ Income(t, i) \in Int
        BY <2>1, <1>9
      <3>4. now - states[t].last \in Int
        BY <1>1, <1>3
      <3>5. (Cost(t, i) + Refill) + (r - Refill) <= Income(t, i) + (now - states[t].last)
        BY <3>1, <3>2, <3>3, <3>4, <1>3, <1>4, Balance
      <3> QED BY <3>3, <3>5
    <2>2. CASE i = k
      <3>1. Refill + (r - Refill) <= Burst * Refill
        BY <1>4, Constants
      <3> QED BY <2>2, <3>1, <1>10a
    <2> QED BY <2>1, <2>2, <1>1, <1>10
  <1>12. Budget'
    <2>1. \A u \in Trader \ {t} : \A i \in DOMAIN passes[u] :
              Cost(u, i)' = Cost(u, i) /\ Income(u, i)' = Income(u, i)
      BY <1>5 DEF Cost, Income
    <2>2. \A u \in Trader \ {t} : \A i \in DOMAIN passes'[u] :
              Cost(u, i)' + states'[u].tokens <= Income(u, i)'
      BY <2>1, <1>5 DEF IInv, Budget
    <2>3. \A i \in DOMAIN passes'[t] : Cost(t, i)' + states'[t].tokens <= Income(t, i)'
      BY <1>2, <1>5, <1>11
    <2> QED BY <2>2, <2>3 DEF Budget
  <1>13. Tight'
    <2>1. ASSUME Burst # 0
          PROVE  \E i \in 1 .. (n + 1) : Cost(t, i)' + (r - Refill) = Income(t, i)'
      <3>1. CASE r = Burst * Refill
        <4>1. Refill + (r - Refill) = Burst * Refill
          BY <3>1, <1>4, Constants
        <4>2. Cost(t, k)' + (r - Refill) = Income(t, k)'
          BY <4>1, <1>10a
        <4> QED BY <4>2, <1>1, <1>10
      <3>2. CASE r # Burst * Refill
        <4>1. states[t].last # 0 /\ r = states[t].tokens + (now - states[t].last)
          BY <3>2, <1>4
        <4>2. PICK i \in 1 .. n : Cost(t, i) + states[t].tokens = Income(t, i)
          BY <2>1, <4>1, <1>1 DEF IInv, Tight
        <4>3. /\ Cost(t, i)' = Cost(t, i) + Refill /\ Cost(t, i) \in Int
              /\ Income(t, i)' = Income(t, i) + (now - states[t].last)
              /\ Income(t, i) \in Int
          BY <1>9
        <4>4. Cost(t, i)' + (r - Refill) = Income(t, i)'
          <5>1. now - states[t].last \in Int
            BY <1>1, <1>3
          <5>2. (Cost(t, i) + Refill) + (r - Refill) = Income(t, i) + (now - states[t].last)
            <6> DEFINE c == Cost(t, i)
                       d == Income(t, i)
                       b == states[t].tokens
                       e == now - states[t].last
            <6>1. c \in Int /\ d \in Int /\ b \in Nat /\ e \in Int /\ c + b = d /\ r = b + e
              BY <4>1, <4>2, <4>3, <5>1, <1>3
            <6> HIDE DEF c, d, b, e
            <6>2. (c + Refill) + (r - Refill) = d + e
              BY <6>1, Constants
            <6> QED BY <6>2 DEF c, d, e
          <5> QED BY <4>3, <5>2
        <4> QED BY <4>4, <1>1
      <3> QED BY <3>1, <3>2
    <2>2. \A u \in Trader \ {t} : \A i \in DOMAIN passes[u] :
              Cost(u, i)' = Cost(u, i) /\ Income(u, i)' = Income(u, i)
      BY <1>5 DEF Cost, Income
    <2>3. ASSUME NEW u \in Trader \ {t}, Burst # 0, states'[u].last # 0
          PROVE  \E i \in DOMAIN passes'[u] : Cost(u, i)' + states'[u].tokens = Income(u, i)'
      <3>1. PICK i \in DOMAIN passes[u] : Cost(u, i) + states[u].tokens = Income(u, i)
        BY <2>3, <1>5 DEF IInv, Tight
      <3> QED BY <3>1, <2>2, <1>5
    <2>4. Burst # 0 => \E i \in DOMAIN passes'[t] :
                           Cost(t, i)' + states'[t].tokens = Income(t, i)'
      BY <2>1, <1>2, <1>5
    <2> QED BY <2>3, <2>4 DEF Tight
  <1>14. RateBounded'
    <2> SUFFICES ASSUME NEW u \in Trader, NEW i \in DOMAIN passes'[u],
                        NEW j \in DOMAIN passes'[u], i <= j
                 PROVE  ~ Exceeds(j - i + 1, passes'[u][i], passes'[u][j])
      BY DEF RateBounded, Exceeds
    <2>1. CASE u # t
      BY <2>1, <1>5 DEF IInv, RateBounded
    <2>2. CASE u = t /\ j # n + 1
      <3>1. i \in 1 .. n /\ j \in 1 .. n
        BY <2>2, <1>1, <1>2, <1>5
      <3>2. ~ Exceeds(j - i + 1, p[i], p[j])
        BY <3>1, <2>2, <1>1 DEF IInv, RateBounded
      <3> QED BY <3>1, <3>2, <2>2, <1>2, <1>5
    <2>3. CASE u = t /\ j = n + 1
      <3>1. i \in 1 .. (n + 1) /\ q[i] \in Nat /\ q[j] = now
        BY <2>3, <1>1, <1>2, <1>5, <1>6
      <3>2. Cost(t, i)' + (r - Refill) <= Income(t, i)'
        BY <3>1, <1>11
      <3>3. Cost(t, i)' = (j - i + 1) * Refill
        BY <2>3, <1>2, <1>5 DEF Cost
      <3>4. Income(t, i)' = Burst * Refill + (now - q[i])
        BY <1>5 DEF Income
      <3>5. j - i + 1 \in Int
        BY <2>3, <3>1, <1>1
      <3>6. /\ (j - i + 1) * Refill \in Int
            /\ ((j - i + 1) - Burst) * Refill = (j - i + 1) * Refill - Burst * Refill
        BY <3>5, OneMore
      <3> DEFINE c == (j - i + 1) * Refill
                 b == Burst * Refill
      <3>7. c - b <= now - q[i]
        <4>1. c \in Int /\ b \in Nat
          BY <3>6, Constants
        <4>2. c + (r - Refill) <= b + (now - q[i])
          BY <3>2, <3>3, <3>4
        <4> HIDE DEF c, b
        <4> QED BY <4>1, <4>2, <3>1, <1>1, <1>4, Constants
      <3>8. ~ (((j - i + 1) - Burst) * Refill > now - q[i])
        <4>1. c \in Int /\ b \in Nat
          BY <3>6, Constants
        <4>2. ((j - i + 1) - Burst) * Refill = c - b
          BY <3>6
        <4> HIDE DEF c, b
        <4> QED BY <4>1, <4>2, <3>1, <3>7, <1>1
      <3> QED BY <2>3, <3>1, <3>8, <1>5 DEF Exceeds
    <2> QED BY <2>1, <2>2, <2>3
  <1> QED BY <1>7, <1>8, <1>12, <1>13, <1>14 DEF IInv

(* The rate limiter refuses an order: the refill is booked, nothing spent. *)
LEMMA RefuseIInv ==
    ASSUME IInv, NEW t \in Trader, Refilled(t) < Refill,
           states' = [states EXCEPT ![t] = [tokens |-> Refilled(t), last |-> now]],
           UNCHANGED << checks, now, passes >>
    PROVE  IInv'
  <1> DEFINE p == passes[t]
             n == Len(passes[t])
             r == Refilled(t)
  <1>1. /\ p \in Seq(1 .. MaxTime) /\ n \in Nat /\ DOMAIN p = 1 .. n
        /\ now \in 1 .. MaxTime /\ now \in Nat /\ now # 0
    BY Constants DEF IInv, TypeOK
  <1>2. states[t].tokens \in Nat /\ states[t].last \in Nat /\ states[t].last <= now
    BY Constants DEF IInv, TypeOK, Clock
  <1>3. /\ r \in Nat /\ r <= Burst * Refill /\ r < Refill
        /\ states[t].last = 0 => r = Burst * Refill
        /\ states[t].last # 0 =>
               /\ r <= states[t].tokens + (now - states[t].last)
               /\ \/ r = states[t].tokens + (now - states[t].last)
                  \/ r = Burst * Refill
    BY RefilledFacts
  <1> HIDE DEF r
  <1>4. /\ states'[t].tokens = r /\ states'[t].last = now
        /\ \A u \in Trader \ {t} : states'[u] = states[u]
        /\ passes' = passes
    BY DEF IInv, TypeOK, r
  <1>5. ASSUME NEW i \in 1 .. n
        PROVE  p[i] \in Nat /\ p[i] <= states[t].last /\ states[t].last # 0
    <2>1. p[i] \in 1 .. MaxTime
      BY <1>1, ElementOfSeq
    <2>2. p[i] <= states[t].last
      BY <1>1 DEF IInv, Clock
    <2> QED BY <2>1, <2>2, <1>2, Constants
  <1>6. TypeOK'
    <2>1. [tokens |-> r, last |-> now] \in [tokens : 0 .. (Burst * Refill), last : 0 .. MaxTime]
      BY <1>1, <1>3, Constants
    <2> QED BY <2>1 DEF IInv, TypeOK, r
  <1>7. Clock'
    <2>1. \A i \in 1 .. n : p[i] <= now
      BY <1>1, <1>2, <1>5
    <2> QED BY <2>1, <1>1, <1>4 DEF IInv, Clock
  <1>8. ASSUME NEW i \in 1 .. n
        PROVE  /\ Cost(t, i)' = Cost(t, i) /\ Cost(t, i) \in Int
               /\ Income(t, i)' = Income(t, i) + (now - states[t].last)
               /\ Income(t, i) \in Int
    <2>1. n - i + 1 \in Int
      BY <1>1
    <2>2. Cost(t, i) \in Int /\ Cost(t, i)' = Cost(t, i)
      BY <2>1, <1>4, OneMore DEF Cost
    <2> DEFINE b == Burst * Refill
    <2>3. Income(t, i)' = b + (now - p[i]) /\ Income(t, i) = b + (states[t].last - p[i])
      BY <1>4 DEF Income
    <2>4. b \in Nat /\ p[i] \in Nat
      BY Constants, <1>5
    <2> HIDE DEF b
    <2> QED BY <2>2, <2>3, <2>4, <1>1, <1>2
  <1>9. now - states[t].last \in Int
    BY <1>1, <1>2
  <1>10. Budget'
    <2>1. \A u \in Trader \ {t} : \A i \in DOMAIN passes[u] :
              Cost(u, i)' = Cost(u, i) /\ Income(u, i)' = Income(u, i)
      BY <1>4 DEF Cost, Income
    <2>2. \A u \in Trader \ {t} : \A i \in DOMAIN passes'[u] :
              Cost(u, i)' + states'[u].tokens <= Income(u, i)'
      BY <2>1, <1>4 DEF IInv, Budget
    <2>3. ASSUME NEW i \in 1 .. n
          PROVE  Cost(t, i)' + r <= Income(t, i)'
      <3>1. Cost(t, i) + states[t].tokens <= Income(t, i)
        BY <1>1 DEF IInv, Budget
      <3>2. r <= states[t].tokens + (now - states[t].last)
        BY <1>3, <1>5
      <3>3. Cost(t, i) + r <= Income(t, i) + (now - states[t].last)
        BY <3>1, <3>2, <1>2, <1>3, <1>8, <1>9, Balance
      <3> QED BY <3>3, <1>8
    <2> QED BY <2>2, <2>3, <1>1, <1>4 DEF Budget
  <1>11. Tight'
    <2>1. ASSUME Burst # 0
          PROVE  \E i \in 1 .. n : Cost(t, i)' + r = Income(t, i)'
      <3>1. r # Burst * Refill
        BY <2>1, <1>3, Constants
      <3>2. states[t].last # 0 /\ r = states[t].tokens + (now - states[t].last)
        BY <3>1, <1>3
      <3>3. PICK i \in 1 .. n : Cost(t, i) + states[t].tokens = Income(t, i)
        BY <2>1, <3>2, <1>1 DEF IInv, Tight
      <3>4. /\ Cost(t, i)' = Cost(t, i) /\ Cost(t, i) \in Int
            /\ Income(t, i)' = Income(t, i) + (now - states[t].last)
            /\ Income(t, i) \in Int
        BY <1>8
      <3> DEFINE c == Cost(t, i)
                 d == Income(t, i)
                 b == states[t].tokens
                 e == now - states[t].last
      <3>5. c \in Int /\ d \in Int /\ b \in Nat /\ e \in Int /\ c + b = d /\ r = b + e
        BY <3>2, <3>3, <3>4, <1>2, <1>9
      <3> HIDE DEF c, d, b, e
      <3>6. c + r = d + e
        BY <3>5
      <3>7. Cost(t, i)' + r = Income(t, i)'
        BY <3>4, <3>6 DEF c, d, e
      <3> QED BY <3>7
    <2>2. \A u \in Trader \ {t} : \A i \in DOMAIN passes[u] :
              Cost(u, i)' = Cost(u, i) /\ Income(u, i)' = Income(u, i)
      BY <1>4 DEF Cost, Income
    <2>3. ASSUME NEW u \in Trader \ {t}, Burst # 0, states'[u].last # 0
          PROVE  \E i \in DOMAIN passes'[u] : Cost(u, i)' + states'[u].tokens = Income(u, i)'
      <3>1. PICK i \in DOMAIN passes[u] : Cost(u, i) + states[u].tokens = Income(u, i)
        BY <2>3, <1>4 DEF IInv, Tight
      <3> QED BY <3>1, <2>2, <1>4
    <2>4. Burst # 0 => \E i \in DOMAIN passes'[t] :
                           Cost(t, i)' + states'[t].tokens = Income(t, i)'
      BY <2>1, <1>1, <1>4
    <2> QED BY <2>3, <2>4 DEF Tight
  <1>12. RateBounded'
    BY <1>4 DEF IInv, RateBounded
  <1> QED BY <1>6, <1>7, <1>10, <1>11, <1>12 DEF IInv

LEMMA EvaluateIInv ==
    ASSUME IInv, NEW o \in Order, Evaluate(o)
    PROVE  IInv'
  <1> DEFINE t == o.trader
             limited == \E i \in DOMAIN checks : checks[i] = "RateLimit" /\ Reached(i, o)
  <1>1. t \in Trader
    BY DEF Order
  <1>2. Verdict("RateLimit", o) = IF Refilled(t) < Refill THEN "RateLimited" ELSE "None"
    BY DEF Verdict
  <1>3. /\ states' = IF limited
                     THEN [states EXCEPT ![t] = [tokens |-> Spend(t), last |-> now]]
                     ELSE states
        /\ passes' = IF limited /\ Verdict("RateLimit", o) = "None"
                     THEN [passes EXCEPT ![t] = Append(passes[t], now)] ELSE passes
        /\ UNCHANGED << checks, now >>
    BY DEF Evaluate
  <1> HIDE DEF limited, t
  <1>4. CASE ~ limited
    BY <1>3, <1>4 DEF IInv, TypeOK, Clock, Budget, Tight, Cost, Income, RateBounded
  <1>5. CASE limited /\ Refilled(t) < Refill
    BY <1>1, <1>2, <1>3, <1>5, RefuseIInv DEF Spend
  <1>6. CASE limited /\ ~ (Refilled(t) < Refill)
    BY <1>1, <1>2, <1>3, <1>6, PassIInv DEF Spend
  <1> QED BY <1>4, <1>5, <1>6

LEMMA NextIInv == IInv /\ [Next]_vars => IInv'
  <1> SUFFICES ASSUME IInv, [Next]_vars PROVE IInv'
    OBVIOUS
  <1>1. CASE \E k \in Kind : AddCheck(k)
    BY <1>1, AddCheckIInv
  <1>2. CASE ClearChecks
    BY <1>2, ClearChecksIInv
  <1>3. CASE \E o \in Order : Evaluate(o)
    BY <1>3, EvaluateIInv
  <1>4. CASE Tick
    BY <1>4, TickIInv
  <1>5. CASE UNCHANGED vars
    BY <1>5 DEF vars, IInv, TypeOK, Clock, Budget, Tight, Cost, Income, RateBounded
  <1> QED BY <1>1, <1>2, <1>3, <1>4, <1>5 DEF Next

-----------------------------------------------------------------------------
THEOREM Invariant == Spec => []IInv
  BY InitIInv, NextIInv, PTL DEF Spec

(* RateLimitCheck lets no trader exceed its limit in any window of time.   *)
THEOREM RateLimit == Spec => []RateBounded
  <1>1. IInv => RateBounded
    BY DEF IInv
  <1> QED BY <1>1, Invariant, PTL

(* The first rejecting check decides.                                      *)
LEMMA FirstRejection ==
    ASSUME TypeOK, NEW o \in Order
    PROVE  /\ Decide(o) = "None" => Rejecting(o) = {}
           /\ Decide(o) = "RateLimited" => Refilled(o.trader) < Refill
  <1> DEFINE m == Min(Rejecting(o))
  <1>1. Rejecting(o) \subseteq Nat /\ Rejecting(o) \subseteq DOMAIN checks
    BY DEF Rejecting, TypeOK
  <1>2. ASSUME Rejecting(o) # {}
        PROVE  /\ m \in DOMAIN checks /\ Verdict(checks[m], o) # "None"
               /\ Decide(o) = Verdict(checks[m], o)
    <2>1. m \in Rejecting(o)
      BY <1>1, <1>2, MinExists
    <2> QED BY <2>1, <1>2 DEF Rejecting, Decide
  <1>3. ASSUME NEW k \in Kind, Verdict(k, o) = "RateLimited"
        PROVE  Refilled(o.trader) < Refill
    BY <1>3 DEF Verdict, Kind
  <1>4. \A i \in DOMAIN checks : checks[i] \in Kind
    BY DEF TypeOK
  <1> HIDE DEF m
  <1>5. Decide(o) = "None" => Rejecting(o) = {}
    BY <1>2
  <1>6. Decide(o) = "RateLimited" => Refilled(o.trader) < Refill
    <2>1. Rejecting(o) = {} => Decide(o) = "None"
      BY DEF Decide
    <2> QED BY <2>1, <1>2, <1>3, <1>4
  <1> QED BY <1>5, <1>6

(* evaluate accepts only what is within every configured limit, and the    *)
(* limiter turns nothing away that its limit would have admitted.          *)
THEOREM Justified == Spec => []DecisionsJustified
  <1>1. IInv => DecisionsJustified
    <2> SUFFICES ASSUME IInv, NEW o \in Order
                 PROVE  /\ Decide(o) = "None" => \A i \in DOMAIN checks : Within(checks[i], o)
                        /\ Decide(o) = "RateLimited" =>
                               \/ Burst = 0
                               \/ \E i \in DOMAIN passes[o.trader] :
                                      Exceeds(Len(passes[o.trader]) - i + 2,
                                              passes[o.trader][i], now)
      BY DEF DecisionsJustified, IInv
    <2>0. TypeOK
      BY DEF IInv
    <2>1. ASSUME NEW k \in Kind, Verdict(k, o) = "None"
          PROVE  Within(k, o)
      <3>1. o.price \in Int /\ o.quantity \in Int /\ o.price >= -1
        BY RiskAssumption DEF Order, NoPrice
      <3>2. o.price * o.quantity = o.quantity * o.price
        BY <3>1
      <3>3. CASE k = "MaxOrderQuantity"
        BY <2>1, <3>1, <3>3, RiskAssumption DEF Verdict, Within, ValidQuantity
      <3>4. CASE k = "MaxNotional"
        <4>1. ValidPrice(o) /\ ~ (Notional(o) > NotionalLimit)
          BY <2>1, <3>4 DEF Verdict
        <4>2. o.price * o.quantity \in Int /\ NotionalLimit \in Int
          BY <3>1, RiskAssumption
        <4>3. o.quantity * o.price <= NotionalLimit
          BY <4>1, <4>2, <3>2 DEF Notional
        <4>4. o.price >= 0
          BY <4>1, RiskAssumption DEF ValidPrice
        <4> QED BY <3>4, <4>3, <4>4 DEF Within
      <3>5. CASE k = "PriceCollar"
        BY <2>1, <3>1, <3>5, RiskAssumption DEF Verdict, Within, ValidPrice, Order, NoPrice
      <3>6. CASE k = "RateLimit"
        BY <3>6 DEF Within
      <3> QED BY <3>3, <3>4, <3>5, <3>6 DEF Kind
    <2>2. Decide(o) = "None" => \A i \in DOMAIN checks : Within(checks[i], o)
      <3>1. \A i \in DOMAIN checks : checks[i] \in Kind
        BY <2>0 DEF TypeOK
      <3> QED BY <2>0, <2>1, <3>1, FirstRejection DEF Rejecting
    <2>3. ASSUME Decide(o) = "RateLimited", Burst # 0
          PROVE  \E i \in DOMAIN passes[o.trader] :
                     Exceeds(Len(passes[o.trader]) - i + 2, passes[o.trader][i], now)
      <3> DEFINE t == o.trader
                 n == Len(passes[t])
      <3>1. t \in Trader /\ Refilled(t) < Refill
        BY <2>0, <2>3, FirstRejection DEF Order
      <3>2. /\ states[t].last # 0
            /\ Refilled(t) = states[t].tokens + (now - states[t].last)
        BY <2>3, <3>1, RefilledFacts, Constants
      <3>3. PICK i \in DOMAIN passes[t] : Cost(t, i) + states[t].tokens = Income(t, i)
        BY <2>3, <3>1, <3>2 DEF IInv, Tight
      <3>4. /\ n \in Nat /\ i \in 1 .. n /\ now \in Nat
            /\ states[t].tokens \in Nat /\ states[t].last \in Nat
        BY <3>1, Constants, SMTT(20) DEF IInv, TypeOK
      <3>5. passes[t][i] \in Nat
        <4>1. passes[t] \in Seq(1 .. MaxTime)
          BY <3>1 DEF IInv, TypeOK
        <4>2. passes[t][i] \in 1 .. MaxTime
          BY <4>1, <3>4, ElementOfSeq
        <4> QED BY <4>2, Constants
      <3>6. PICK k \in Int : k = n - i + 1 /\ k + 1 = n - i + 2
        <4> HIDE DEF n
        <4> QED BY <3>4
      <3> DEFINE c == k * Refill
                 b == Burst * Refill
                 p == passes[t][i]
                 x == states[t].tokens
                 l == states[t].last
      <3>7. ((n - i + 2) - Burst) * Refill = (c + Refill) - b
        <4>1. k + 1 \in Int /\ (k + 1) * Refill = c + Refill
          BY OneMore
        <4>2. ((k + 1) - Burst) * Refill = (k + 1) * Refill - b
          BY <4>1, OneMore
        <4>3. ((k + 1) - Burst) * Refill = (c + Refill) - b
          BY <4>1, <4>2
        <4> HIDE DEF c, b, n
        <4> QED BY <4>3, <3>6
      <3>8. c \in Int /\ b \in Nat
        BY OneMore, Constants
      <3>9. c + x = b + (l - p)
        BY <3>3, <3>6 DEF Cost, Income
      <3>10. x + (now - l) < Refill
        BY <3>1, <3>2
      <3>11. x \in Nat /\ l \in Nat /\ p \in Nat
        BY <3>4, <3>5
      <3>12. (c + Refill) - b > now - p
        <4> HIDE DEF c, b, p, x, l
        <4> QED BY <3>4, <3>8, <3>9, <3>10, <3>11, Constants
      <3>13. Exceeds(n - i + 2, p, now)
        BY <3>7, <3>12 DEF Exceeds
      <3> QED BY <3>13
    <2> QED BY <2>2, <2>3
  <1> QED BY <1>1, Invariant, PTL
=============================================================================

------------------------------ MODULE RiskGate ------------------------------
(***************************************************************************)
(* The pre-trade risk gate (risk.hpp, risk.cpp): a list of checks that is  *)
(* built at startup, evaluated in order for every submission, the first    *)
(* rejection deciding.  Three checks only compare the order with their     *)
(* limits; the rate limiter keeps a token bucket per trader.               *)
(*                                                                         *)
(* Of an evaluation only the rate limiter touches shared state, once and   *)
(* under its mutex, so concurrent evaluations behave as if each of them    *)
(* were one step.  Tokens are a floating-point number in the code; here    *)
(* they are counted in units of 1 / Refill of a token, which makes the     *)
(* refill of one nanosecond one unit and the arithmetic exact.             *)
(***************************************************************************)
EXTENDS Integers, Sequences, FiniteSetsExt

CONSTANTS
    Trader,          \* the ids of the traders
    MaxPrice,        \* kMaxPriceTicks
    MaxQuantity,     \* kMaxQuantity
    QuantityLimit,   \* max_ of MaxOrderQuantityCheck
    NotionalLimit,   \* max_ticks_ of MaxNotionalCheck
    Lower, Upper,    \* lower_ and upper_ of PriceCollarCheck
    Burst,           \* burst_ of RateLimitCheck
    Refill,          \* refill_ns_: the time in which one token is refilled
    MaxTime          \* bound: the clock stops there

ASSUME RiskAssumption ==
    /\ MaxPrice \in Nat
    /\ MaxQuantity \in Nat \ {0}
    /\ QuantityLimit \in Int
    /\ NotionalLimit \in Int
    /\ Lower \in Int
    /\ Upper \in Int
    /\ Burst \in Nat
    /\ Refill \in Nat \ {0}
    /\ MaxTime \in Nat \ {0}

VARIABLES
    checks,     \* checks_: the kinds of the configured checks, in order
    states,     \* states_ of the rate limiter: [tokens, last] per trader
    now,        \* the steady clock, in nanoseconds
    passes      \* history: per trader, when the rate limiter let an order by

vars == << checks, states, now, passes >>

-----------------------------------------------------------------------------

Kind == {"MaxOrderQuantity", "MaxNotional", "PriceCollar", "RateLimit"}

(* A price that fails is_valid().                                          *)
NoPrice == -1

(* What the checks read of an order.                                       *)
Order == [trader   : Trader,
          price    : (0 .. MaxPrice) \cup {NoPrice},
          quantity : 0 .. (MaxQuantity + 1)]

ValidPrice(o) == o.price \in 0 .. MaxPrice

ValidQuantity(o) == o.quantity \in 1 .. MaxQuantity

(* A trader that the limiter has not seen: last_ns is 0.                   *)
Unseen == [tokens |-> 0, last |-> 0]

(* Mutant: the bucket is not capped at its size.                           *)
RefilledUncapped(t) ==
    LET s == states[t]
    IN  IF s.last = 0 THEN Burst * Refill ELSE s.tokens + (now - s.last)

(* Mutant: only whole tokens are refilled.                                 *)
RefilledWhole(t) ==
    LET s == states[t]
    IN  IF s.last = 0
        THEN Burst * Refill
        ELSE Min({s.tokens + Refill * ((now - s.last) \div Refill), Burst * Refill})

(* The tokens of a trader after the refill since its last order.           *)
Refilled(t) ==
    LET s == states[t]
    IN  IF s.last = 0
        THEN Burst * Refill
        ELSE Min({s.tokens + (now - s.last), Burst * Refill})

(* The product is computed in 128 bits and cannot overflow.                *)
Notional(o) == o.price * o.quantity

(* What one check says of an order.                                        *)
Verdict(k, o) ==
    CASE k = "MaxOrderQuantity" ->
             IF ~ ValidQuantity(o) THEN "InvalidInput"
             ELSE IF o.quantity > QuantityLimit THEN "MaxQuantity"
             ELSE "None"
      [] k = "MaxNotional" ->
             IF ~ ValidQuantity(o) \/ ~ ValidPrice(o) THEN "InvalidInput"
             ELSE IF Notional(o) > NotionalLimit THEN "MaxNotional"
             ELSE "None"
      [] k = "PriceCollar" ->
             IF /\ ValidPrice(o)
                /\ \/ Lower > 0 /\ o.price < Lower
                   \/ Upper > 0 /\ o.price > Upper
             THEN "PriceOutOfCollar"
             ELSE "None"
      [] k = "RateLimit" ->
             IF Refilled(o.trader) < Refill THEN "RateLimited" ELSE "None"

-----------------------------------------------------------------------------

Init ==
    /\ checks = << >>
    /\ states = [t \in Trader |-> Unseen]
    /\ now = 1
    /\ passes = [t \in Trader |-> << >>]

(* The gate is configured before it is used; one check of each kind.       *)
AddCheck(k) ==
    /\ \A t \in Trader : states[t] = Unseen
    /\ \A i \in DOMAIN checks : checks[i] # k
    /\ checks' = Append(checks, k)
    /\ UNCHANGED << states, now, passes >>

(* clear_checks destroys the rate limiter with its buckets.                *)
ClearChecks ==
    /\ checks # << >>
    /\ checks' = << >>
    /\ states' = [t \in Trader |-> Unseen]
    /\ passes' = [t \in Trader |-> << >>]
    /\ UNCHANGED now

Rejecting(o) == {i \in DOMAIN checks : Verdict(checks[i], o) # "None"}

Reached(i, o) == \A j \in Rejecting(o) : i <= j

(* The decision that evaluate returns.                                     *)
Decide(o) ==
    IF Rejecting(o) = {} THEN "None" ELSE Verdict(checks[Min(Rejecting(o))], o)

(* What evaluate of the rate limiter leaves in the bucket.                 *)
Spend(t) == IF Refilled(t) < Refill THEN Refilled(t) ELSE Refilled(t) - Refill

(* The checks run until one rejects.  A token taken by the rate limiter is *)
(* not given back when a later check rejects the order.                    *)
Evaluate(o) ==
    LET t == o.trader
        limited == \E i \in DOMAIN checks : checks[i] = "RateLimit" /\ Reached(i, o)
        passed == limited /\ Verdict("RateLimit", o) = "None"
    IN  /\ states' = IF limited
                     THEN [states EXCEPT ![t] = [tokens |-> Spend(t), last |-> now]]
                     ELSE states
        /\ passes' = IF passed THEN [passes EXCEPT ![t] = Append(@, now)] ELSE passes
        /\ UNCHANGED << checks, now >>

Tick ==
    /\ now < MaxTime
    /\ now' = now + 1
    /\ UNCHANGED << checks, states, passes >>

Next ==
    \/ \E k \in Kind : AddCheck(k)
    \/ ClearChecks
    \/ \E o \in Order : Evaluate(o)
    \/ Tick

Spec == Init /\ [][Next]_vars

-----------------------------------------------------------------------------
(* Properties.                                                             *)

(* Every variable has its type, and a bucket never holds less than nothing *)
(* or more than its size.                                                  *)
TypeOK ==
    /\ checks \in Seq(Kind)
    /\ states \in [Trader -> [tokens : 0 .. (Burst * Refill), last : 0 .. MaxTime]]
    /\ now \in 1 .. MaxTime
    /\ passes \in [Trader -> Seq(1 .. MaxTime)]

(* The passes from the i-th on, k of them, exceed what a window that began *)
(* with the i-th and lasts until the time end admits.                      *)
Exceeds(k, begin, end) == (k - Burst) * Refill > end - begin

(* The rate limit: in every window of time, from one pass of a trader to   *)
(* another, the limiter let at most Burst orders by, plus one for every    *)
(* Refill nanoseconds that passed.                                         *)
RateBounded ==
    \A t \in Trader : \A i, j \in DOMAIN passes[t] :
        i <= j => ~ Exceeds(j - i + 1, passes[t][i], passes[t][j])

(* The order respects the limit of the check.                              *)
Within(k, o) ==
    CASE k = "MaxOrderQuantity" -> o.quantity \in 1 .. QuantityLimit
      [] k = "MaxNotional" -> o.quantity * o.price <= NotionalLimit /\ o.price >= 0
      [] k = "PriceCollar" -> o.price >= 0 => o.price >= Lower /\ (Upper > 0 => o.price <= Upper)
      [] OTHER -> TRUE

(* Both kinds of decision are justified.  An accepted order is within the  *)
(* limits of every configured check, wherever in the list the check        *)
(* stands: its quantity, its notional computed from what it really costs,  *)
(* and its price if it has one.  And the limiter rejects nothing           *)
(* needlessly: to let a RateLimited order by would have exceeded the limit *)
(* of some window.                                                         *)
DecisionsJustified ==
    /\ TypeOK
    /\ \A o \in Order :
           /\ Decide(o) = "None" => \A i \in DOMAIN checks : Within(checks[i], o)
           /\ Decide(o) = "RateLimited" =>
                  \/ Burst = 0
                  \/ \E i \in DOMAIN passes[o.trader] :
                         Exceeds(Len(passes[o.trader]) - i + 2, passes[o.trader][i], now)
=============================================================================

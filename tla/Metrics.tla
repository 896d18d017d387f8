------------------------------ MODULE Metrics -------------------------------
(***************************************************************************)
(* The metrics (metrics.hpp, metrics.cpp): bundles of atomic counters, one *)
(* for all instruments with the same remainder, which the sinks of several *)
(* threads add to while others take snapshots of them and reset them.      *)
(*                                                                         *)
(* Every update is atomic and none is ordered: the updates of one call are *)
(* relaxed, so that other threads may see them in any order.               *)
(***************************************************************************)
EXTENDS Naturals, FiniteSets, SequencesExt

CONSTANTS
    Threads,       \* the threads with a MetricsSink
    Instruments,   \* instrument ids
    Slots,         \* kMaxInstruments: 256 in the code
    Width,         \* of the counters: 64 in the code
    Calls,         \* the calls that are made of a sink
    MaxCalls,      \* bound: the calls made, over all threads
    MaxPasses      \* bound: the resets and snapshots, one after the other

VARIABLES
    bundle,        \* per_instrument_: slot -> field -> value
    pending,       \* for every thread, its call and the updates not yet visible
    pass,          \* the reset or the snapshot being made, or the last one
    begun,         \* how many calls and passes have begun
    made,          \* history: per slot, what the calls since the last reset amount to
    done,          \* history: the same of those that have ended
    torn           \* history: slots reset while a call was being made

vars == << bundle, pending, pass, begun, made, done, torn >>

-----------------------------------------------------------------------------

Modulus == 2 ^ Width

Wrap(x) == x % Modulus

(* The fields of a bundle, in the order reset and snapshot go through.     *)
Fields == << "accepted", "filled", "partial", "cancelled", "rejected",
             "trades", "qty", "notional",
             "cancels_attempted", "cancels_succeeded",
             "modifies_attempted", "modifies_succeeded", "last_sequence" >>

Field == Range(Fields)
Counter == Field \ {"last_sequence"}
Status == {"accepted", "filled", "partial", "cancelled", "rejected"}
Zero == [f \in Field |-> 0]

(* The calls of a sink, with what becomes part of a counter.               *)
Call ==
    [kind : {"trade"}, price : Nat, qty : Nat, sequence : 0 .. Modulus - 1]
    \cup [kind : {"result"}, status : Status, sequence : 0 .. Modulus - 1]
    \cup [kind : {"cancel", "modify"}, ok : BOOLEAN]

ASSUME MetricsAssumption ==
    /\ IsFiniteSet(Threads)
    /\ Instruments \subseteq Nat
    /\ Slots \in Nat \ {0}
    /\ Modulus \in Nat \ {0}
    /\ Calls \subseteq Call

(* for_instrument.                                                         *)
Slot(id) == id % Slots

Slotted == {Slot(id) : id \in Instruments}

Add(f, n) == [field |-> f, add |-> TRUE, n |-> n]
Store(f, n) == [field |-> f, add |-> FALSE, n |-> n]

(* The updates a call of a sink makes: on_trade, on_submit_result,         *)
(* record_cancel_attempt and record_modify_attempt.                        *)
OnTrade(c) ==
    {Add("trades", 1), Add("qty", c.qty), Add("notional", Wrap(c.price * c.qty)), Store("last_sequence", c.sequence)}

OnSubmitResult(c) == {Add(c.status, 1), Store("last_sequence", c.sequence)}

RecordCancel(c) == {Add("cancels_attempted", 1)} \cup IF c.ok THEN {Add("cancels_succeeded", 1)} ELSE {}

RecordModify(c) == {Add("modifies_attempted", 1)} \cup IF c.ok THEN {Add("modifies_succeeded", 1)} ELSE {}

Updates(c) ==
    CASE c.kind = "trade" -> OnTrade(c)
      [] c.kind = "result" -> OnSubmitResult(c)
      [] c.kind = "cancel" -> RecordCancel(c)
      [] c.kind = "modify" -> RecordModify(c)

(* What a counter should show of a call, without a limit to its width.     *)
Amount(f, c) ==
    LET one(P) == IF P THEN 1 ELSE 0
        ofTrade(n) == IF c.kind = "trade" THEN n ELSE 0
    IN  CASE f \in Status -> one(c.kind = "result" /\ c.status = f)
          [] f = "trades" -> ofTrade(1)
          [] f = "qty" -> ofTrade(c.qty)
          [] f = "notional" -> ofTrade(c.price * c.qty)
          [] f = "cancels_attempted" -> one(c.kind = "cancel")
          [] f = "cancels_succeeded" -> one(c.kind = "cancel" /\ c.ok)
          [] f = "modifies_attempted" -> one(c.kind = "modify")
          [] f = "modifies_succeeded" -> one(c.kind = "modify" /\ c.ok)

Nothing == [f \in Counter |-> 0]
Plus(total, c) == [f \in Counter |-> total[f] + Amount(f, c)]

Free == [slot |-> 0, call |-> [kind |-> "none"], updates |-> {}]
NoPass == [kind |-> "none", slot |-> 0, left |-> << >>, got |-> Zero, before |-> Nothing]

Init ==
    /\ bundle = [s \in Slotted |-> Zero]
    /\ pending = [t \in Threads |-> Free]
    /\ pass = NoPass
    /\ begun = [calls |-> 0, passes |-> 0]
    /\ made = [s \in Slotted |-> Nothing]
    /\ done = [s \in Slotted |-> Nothing]
    /\ torn = {}

-----------------------------------------------------------------------------
(* MetricsSink.                                                            *)

InCall(s) == {t \in Threads : pending[t].updates # {} /\ pending[t].slot = s}
Wiping(s) == pass.left # << >> /\ pass.slot = s /\ pass.kind = "reset"

(* A thread calls its sink, for an order or a trade of an instrument.      *)
Begin(t, id, c) ==
    /\ pending[t].updates = {}
    /\ begun.calls < MaxCalls
    /\ begun' = [begun EXCEPT !.calls = @ + 1]
    /\ pending' = [pending EXCEPT ![t] = [slot |-> Slot(id), call |-> c, updates |-> Updates(c)]]
    /\ made' = [made EXCEPT ![Slot(id)] = Plus(@, c)]
    /\ torn' = IF Wiping(Slot(id)) THEN torn \cup {Slot(id)} ELSE torn
    /\ UNCHANGED << bundle, pass, done >>

(* fetch_add and store.                                                    *)
Applied(old, u) == IF u.add THEN Wrap(old + u.n) ELSE u.n

(* What is left of the call.                                               *)
Without(p, u) == IF p.updates = {u} THEN Free ELSE [p EXCEPT !.updates = @ \ {u}]

(* One of the updates of the call becomes visible.                         *)
Update(t, u) ==
    /\ u \in pending[t].updates
    /\ bundle' = [bundle EXCEPT ![pending[t].slot][u.field] = Applied(@, u)]
    /\ pending' = [pending EXCEPT ![t] = Without(@, u)]
    /\ done' = IF pending[t].updates = {u} THEN [done EXCEPT ![pending[t].slot] = Plus(@, pending[t].call)] ELSE done
    /\ UNCHANGED << pass, begun, made, torn >>

-----------------------------------------------------------------------------
(* CounterBundle::reset and snapshot, field by field.                      *)

(* Mutant: a field is forgotten.                                           *)
WipedFieldsButOne == SelectSeq(Fields, LAMBDA f : f # "cancels_succeeded")

WipedFields == Fields

PassBegins ==
    /\ pass.left = << >>
    /\ begun.passes < MaxPasses
    /\ begun' = [begun EXCEPT !.passes = @ + 1]

WipeBegin(s) ==
    /\ PassBegins
    /\ pass' = [NoPass EXCEPT !.kind = "reset", !.slot = s, !.left = WipedFields]
    /\ made' = [made EXCEPT ![s] = Nothing]
    /\ done' = [done EXCEPT ![s] = Nothing]
    /\ torn' = IF InCall(s) = {} THEN torn \ {s} ELSE torn \cup {s}
    /\ UNCHANGED << bundle, pending >>

Wipe ==
    /\ pass.kind = "reset"
    /\ pass.left # << >>
    /\ bundle' = [bundle EXCEPT ![pass.slot][Head(pass.left)] = 0]
    /\ pass' = [pass EXCEPT !.left = Tail(@)]
    /\ UNCHANGED << pending, begun, made, done, torn >>

ReadBegin(s) ==
    /\ PassBegins
    /\ pass' = [NoPass EXCEPT !.kind = "snapshot", !.slot = s, !.left = Fields, !.before = done[s]]
    /\ UNCHANGED << bundle, pending, made, done, torn >>

(* Mutant: a field is copied from its neighbour.                           *)
ReadValueOfNeighbour(f) ==
    bundle[pass.slot][IF f = "modifies_succeeded" THEN "modifies_attempted" ELSE f]

ReadValue(f) == bundle[pass.slot][f]

Read ==
    /\ pass.kind = "snapshot"
    /\ pass.left # << >>
    /\ pass' = [pass EXCEPT !.left = Tail(@), !.got[Head(pass.left)] = ReadValue(Head(pass.left))]
    /\ UNCHANGED << bundle, pending, begun, made, done, torn >>

-----------------------------------------------------------------------------

Next ==
    \/ \E t \in Threads, id \in Instruments, c \in Calls : Begin(t, id, c)
    \/ \E t \in Threads : \E u \in pending[t].updates : Update(t, u)
    \/ \E s \in Slotted : WipeBegin(s) \/ ReadBegin(s)
    \/ Wipe
    \/ Read

Spec == Init /\ [][Next]_vars

-----------------------------------------------------------------------------
(* Properties.                                                             *)

(* Every variable has its type; counters stay within their width.          *)
TypeOK ==
    /\ bundle \in [Slotted -> [Field -> 0 .. Modulus - 1]]
    /\ \A t \in Threads : pending[t].updates # {} => pending[t].slot \in Slotted
    /\ pass.got \in [Field -> 0 .. Modulus - 1]
    /\ torn \subseteq Slotted

(* When no call and no reset of a bundle is under way, its counters show   *)
(* exactly the calls since the last reset, of all instruments of the slot, *)
(* modulo their width: no update of concurrent threads is lost.  Only a    *)
(* reset that met a call leaves them out of step.                          *)
CountsAtRest ==
    /\ TypeOK
    /\ \A s \in Slotted : InCall(s) = {} /\ ~ Wiping(s) /\ s \notin torn =>
           \A f \in Counter : bundle[s][f] = Wrap(made[s][f])

(* A snapshot is of no one moment, but each of its fields shows all calls  *)
(* that had ended when it was begun and none that has not begun by now,    *)
(* unless a reset met a call before or the counter wrapped.                *)
SnapshotBounded ==
    pass.kind = "snapshot" /\ pass.slot \notin torn =>
        \A f \in Counter \ Range(pass.left) :
            \/ made[pass.slot][f] >= Modulus
            \/ /\ pass.before[f] <= pass.got[f]
               /\ pass.got[f] <= made[pass.slot][f]
=============================================================================

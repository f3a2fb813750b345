------------------------------ MODULE Delivery ------------------------------
(***************************************************************************)
(* What a transactional outbox promises its emitters, whatever store backs *)
(* it and however many dispatchers share that store:                       *)
(*                                                                         *)
(*   - an emitted event is kept once per idempotency key;                  *)
(*   - an event is settled as delivered only after the inner bus accepted  *)
(*     it, and as dead only after MaxRetries failed attempts;              *)
(*   - no event is tried without bound: Budget caps the failed attempts;   *)
(*   - a settled event is never pending again.                             *)
(*                                                                         *)
(* Claims, leases, dispatcher goroutines and shutdown do not appear here;  *)
(* Outbox and SqlOutbox are shown to implement this module.                *)
(***************************************************************************)
EXTENDS Naturals

CONSTANTS
  Envelopes,       \* the events that can be emitted
  IdempotencyKey,  \* the key of each event, or NoKey
  NoKey,
  MaxRetries,      \* failed attempts that exhaust an event
  Budget           \* the most failed attempts any event ever makes

VARIABLES
  status,          \* where each event stands
  reached,         \* events the inner bus has accepted
  failures         \* failed attempts recorded per event

vars == <<status, reached, failures>>

Statuses == {"absent", "pending", "delivered", "dead"}

Kept(e) == status[e] # "absent"

SameKeyKept(e) ==
  /\ IdempotencyKey[e] # NoKey
  /\ \E x \in Envelopes : Kept(x) /\ IdempotencyKey[x] = IdempotencyKey[e]

Init ==
  /\ status = [e \in Envelopes |-> "absent"]
  /\ reached = {}
  /\ failures = [e \in Envelopes |-> 0]

(* An emitter's event is stored, unless its key was already used.          *)
Emit(e) ==
  /\ ~Kept(e)
  /\ ~SameKeyKept(e)
  /\ status' = [status EXCEPT ![e] = "pending"]
  /\ UNCHANGED <<reached, failures>>

(* The inner bus accepts the event: possibly again, delivery is            *)
(* at-least-once.                                                          *)
Reach(e) ==
  /\ Kept(e)
  /\ reached' = reached \cup {e}
  /\ UNCHANGED <<status, failures>>

(* A failed attempt is recorded.                                           *)
Fail(e) ==
  /\ Kept(e)
  /\ failures[e] < Budget
  /\ failures' = [failures EXCEPT ![e] = @ + 1]
  /\ UNCHANGED <<status, reached>>

(* The event is settled as delivered, even if it was parked meanwhile.     *)
Deliver(e) ==
  /\ Kept(e)
  /\ e \in reached
  /\ status' = [status EXCEPT ![e] = "delivered"]
  /\ UNCHANGED <<reached, failures>>

(* The event is dead-lettered.                                             *)
Park(e) ==
  /\ Kept(e)
  /\ failures[e] >= MaxRetries
  /\ status' = [status EXCEPT ![e] = "dead"]
  /\ UNCHANGED <<reached, failures>>

Next == \E e \in Envelopes : Emit(e) \/ Reach(e) \/ Fail(e) \/ Deliver(e) \/ Park(e)

Spec == Init /\ [][Next]_vars
=============================================================================

------------------------------- MODULE Outbox -------------------------------
(***************************************************************************)
(* pkg/event/outbox: several Outbox values share one in-memory Store.      *)
(* Emitters call Publish, which writes to the Store; each started Outbox   *)
(* runs one dispatcher goroutine that claims a batch under a lease,        *)
(* forwards each entry to the inner bus and records the outcome; Stop,     *)
(* Close and the cancellation of the context given to Start race with all  *)
(* of it.                                                                  *)
(*                                                                         *)
(* Store: an entry is an envelope of Envelopes (IDs are unique: emitters   *)
(* own that, event.go:37). pos is its place in s.entries (0: not saved),   *)
(* attempts, delivered and dead are the fields of memoryEntry. Time is not *)
(* counted: lease[e] is what remains of claimedUntil, so                   *)
(* claimedUntil.After(now) is lease[e] > 0 and the zero time is 0.         *)
(*                                                                         *)
(* Outbox o: loop[o] is where its dispatcher goroutine stands ("off" until *)
(* Start, so o.started is loop[o] # "off"); batch[o] the claimed entries   *)
(* it has yet to take up, entry[o] the one it is on, seen[o] the Attempts  *)
(* its PendingEntry copies carry (0 where it holds none); stop[o] how far  *)
(* the first Stop call got (o.stopped is stop[o] # "no"); cancelled the    *)
(* outboxes whose lifecycle context is done.                               *)
(*                                                                         *)
(* Operators marked "Mutant" are no part of the specification: each is a   *)
(* plausible mistake in the definition after it, which a property of the   *)
(* runs must catch.                                                        *)
(***************************************************************************)
EXTENDS Naturals, FiniteSets

CONSTANTS
  Outboxes,        \* Outbox values sharing the store
  Envelopes,       \* events emitters may publish
  IdempotencyKey,  \* [Envelopes -> keys], NoKey where the field is empty
  NoKey,
  NoEntry,         \* the dispatcher is on no entry
  MaxRetries,      \* cfg.maxRetries
  BatchSize,       \* cfg.batchSize
  ClaimTTL         \* cfg.claimTTL, in ticks

ASSUME OutboxAssumption ==
  /\ IsFiniteSet(Outboxes) /\ Outboxes # {}
  /\ IsFiniteSet(Envelopes)
  /\ NoEntry \notin Envelopes
  /\ MaxRetries \in Nat \ {0}
  /\ BatchSize \in Nat \ {0}
  /\ ClaimTTL \in Nat \ {0}

VARIABLES
  pos, attempts, lease, delivered, dead,           \* the Store
  loop, batch, entry, seen, stop, cancelled,       \* the Outbox values
  saving,      \* events whose Publish call is past its stopped check
  sends,       \* history: 0, 1, or 2 for "more than one" acceptance by the bus
  blurred      \* history: events whose claim ran out while a dispatcher held
               \* them, or whose delivered mark was refused after acceptance

storeVars == <<pos, attempts, lease, delivered, dead>>
lifeVars  == <<stop, cancelled>>
vars == <<storeVars, loop, batch, entry, seen, lifeVars, saving, sends, blurred>>

LoopStates == {"off", "claim", "check", "park", "publish",
               "confirm", "retry", "wait", "exited"}
StopStates == {"no", "cancel", "wait", "done"}

TypeOK ==
  /\ pos \in [Envelopes -> Nat]
  /\ attempts \in [Envelopes -> Nat]
  /\ lease \in [Envelopes -> 0..ClaimTTL]
  /\ delivered \in SUBSET Envelopes
  /\ dead \in SUBSET Envelopes
  /\ loop \in [Outboxes -> LoopStates]
  /\ batch \in [Outboxes -> SUBSET Envelopes]
  /\ entry \in [Outboxes -> Envelopes \cup {NoEntry}]
  /\ seen \in [Outboxes -> [Envelopes -> Nat]]
  /\ stop \in [Outboxes -> StopStates]
  /\ cancelled \in SUBSET Outboxes
  /\ saving \in SUBSET Envelopes
  /\ sends \in [Envelopes -> 0..2]
  /\ blurred \in SUBSET Envelopes

(* Before any Outbox is started: the store holds events at the positions   *)
(* p, of which earlier Outbox values have delivered d, and those of s have *)
(* been stopped already.                                                   *)
InitOver(p, d, s) ==
  /\ pos = p
  /\ attempts = [e \in Envelopes |-> 0]
  /\ lease = [e \in Envelopes |-> 0]
  /\ delivered = d
  /\ dead = {}
  /\ loop = [o \in Outboxes |-> "off"]
  /\ batch = [o \in Outboxes |-> {}]
  /\ entry = [o \in Outboxes |-> NoEntry]
  /\ seen = [o \in Outboxes |-> [e \in Envelopes |-> 0]]
  /\ stop = [o \in Outboxes |-> IF o \in s THEN "done" ELSE "no"]
  /\ cancelled = {}
  /\ saving = {}
  /\ sends = [e \in Envelopes |-> IF e \in d THEN 1 ELSE 0]
  /\ blurred = {}

Init == InitOver([e \in Envelopes |-> 0], {}, {})

-----------------------------------------------------------------------------
(* The Store.                                                              *)

Saved == {e \in Envelopes : pos[e] > 0}

KeyUsed(e) ==
  /\ IdempotencyKey[e] # NoKey
  /\ \E x \in Saved : IdempotencyKey[x] = IdempotencyKey[e]

(* s.entries is append-only, so the next position is one past the count.   *)
SaveEntry(e) == pos' = [pos EXCEPT ![e] = Cardinality(Saved) + 1]

(* Mutant: ClaimBatch forgets to skip entries with a live claim.           *)
ClaimableUnderLease == Saved \ (delivered \cup dead)

Claimable == {e \in Saved \ (delivered \cup dead) : lease[e] = 0}

(* The first n entries of S in store order.                                *)
FirstN(S, n) == {e \in S : Cardinality({x \in S : pos[x] < pos[e]}) < n}

(* Entries a dispatcher has claimed and not yet marked.                    *)
Held(o) == batch[o] \cup ({entry[o]} \ {NoEntry})

-----------------------------------------------------------------------------
(* Emitters: Publish reads stopped under o.mu, releases it, then saves.    *)

(* An event without a key is emitted once (its ID is unique); one with a   *)
(* key may be published again.                                             *)
MayEmit(e) == IdempotencyKey[e] = NoKey => e \notin Saved

PublishCheck(o, e) ==
  /\ stop[o] = "no"
  /\ MayEmit(e)
  /\ e \notin saving
  /\ saving' = saving \cup {e}
  /\ UNCHANGED <<storeVars, loop, batch, entry, seen, lifeVars, sends, blurred>>

PublishSave(e) ==
  /\ e \in saving
  /\ saving' = saving \ {e}
  /\ IF KeyUsed(e) THEN UNCHANGED pos ELSE SaveEntry(e)
  /\ UNCHANGED <<attempts, lease, delivered, dead,
                 loop, batch, entry, seen, lifeVars, sends, blurred>>

(* The emitter's own context is done when Save looks at it.                *)
PublishAbandon(e) ==
  /\ e \in saving
  /\ saving' = saving \ {e}
  /\ UNCHANGED <<storeVars, loop, batch, entry, seen, lifeVars, sends, blurred>>

-----------------------------------------------------------------------------
(* Lifecycle.                                                              *)

(* Mutant: Start does not look at stopped.                                 *)
StartAfterStop(o) ==
  /\ loop[o] = "off"
  /\ loop' = [loop EXCEPT ![o] = "claim"]
  /\ UNCHANGED <<storeVars, batch, entry, seen, lifeVars, saving, sends, blurred>>

(* The first pass runs at once.                                            *)
Start(o) ==
  /\ loop[o] = "off"
  /\ stop[o] = "no"
  /\ loop' = [loop EXCEPT ![o] = "claim"]
  /\ UNCHANGED <<storeVars, batch, entry, seen, lifeVars, saving, sends, blurred>>

(* The first Stop call; a later one finds stopped set and returns.         *)
StopCall(o) ==
  /\ stop[o] = "no"
  /\ stop' = [stop EXCEPT ![o] = "cancel"]
  /\ UNCHANGED <<storeVars, loop, batch, entry, seen, cancelled,
                 saving, sends, blurred>>

(* Mutant: Stop waits for the goroutine without cancelling its context.    *)
StopWithoutCancel(o) ==
  /\ stop[o] = "cancel"
  /\ stop' = [stop EXCEPT ![o] = IF loop[o] = "off" THEN "done" ELSE "wait"]
  /\ UNCHANGED <<storeVars, loop, batch, entry, seen, cancelled, saving, sends, blurred>>

(* cancel and doneCh are nil when the Outbox was never started.            *)
StopCancel(o) ==
  /\ stop[o] = "cancel"
  /\ IF loop[o] = "off"
     THEN /\ stop' = [stop EXCEPT ![o] = "done"]
          /\ UNCHANGED cancelled
     ELSE /\ stop' = [stop EXCEPT ![o] = "wait"]
          /\ cancelled' = cancelled \cup {o}
  /\ UNCHANGED <<storeVars, loop, batch, entry, seen, saving, sends, blurred>>

StopReturn(o) ==
  /\ stop[o] = "wait"
  /\ loop[o] = "exited"
  /\ stop' = [stop EXCEPT ![o] = "done"]
  /\ UNCHANGED <<storeVars, loop, batch, entry, seen, cancelled,
                 saving, sends, blurred>>

(* The context passed to Start is cancelled by its owner.                  *)
ParentCancel(o) ==
  /\ o \notin cancelled
  /\ cancelled' = cancelled \cup {o}
  /\ UNCHANGED <<storeVars, loop, batch, entry, seen, stop,
                 saving, sends, blurred>>

-----------------------------------------------------------------------------
(* The dispatcher goroutine: dispatchLoop and dispatchOnce.                *)

(* Mutant: a claim outlives its ttl by one tick.                           *)
ClaimTooLong(o) ==
  /\ loop[o] = "claim"
  /\ o \notin cancelled
  /\ LET b == FirstN(Claimable, BatchSize) IN
       /\ batch' = [batch EXCEPT ![o] = b]
       /\ seen' = [seen EXCEPT ![o] = [e \in Envelopes |-> IF e \in b THEN attempts[e] ELSE 0]]
       /\ lease' = [e \in Envelopes |-> IF e \in b THEN ClaimTTL + 1 ELSE lease[e]]
  /\ loop' = [loop EXCEPT ![o] = "check"]
  /\ UNCHANGED <<pos, attempts, delivered, dead, entry, lifeVars, saving, sends, blurred>>

(* A pass begins with the context check and ClaimBatch, which leases what  *)
(* it returns under one lock.                                              *)
Claim(o) ==
  /\ loop[o] = "claim"
  /\ o \notin cancelled
  /\ LET b == FirstN(Claimable, BatchSize) IN
       /\ batch' = [batch EXCEPT ![o] = b]
       /\ seen' = [seen EXCEPT ![o] = [e \in Envelopes |-> IF e \in b THEN attempts[e] ELSE 0]]
       /\ lease' = [e \in Envelopes |-> IF e \in b THEN ClaimTTL ELSE lease[e]]
  /\ loop' = [loop EXCEPT ![o] = "check"]
  /\ UNCHANGED <<pos, attempts, delivered, dead, entry, lifeVars, saving, sends, blurred>>

ClaimCancelled(o) ==
  /\ loop[o] = "claim"
  /\ o \in cancelled
  /\ loop' = [loop EXCEPT ![o] = "wait"]
  /\ UNCHANGED <<storeVars, batch, entry, seen, lifeVars, saving, sends, blurred>>

(* Mutant: an entry is parked one attempt too late.                        *)
TakeEntryOneMore(o) ==
  /\ loop[o] = "check"
  /\ o \notin cancelled
  /\ \E e \in FirstN(batch[o], 1) :
       /\ entry' = [entry EXCEPT ![o] = e]
       /\ batch' = [batch EXCEPT ![o] = @ \ {e}]
       /\ loop' = [loop EXCEPT ![o] = IF seen[o][e] > MaxRetries THEN "park"
                                      ELSE "publish"]
  /\ UNCHANGED <<storeVars, seen, lifeVars, saving, sends, blurred>>

(* The next entry of the batch, if the context still stands.               *)
TakeEntry(o) ==
  /\ loop[o] = "check"
  /\ o \notin cancelled
  /\ \E e \in FirstN(batch[o], 1) :
       /\ entry' = [entry EXCEPT ![o] = e]
       /\ batch' = [batch EXCEPT ![o] = @ \ {e}]
       /\ loop' = [loop EXCEPT ![o] = IF seen[o][e] >= MaxRetries THEN "park"
                                      ELSE "publish"]
  /\ UNCHANGED <<storeVars, seen, lifeVars, saving, sends, blurred>>

(* The pass is over: the batch is used up, or dropped on cancellation with *)
(* its leases still running.                                               *)
EndPass(o) ==
  /\ loop[o] = "check"
  /\ o \in cancelled \/ batch[o] = {}
  /\ batch' = [batch EXCEPT ![o] = {}]
  /\ seen' = [seen EXCEPT ![o] = [e \in Envelopes |-> 0]]
  /\ loop' = [loop EXCEPT ![o] = "wait"]
  /\ UNCHANGED <<storeVars, entry, lifeVars, saving, sends, blurred>>

(* The inner bus is any bus: its Publish returns nil ...                   *)
Accept(o) ==
  /\ loop[o] = "publish"
  /\ sends' = [sends EXCEPT ![entry[o]] = IF @ = 0 THEN 1 ELSE 2]
  /\ loop' = [loop EXCEPT ![o] = "confirm"]
  /\ UNCHANGED <<storeVars, batch, entry, seen, lifeVars, saving, blurred>>

(* ... or an error, as it always does once Close has closed it.            *)
Refuse(o) ==
  /\ loop[o] = "publish"
  /\ loop' = [loop EXCEPT ![o] = "retry"]
  /\ UNCHANGED <<storeVars, batch, entry, seen, lifeVars, saving, sends, blurred>>

(* Every Mark call looks at the context first; its error is only reported, *)
(* and the loop goes on to the next entry.                                 *)
NextEntry(o) ==
  /\ entry' = [entry EXCEPT ![o] = NoEntry]
  /\ seen' = [seen EXCEPT ![o][entry[o]] = 0]
  /\ loop' = [loop EXCEPT ![o] = "check"]
  /\ UNCHANGED <<batch, lifeVars, saving, sends>>

MarkDelivered(o) ==
  /\ loop[o] = "confirm"
  /\ o \notin cancelled
  /\ delivered' = delivered \cup {entry[o]}
  /\ NextEntry(o)
  /\ UNCHANGED <<pos, attempts, lease, dead, blurred>>

(* Mutant: a failed attempt is not counted.                                *)
MarkFailedUncounted(o) ==
  /\ loop[o] = "retry"
  /\ o \notin cancelled
  /\ lease' = [lease EXCEPT ![entry[o]] = 0]
  /\ NextEntry(o)
  /\ UNCHANGED <<pos, attempts, delivered, dead, blurred>>

MarkFailed(o) ==
  /\ loop[o] = "retry"
  /\ o \notin cancelled
  /\ attempts' = [attempts EXCEPT ![entry[o]] = @ + 1]
  /\ lease' = [lease EXCEPT ![entry[o]] = 0]
  /\ NextEntry(o)
  /\ UNCHANGED <<pos, delivered, dead, blurred>>

MarkDead(o) ==
  /\ loop[o] = "park"
  /\ o \notin cancelled
  /\ dead' = dead \cup {entry[o]}
  /\ NextEntry(o)
  /\ UNCHANGED <<pos, attempts, lease, delivered, blurred>>

MarkRefused(o) ==
  /\ loop[o] \in {"confirm", "retry", "park"}
  /\ o \in cancelled
  /\ blurred' = IF loop[o] = "confirm" THEN blurred \cup {entry[o]} ELSE blurred
  /\ NextEntry(o)
  /\ UNCHANGED storeVars

(* The ticker fires. With the context done as well, select may still take  *)
(* the tick, but dispatchOnce returns at once: no step.                    *)
Poll(o) ==
  /\ loop[o] = "wait"
  /\ o \notin cancelled
  /\ loop' = [loop EXCEPT ![o] = "claim"]
  /\ UNCHANGED <<storeVars, batch, entry, seen, lifeVars, saving, sends, blurred>>

Exit(o) ==
  /\ loop[o] = "wait"
  /\ o \in cancelled
  /\ loop' = [loop EXCEPT ![o] = "exited"]
  /\ UNCHANGED <<storeVars, batch, entry, seen, lifeVars, saving, sends, blurred>>

Dispatch(o) ==
  \/ Claim(o) \/ ClaimCancelled(o) \/ TakeEntry(o) \/ EndPass(o)
  \/ Accept(o) \/ Refuse(o)
  \/ MarkDelivered(o) \/ MarkFailed(o) \/ MarkDead(o) \/ MarkRefused(o)
  \/ Poll(o) \/ Exit(o)

-----------------------------------------------------------------------------
(* Time passes: every live claim gets shorter.                             *)
Tick ==
  /\ \E e \in Envelopes : lease[e] > 0
  /\ lease' = [e \in Envelopes |-> IF lease[e] > 0 THEN lease[e] - 1 ELSE 0]
  /\ blurred' = blurred \cup
       {e \in Envelopes : lease[e] = 1 /\ \E o \in Outboxes : e \in Held(o)}
  /\ UNCHANGED <<pos, attempts, delivered, dead, loop, batch, entry, seen,
                 lifeVars, saving, sends>>

Next ==
  \/ \E o \in Outboxes, e \in Envelopes : PublishCheck(o, e)
  \/ \E e \in Envelopes : PublishSave(e) \/ PublishAbandon(e)
  \/ \E o \in Outboxes :
       \/ Start(o) \/ StopCall(o) \/ StopCancel(o) \/ StopReturn(o)
       \/ ParentCancel(o) \/ Dispatch(o)
  \/ Tick

Spec == Init /\ [][Next]_vars

(* The scheduler runs every goroutine that can move, handlers return, time *)
(* passes. Nobody has to start, stop or cancel anything.                   *)
Fairness ==
  /\ \A o \in Outboxes : /\ WF_vars(Dispatch(o))
                         /\ WF_vars(StopCancel(o) \/ StopReturn(o))
  /\ WF_vars(Tick)

FairSpec == Spec /\ Fairness

-----------------------------------------------------------------------------
(* Properties.                                                             *)

Settled(e) == e \in delivered \cup dead

Running(o) == loop[o] \notin {"off", "exited"} /\ o \notin cancelled

(* Two dispatchers never hold the same event, and the bus never accepts it *)
(* twice, unless a claim ran out under its holder or a shutdown swallowed  *)
(* the delivered mark: what the claim window of ClaimBatch is for          *)
(* (memory_store.go:85-87).                                                *)
DuplicatesExplained ==
  \A e \in Envelopes \ blurred :
    /\ sends[e] < 2
    /\ \A o, p \in Outboxes : e \in Held(o) \cap Held(p) => o = p

(* Once the first Stop call has returned, no goroutine of that Outbox is   *)
(* left and Start cannot bring one back (outbox.go:177-213).               *)
StoppedForGood ==
  [][\A o \in Outboxes : stop[o] = "done" =>
       /\ loop[o] \in {"off", "exited"}
       /\ loop'[o] = loop[o] /\ stop'[o] = "done"]_vars

(* A saved event is settled, by delivery or dead-lettering, as long as one *)
(* dispatcher keeps running: even a poison event, an entry behind a full   *)
(* batch of failing ones, or one whose earlier holder was stopped.         *)
EverySavedSettles ==
  \A e \in Envelopes, o \in Outboxes :
    (e \in Saved /\ Running(o)) ~> (Settled(e) \/ ~Running(o))

(* Stop returns, whatever the dispatcher was doing (outbox.go:196-213).    *)
StopReturns == \A o \in Outboxes : (stop[o] = "cancel") ~> (stop[o] = "done")

(* Seen through its store, the outbox is the Delivery queue: an event is   *)
(* kept once per key, settled only for cause, never tried more than        *)
(* MaxRetries times plus once for every other dispatcher holding a stale   *)
(* copy, and never pending again once settled.                             *)
Status(e) == CASE e \notin Saved -> "absent"
               [] e \in Saved \cap delivered -> "delivered"
               [] e \in (Saved \cap dead) \ delivered -> "dead"
               [] OTHER -> "pending"

Queue == INSTANCE Delivery WITH
  Budget   <- MaxRetries + Cardinality(Outboxes) - 1,
  status   <- [e \in Envelopes |-> Status(e)],
  reached  <- {e \in Envelopes : sends[e] > 0},
  failures <- attempts

ImplementsDelivery == Queue!Spec
=============================================================================

----------------------------- MODULE SqlOutbox -----------------------------
(***************************************************************************)
(* pkg/event/outbox/sql_store.go: the database/sql Store, shared by the    *)
(* dispatchers of several processes. Every SQL statement is one step, and  *)
(* between two of them the others move. A statement may fail, with or      *)
(* without having taken effect, and a process may crash and come back:     *)
(* faults counts both, and MaxFaults bounds them.                          *)
(*                                                                         *)
(* A row is an envelope: status is delivered_at (0, > 0 or -1; "absent" is *)
(* no row), attempts its column, and lease what remains of claimed_until.  *)
(* age is how long ago a dispatcher read the clock it claims with, so      *)
(* "claimed_until <= now" is lease <= -age. No claim call outlasts MaxAge, *)
(* below which a lease need not be told apart.                             *)
(*                                                                         *)
(* The dispatcher loop is that of Outbox.tla; its lifecycle is left there. *)
(***************************************************************************)
EXTENDS Integers, FiniteSets

CONSTANTS
  Dispatchers,     \* one per process
  Envelopes,
  Rank,            \* [Envelopes -> Nat], the order by emitted_at, then id
  IdempotencyKey, NoKey,
  NoEntry,
  MaxRetries, BatchSize, ClaimTTL,
  MaxAge, MaxFaults

ASSUME SqlAssumption ==
  /\ IsFiniteSet(Dispatchers) /\ Dispatchers # {}
  /\ IsFiniteSet(Envelopes)
  /\ NoEntry \notin Envelopes
  /\ Rank \in [Envelopes -> Nat]
  /\ \A e, x \in Envelopes : Rank[e] = Rank[x] => e = x
  /\ MaxRetries \in Nat \ {0}
  /\ BatchSize \in Nat \ {0}
  /\ ClaimTTL \in Nat \ {0}
  /\ MaxAge \in Nat
  /\ MaxFaults \in Nat

VARIABLES
  status, attempts, lease,             \* the table
  save,        \* how far the Save call of an envelope got, or its answer
  loop, cand, batch, entry, seen, age, \* the dispatchers
  sends,       \* history: acceptances by the inner bus, 2 for more than one
  blurred,     \* history: as in Outbox.tla
  faults

rowVars  == <<status, attempts, lease>>
loopVars == <<loop, cand, batch, entry, seen, age>>
sqlVars  == <<rowVars, save, loopVars, sends, blurred, faults>>

SqlTypeOK ==
  /\ status \in [Envelopes -> {"absent", "pending", "delivered", "dead"}]
  /\ attempts \in [Envelopes -> Nat]
  /\ lease \in [Envelopes -> -MaxAge..ClaimTTL]
  /\ save \in [Envelopes -> {"none", "insert", "recheck", "saved", "duplicate", "error"}]
  /\ loop \in [Dispatchers -> {"wait", "claim", "check", "publish",
                               "confirm", "retry", "park", "down"}]
  /\ cand \in [Dispatchers -> SUBSET Envelopes]
  /\ batch \in [Dispatchers -> SUBSET Envelopes]
  /\ entry \in [Dispatchers -> Envelopes \cup {NoEntry}]
  /\ seen \in [Dispatchers -> [Envelopes -> Nat]]
  /\ age \in [Dispatchers -> 0..MaxAge]
  /\ sends \in [Envelopes -> 0..2]
  /\ blurred \in SUBSET Envelopes
  /\ faults \in 0..MaxFaults

(* A table filled by earlier processes, and no call under way but Save.    *)
SqlInitOver(table) ==
  /\ status = table
  /\ attempts = [e \in Envelopes |-> 0]
  /\ lease = [e \in Envelopes |-> -MaxAge]
  /\ loop = [d \in Dispatchers |-> "wait"]
  /\ cand = [d \in Dispatchers |-> {}]
  /\ batch = [d \in Dispatchers |-> {}]
  /\ entry = [d \in Dispatchers |-> NoEntry]
  /\ seen = [d \in Dispatchers |-> [e \in Envelopes |-> 0]]
  /\ age = [d \in Dispatchers |-> 0]
  /\ sends = [e \in Envelopes |-> IF table[e] = "delivered" THEN 1 ELSE 0]
  /\ blurred = {}
  /\ faults = 0

SqlInit ==
  /\ SqlInitOver([e \in Envelopes |-> "absent"])
  /\ save = [e \in Envelopes |-> "none"]

Kept == {e \in Envelopes : status[e] # "absent"}
Pending == {e \in Envelopes : status[e] = "pending"}

KeyTaken(e) ==
  /\ IdempotencyKey[e] # NoKey
  /\ \E x \in Kept : IdempotencyKey[x] = IdempotencyKey[e]

Fault == faults < MaxFaults /\ faults' = faults + 1

-----------------------------------------------------------------------------
(* Save: SELECT by key, INSERT, and after a failed INSERT SELECT again.    *)

Step(e, to) == save' = [save EXCEPT ![e] = to]

(* An event without a key is emitted again only after an error.            *)
SaveSelect(e) ==
  /\ save[e] \in {"none", "error"} \/ (save[e] = "saved" /\ IdempotencyKey[e] # NoKey)
  /\ \/ Step(e, IF KeyTaken(e) THEN "duplicate" ELSE "insert") /\ UNCHANGED faults
     \/ IdempotencyKey[e] # NoKey /\ Step(e, "error") /\ Fault
  /\ UNCHANGED <<rowVars, loopVars, sends, blurred>>

(* Mutant: the schema has no unique index on the idempotency key.          *)
PrimaryKeyOnly(e) == e \in Kept

(* The primary key or the unique index on the idempotency key refuses it.  *)
Conflicts(e) == e \in Kept \/ KeyTaken(e)

(* Mutant: a failed INSERT is reported without looking at the key again.   *)
NoRecheck(e) == "error"

(* A failed INSERT of an event with a key is followed by a second SELECT.  *)
AfterFailedInsert(e) == IF IdempotencyKey[e] # NoKey THEN "recheck" ELSE "error"

SaveInsert(e) ==
  /\ save[e] = "insert"
  /\ \/ /\ ~Conflicts(e)
        /\ status' = [status EXCEPT ![e] = "pending"]
        /\ \/ Step(e, "saved") /\ UNCHANGED faults
           \/ Step(e, AfterFailedInsert(e)) /\ Fault   \* done, but reported failed
     \/ Conflicts(e) /\ Step(e, AfterFailedInsert(e)) /\ UNCHANGED <<status, faults>>
     \/ Step(e, AfterFailedInsert(e)) /\ Fault /\ UNCHANGED status
  /\ UNCHANGED <<attempts, lease, loopVars, sends, blurred>>

SaveRecheck(e) ==
  /\ save[e] = "recheck"
  /\ \/ Step(e, IF KeyTaken(e) THEN "duplicate" ELSE "error") /\ UNCHANGED faults
     \/ Step(e, "error") /\ Fault
  /\ UNCHANGED <<rowVars, loopVars, sends, blurred>>

-----------------------------------------------------------------------------
(* ClaimBatch.                                                             *)

(* ORDER BY emitted_at, id LIMIT n.                                        *)
FirstN(S, n) == {e \in S : Cardinality({x \in S : Rank[x] < Rank[e]}) < n}

Forget(d) ==
  /\ cand' = [cand EXCEPT ![d] = {}]
  /\ batch' = [batch EXCEPT ![d] = {}]
  /\ entry' = [entry EXCEPT ![d] = NoEntry]
  /\ seen' = [seen EXCEPT ![d] = [e \in Envelopes |-> 0]]
  /\ age' = [age EXCEPT ![d] = 0]

(* The clock is read, and the candidates with their attempts. The pass is  *)
(* over at once when there are none, or the statement fails.               *)
ClaimSelect(d) ==
  LET c == FirstN({e \in Pending : lease[e] <= 0}, BatchSize) IN
  /\ loop[d] = "wait"
  /\ c # {}
  /\ loop' = [loop EXCEPT ![d] = "claim"]
  /\ cand' = [cand EXCEPT ![d] = c]
  /\ seen' = [seen EXCEPT ![d] = [e \in Envelopes |-> IF e \in c THEN attempts[e] ELSE 0]]
  /\ UNCHANGED <<rowVars, save, batch, entry, age, sends, blurred, faults>>

Held(d) == batch[d] \cup ({entry[d]} \ {NoEntry})

(* Mutant: the UPDATE does not repeat the claimed_until predicate.         *)
StillPending(d, e) == status[e] = "pending"

(* WHERE delivered_at = 0 AND claimed_until <= now, for the now of SELECT. *)
CanClaim(d, e) == status[e] = "pending" /\ lease[e] <= -age[d]

(* Mutant: the lease counts from a clock read ahead of the SELECT's.       *)
LeaseAhead(d) == ClaimTTL + 1 - age[d]

(* claimed_until counts from that same now: a slow claim is a short one.   *)
Lease(d) == IF ClaimTTL - age[d] >= -MaxAge THEN ClaimTTL - age[d] ELSE -MaxAge

ClaimRow(d) ==
  /\ loop[d] = "claim"
  /\ \E e \in FirstN(cand[d], 1) :
       /\ cand' = [cand EXCEPT ![d] = @ \ {e}]
       /\ IF CanClaim(d, e)
          THEN /\ lease' = [lease EXCEPT ![e] = Lease(d)]
               /\ batch' = [batch EXCEPT ![d] = @ \cup {e}]
               /\ blurred' = IF Lease(d) <= 0 THEN blurred \cup {e} ELSE blurred
               /\ UNCHANGED seen
          ELSE /\ seen' = [seen EXCEPT ![d][e] = 0]
               /\ UNCHANGED <<lease, batch, blurred>>
       /\ IF cand[d] = {e}
          THEN /\ loop' = [loop EXCEPT ![d] = "check"]
               /\ age' = [age EXCEPT ![d] = 0]
          ELSE UNCHANGED <<loop, age>>
  /\ UNCHANGED <<status, attempts, save, entry, sends, faults>>

(* ClaimBatch returns nil: rows already claimed stay so until the ttl.     *)
ClaimFails(d) ==
  /\ loop[d] = "claim"
  /\ Fault
  /\ \E e \in FirstN(cand[d], 1) :
       \/ UNCHANGED lease
       \/ CanClaim(d, e) /\ lease' = [lease EXCEPT ![e] = Lease(d)]
  /\ loop' = [loop EXCEPT ![d] = "wait"]
  /\ Forget(d)
  /\ UNCHANGED <<status, attempts, save, sends, blurred>>

-----------------------------------------------------------------------------
(* The rest of a pass, and the Mark statements, which look at the id only. *)

(* Mutant: an entry is parked one attempt too late.                        *)
PublishOnceMore(d, e) == seen[d][e] <= MaxRetries

(* dispatchOnce goes by the attempts of its copy.                          *)
MayPublish(d, e) == seen[d][e] < MaxRetries

TakeEntry(d) ==
  /\ loop[d] = "check"
  /\ \E e \in FirstN(batch[d], 1) :
       /\ entry' = [entry EXCEPT ![d] = e]
       /\ batch' = [batch EXCEPT ![d] = @ \ {e}]
       /\ loop' = [loop EXCEPT ![d] = IF MayPublish(d, e) THEN "publish" ELSE "park"]
  /\ UNCHANGED <<rowVars, save, cand, seen, age, sends, blurred, faults>>

EndPass(d) ==
  /\ loop[d] = "check"
  /\ batch[d] = {}
  /\ loop' = [loop EXCEPT ![d] = "wait"]
  /\ UNCHANGED <<rowVars, save, cand, batch, entry, seen, age, sends, blurred, faults>>

Publish(d) ==
  /\ loop[d] = "publish"
  /\ \/ /\ loop' = [loop EXCEPT ![d] = "confirm"]
        /\ sends' = [sends EXCEPT ![entry[d]] = IF @ = 0 THEN 1 ELSE 2]
     \/ loop' = [loop EXCEPT ![d] = "retry"] /\ UNCHANGED sends
  /\ UNCHANGED <<rowVars, save, cand, batch, entry, seen, age, blurred, faults>>

NextEntry(d) ==
  /\ loop' = [loop EXCEPT ![d] = "check"]
  /\ seen' = [seen EXCEPT ![d][entry[d]] = 0]
  /\ entry' = [entry EXCEPT ![d] = NoEntry]
  /\ UNCHANGED <<save, cand, batch, age, sends>>

MarkDelivered(d) ==
  /\ loop[d] = "confirm"
  /\ status' = [status EXCEPT ![entry[d]] = "delivered"]
  /\ NextEntry(d)
  /\ UNCHANGED <<attempts, lease, blurred, faults>>

(* Mutant: a failed attempt is not counted, so poison is tried for ever.   *)
MarkFailedUncounted(d) ==
  /\ loop[d] = "retry"
  /\ lease' = [lease EXCEPT ![entry[d]] = -MaxAge]
  /\ NextEntry(d)
  /\ UNCHANGED <<status, attempts, blurred, faults>>

MarkFailed(d) ==
  /\ loop[d] = "retry"
  /\ attempts' = [attempts EXCEPT ![entry[d]] = @ + 1]
  /\ lease' = [lease EXCEPT ![entry[d]] = -MaxAge]
  /\ NextEntry(d)
  /\ UNCHANGED <<status, blurred, faults>>

MarkDead(d) ==
  /\ loop[d] = "park"
  /\ status' = [status EXCEPT ![entry[d]] = "dead"]
  /\ NextEntry(d)
  /\ UNCHANGED <<attempts, lease, blurred, faults>>

(* The statement has no effect; its error is only reported.                *)
MarkFails(d) ==
  /\ loop[d] \in {"confirm", "retry", "park"}
  /\ Fault
  /\ blurred' = IF loop[d] = "confirm" THEN blurred \cup {entry[d]} ELSE blurred
  /\ NextEntry(d)
  /\ UNCHANGED rowVars

(* The process dies: all it knew is lost, its claims stay in the table.    *)
Crash(d) ==
  /\ loop[d] # "down"
  /\ Fault
  /\ blurred' = IF loop[d] = "confirm" THEN blurred \cup {entry[d]} ELSE blurred
  /\ loop' = [loop EXCEPT ![d] = "down"]
  /\ Forget(d)
  /\ UNCHANGED <<rowVars, save, sends>>

Restart(d) ==
  /\ loop[d] = "down"
  /\ loop' = [loop EXCEPT ![d] = "wait"]
  /\ UNCHANGED <<rowVars, save, cand, batch, entry, seen, age, sends, blurred, faults>>

-----------------------------------------------------------------------------
Tick ==
  /\ \A d \in Dispatchers : age[d] < MaxAge
  /\ \/ \E e \in Envelopes : lease[e] > -MaxAge
     \/ \E d \in Dispatchers : loop[d] = "claim"
  /\ lease' = [e \in Envelopes |-> IF lease[e] > -MaxAge THEN lease[e] - 1 ELSE lease[e]]
  /\ age' = [d \in Dispatchers |-> IF loop[d] = "claim" THEN age[d] + 1 ELSE 0]
  /\ blurred' = blurred \cup
       {e \in Envelopes : lease[e] = 1 /\ \E d \in Dispatchers : e \in Held(d)}
  /\ UNCHANGED <<status, attempts, save, loop, cand, batch, entry, seen, sends, faults>>

SaveStep(e) == SaveSelect(e) \/ SaveInsert(e) \/ SaveRecheck(e)

(* What a running process does of its own; Crash and the failures of a     *)
(* statement only happen to it.                                            *)
Run(d) ==
  \/ ClaimSelect(d) \/ ClaimRow(d) \/ TakeEntry(d) \/ EndPass(d) \/ Publish(d)
  \/ MarkDelivered(d) \/ MarkFailed(d) \/ MarkDead(d) \/ Restart(d)

SqlNext ==
  \/ \E e \in Envelopes : SaveStep(e)
  \/ \E d \in Dispatchers : Run(d) \/ ClaimFails(d) \/ MarkFails(d) \/ Crash(d)
  \/ Tick

SqlSpec == SqlInit /\ [][SqlNext]_sqlVars

(* Processes are scheduled and restarted, and time passes.                 *)
SqlFairness ==
  /\ \A d \in Dispatchers : WF_sqlVars(Run(d))
  /\ WF_sqlVars(Tick)

SqlFairSpec == SqlSpec /\ SqlFairness

-----------------------------------------------------------------------------
(* Properties.                                                             *)

(* The compare-and-set UPDATE arbitrates (sql_store.go:121-125): no event  *)
(* is held by two dispatchers or accepted twice by the inner bus, unless a *)
(* claim ran out under its holder (or before it was even handed out), or   *)
(* the delivered mark was lost to a crash or a failed statement.           *)
OneHolder ==
  \A e \in Envelopes \ blurred :
    /\ sends[e] < 2
    /\ \A d, x \in Dispatchers : e \in Held(d) \cap Held(x) => d = x

(* With no fault at all, an emitter whose INSERT lost the race for a key   *)
(* is told ErrDuplicate, never a plain error, and the event of the winner  *)
(* is in the table (sql_store.go:162-169).                                 *)
LoserToldDuplicate ==
  \A e \in Envelopes :
    /\ save[e] = "error" => faults > 0
    /\ save[e] = "duplicate" => \E x \in Kept : IdempotencyKey[x] = IdempotencyKey[e]
    /\ save[e] = "saved" => e \in Kept

(* A kept event is settled however processes crash (finitely often) and    *)
(* come back: rows claimed by a ClaimBatch that failed half-way, or by a   *)
(* process that died, are picked up again when their claim runs out.       *)
KeptSettles == \A e \in Envelopes : e \in Kept ~> status[e] \in {"delivered", "dead"}

(* The table is the Delivery queue, with no mapping but for the history:   *)
(* one event per key whichever emitters race, settled for cause only, no   *)
(* more failed attempts than MaxRetries and one per other dispatcher whose *)
(* copy of attempts was read before.                                       *)
SqlQueue == INSTANCE Delivery WITH
  Budget   <- MaxRetries + Cardinality(Dispatchers) - 1,
  reached  <- {e \in Envelopes : sends[e] > 0},
  failures <- attempts

SqlImplementsDelivery ==
  /\ Kept = {} => SqlQueue!Init
  /\ [][SqlQueue!Next]_(SqlQueue!vars)
=============================================================================

-------------------------- MODULE SqlOutbox_proofs --------------------------
(***************************************************************************)
(* Proofs about SqlOutbox, for any sets of processes and events, any retry *)
(* limit, batch size, claim TTL and number of faults. The argument is that *)
(* of Outbox_proofs with two differences: a claim is two statements apart, *)
(* so the rows a dispatcher has only selected count too, and the table has *)
(* to answer for what Save tells its callers.                              *)
(***************************************************************************)
EXTENDS SqlOutbox, FiniteSetTheorems, TLAPS

-----------------------------------------------------------------------------
(* What the statements do, seen by the invariants.                         *)

LEMMA FirstNSubset == ASSUME NEW S, NEW n PROVE FirstN(S, n) \subseteq S
BY DEF FirstN

(* The lease a claim writes is one the table can hold.                     *)
LEMMA LeaseType ==
  ASSUME SqlTypeOK, NEW d \in Dispatchers
  PROVE  Lease(d) \in -MaxAge..ClaimTTL
BY SqlAssumption DEF SqlTypeOK, Lease

(* A dispatcher is on an entry exactly from taking it to marking it.       *)
Busy == {"park", "publish", "confirm", "retry"}

EntryOK == \A d \in Dispatchers : loop[d] \in Busy <=> entry[d] # NoEntry

TypeInv == SqlTypeOK /\ EntryOK

(* Every step keeps the variables in their types.                          *)
LEMMA TypeStep == TypeInv /\ [SqlNext]_sqlVars => TypeInv'
<1> SUFFICES ASSUME TypeInv, [SqlNext]_sqlVars PROVE TypeInv'
  OBVIOUS
<1> USE SqlAssumption DEF TypeInv, SqlTypeOK, EntryOK, Busy, rowVars, loopVars
<1>1. ASSUME NEW e \in Envelopes, SaveSelect(e) PROVE TypeInv'
  BY <1>1 DEF SaveSelect, Step, Fault
<1>2. ASSUME NEW e \in Envelopes, SaveInsert(e) PROVE TypeInv'
  BY SMTT(30), <1>2 DEF SaveInsert, Step, Fault, AfterFailedInsert
<1>3. ASSUME NEW e \in Envelopes, SaveRecheck(e) PROVE TypeInv'
  BY SMTT(30), <1>3 DEF SaveRecheck, Step, Fault
<1>4. ASSUME NEW d \in Dispatchers, ClaimSelect(d) PROVE TypeInv'
  <2> DEFINE c == FirstN({e \in Pending : lease[e] <= 0}, BatchSize)
  <2>1. c \subseteq Envelopes
    BY FirstNSubset DEF Pending
  <2>2. /\ loop[d] = "wait" /\ loop' = [loop EXCEPT ![d] = "claim"]
        /\ cand' = [cand EXCEPT ![d] = c]
        /\ seen' = [seen EXCEPT ![d] = [e \in Envelopes |-> IF e \in c THEN attempts[e] ELSE 0]]
        /\ UNCHANGED <<rowVars, save, batch, entry, age, sends, blurred, faults>>
    BY <1>4 DEF ClaimSelect
  <2> HIDE DEF c
  <2> QED
    BY <2>1, <2>2
<1>5. ASSUME NEW d \in Dispatchers, ClaimRow(d) PROVE TypeInv'
  <2>1. Lease(d) \in -MaxAge..ClaimTTL
    BY LeaseType
  <2>2. PICK e \in FirstN(cand[d], 1) :
          /\ cand' = [cand EXCEPT ![d] = @ \ {e}]
          /\ IF CanClaim(d, e)
             THEN /\ lease' = [lease EXCEPT ![e] = Lease(d)]
                  /\ batch' = [batch EXCEPT ![d] = @ \cup {e}]
                  /\ blurred' = IF Lease(d) <= 0 THEN blurred \cup {e} ELSE blurred
                  /\ UNCHANGED seen
             ELSE /\ seen' = [seen EXCEPT ![d][e] = 0]
                  /\ UNCHANGED <<lease, batch, blurred>>
          /\ IF cand[d] = {e}
             THEN /\ loop' = [loop EXCEPT ![d] = "check"]
                  /\ age' = [age EXCEPT ![d] = 0]
             ELSE UNCHANGED <<loop, age>>
    BY <1>5 DEF ClaimRow
  <2>3. e \in Envelopes
    BY FirstNSubset
  <2>4. loop[d] = "claim" /\ UNCHANGED <<status, attempts, save, entry, sends, faults>>
    BY <1>5 DEF ClaimRow
  <2>5. lease' \in [Envelopes -> -MaxAge..ClaimTTL] /\ blurred' \in SUBSET Envelopes
    BY <2>1, <2>2, <2>3 DEF CanClaim
  <2>6. cand' \in [Dispatchers -> SUBSET Envelopes] /\ batch' \in [Dispatchers -> SUBSET Envelopes]
    BY <2>2, <2>3 DEF CanClaim
  <2>7. seen' \in [Dispatchers -> [Envelopes -> Nat]]
    <3>1. CASE CanClaim(d, e)
      BY <2>2, <3>1
    <3>2. CASE ~CanClaim(d, e)
      <4>1. seen' = [seen EXCEPT ![d] = [seen[d] EXCEPT ![e] = 0]]
        BY <2>2, <3>2
      <4>2. [seen[d] EXCEPT ![e] = 0] \in [Envelopes -> Nat]
        BY <2>3
      <4> QED
        BY <4>1, <4>2
    <3> QED
      BY <3>1, <3>2
  <2>8. age' \in [Dispatchers -> 0..MaxAge]
    BY <2>2
  <2>9. /\ loop' \in [Dispatchers -> {"wait", "claim", "check", "publish",
                                      "confirm", "retry", "park", "down"}]
        /\ \A x \in Dispatchers : loop'[x] \in Busy <=> loop[x] \in Busy
    <3>1. PICK next \in {"claim", "check"} : loop' = [loop EXCEPT ![d] = next]
      BY SMTT(30), <2>2, <2>4
    <3> QED
      BY SMTT(30), <2>4, <3>1 DEF Busy
  <2> QED
    BY <2>4, <2>5, <2>6, <2>7, <2>8, <2>9
<1>6. ASSUME NEW d \in Dispatchers, ClaimFails(d) PROVE TypeInv'
  <2>1. Lease(d) \in -MaxAge..ClaimTTL
    BY LeaseType
  <2>2. PICK e \in FirstN(cand[d], 1) :
          UNCHANGED lease \/ lease' = [lease EXCEPT ![e] = Lease(d)]
    BY <1>6 DEF ClaimFails
  <2>3. e \in Envelopes
    BY FirstNSubset
  <2>4. lease' \in [Envelopes -> -MaxAge..ClaimTTL]
    BY <2>1, <2>2, <2>3
  <2> QED
    BY <1>6, <2>4 DEF ClaimFails, Forget, Fault
<1>7. ASSUME NEW d \in Dispatchers, TakeEntry(d) PROVE TypeInv'
  <2>1. PICK e \in FirstN(batch[d], 1) :
          /\ entry' = [entry EXCEPT ![d] = e]
          /\ batch' = [batch EXCEPT ![d] = @ \ {e}]
          /\ loop' = [loop EXCEPT ![d] = IF MayPublish(d, e) THEN "publish" ELSE "park"]
    BY <1>7 DEF TakeEntry
  <2>2. e \in Envelopes
    BY FirstNSubset
  <2> QED
    BY <1>7, <2>1, <2>2 DEF TakeEntry
<1>8. ASSUME NEW d \in Dispatchers, EndPass(d) PROVE TypeInv'
  BY <1>8 DEF EndPass
<1>9. ASSUME NEW d \in Dispatchers, Publish(d) PROVE TypeInv'
  <2>1. PICK s \in {"confirm", "retry"} : loop' = [loop EXCEPT ![d] = s]
    BY <1>9 DEF Publish
  <2>2. sends' \in [Envelopes -> 0..2]
    <3>1. \/ UNCHANGED sends
          \/ sends' = [sends EXCEPT ![entry[d]] = IF @ = 0 THEN 1 ELSE 2]
      BY <1>9 DEF Publish
    <3> QED
      BY <3>1
  <2>3. loop[d] = "publish" /\ UNCHANGED <<rowVars, save, cand, batch, entry, seen, age, blurred, faults>>
    BY <1>9 DEF Publish
  <2> QED
    BY <2>1, <2>2, <2>3
<1>10. ASSUME NEW d \in Dispatchers, MarkDelivered(d) PROVE TypeInv'
  BY <1>10 DEF MarkDelivered, NextEntry
<1>11. ASSUME NEW d \in Dispatchers, MarkFailed(d) PROVE TypeInv'
  BY <1>11 DEF MarkFailed, NextEntry
<1>12. ASSUME NEW d \in Dispatchers, MarkDead(d) PROVE TypeInv'
  BY <1>12 DEF MarkDead, NextEntry
<1>13. ASSUME NEW d \in Dispatchers, MarkFails(d) PROVE TypeInv'
  BY <1>13 DEF MarkFails, NextEntry, Fault
<1>14. ASSUME NEW d \in Dispatchers, Crash(d) PROVE TypeInv'
  BY <1>14 DEF Crash, Forget, Fault
<1>15. ASSUME NEW d \in Dispatchers, Restart(d) PROVE TypeInv'
  BY <1>15 DEF Restart
<1>16. CASE Tick
  <2>1. /\ lease' = [e \in Envelopes |-> IF lease[e] > -MaxAge THEN lease[e] - 1 ELSE lease[e]]
        /\ lease' \in [Envelopes -> -MaxAge..ClaimTTL]
    BY <1>16 DEF Tick
  <2>2. age' \in [Dispatchers -> 0..MaxAge]
    BY <1>16 DEF Tick
  <2>3. blurred' \in SUBSET Envelopes
    BY <1>16 DEF Tick
  <2> QED
    BY <1>16, <2>1, <2>2, <2>3 DEF Tick
<1>17. CASE UNCHANGED sqlVars
  BY <1>17 DEF sqlVars
<1> QED
  BY <1>1, <1>2, <1>3, <1>4, <1>5, <1>6, <1>7, <1>8, <1>9, <1>10, <1>11,
     <1>12, <1>13, <1>14, <1>15, <1>16, <1>17 DEF SqlNext, SaveStep, Run

LEMMA TypeInit == SqlInit => TypeInv
BY SqlAssumption DEF SqlInit, SqlInitOver, TypeInv, SqlTypeOK, EntryOK, Busy

(* Every column, and all that a process or the history keeps, stays in its *)
(* type: no lease falls below what the model tells apart.                  *)
THEOREM SqlTypeCorrect == SqlSpec => []SqlTypeOK
<1>1. TypeInv => SqlTypeOK
  BY DEF TypeInv
<1> QED
  BY <1>1, TypeInit, TypeStep, PTL DEF SqlSpec

-----------------------------------------------------------------------------
(* The inductive invariant. Both the compare-and-set of a claim and a mark *)
(* rest on what a process read some statements ago; the invariant ties     *)
(* those copies to the table as it has become meanwhile.                   *)

(* The rows whose attempts a dispatcher has read and not forgotten.        *)
Copied(d) == Held(d) \cup cand[d]

(* Copies are of rows in the table; a row is selected, claimed or worked   *)
(* on, never two of these; and nothing is left over between passes.        *)
HeldInv ==
  \A d \in Dispatchers :
    /\ Copied(d) \subseteq Kept
    /\ entry[d] \notin batch[d]
    /\ cand[d] \cap batch[d] = {}
    /\ cand[d] # {} => loop[d] = "claim"
    /\ loop[d] \in {"wait", "down"} => batch[d] = {}

(* How far a Save call got says what it knows of the table.                *)
SaveInv ==
  \A e \in Envelopes :
    /\ save[e] = "none" => e \notin Kept
    /\ save[e] = "insert" /\ IdempotencyKey[e] = NoKey => e \notin Kept \/ faults > 0
    /\ save[e] = "recheck" => IdempotencyKey[e] # NoKey /\ (KeyTaken(e) \/ faults > 0)
    /\ save[e] = "saved" => e \in Kept
    /\ save[e] = "duplicate" => KeyTaken(e)
    /\ save[e] = "error" => faults > 0

(* The copies of attempts are never ahead of the table, and decide between *)
(* another try and the dead-letter state.                                  *)
SeenInv ==
  \A d \in Dispatchers :
    /\ \A e \in Copied(d) : seen[d][e] <= attempts[e]
    /\ loop[d] = "park" => seen[d][entry[d]] >= MaxRetries
    /\ loop[d] \in {"publish", "confirm", "retry"} => seen[d][entry[d]] < MaxRetries

(* What settled an event, or is about to.                                  *)
CauseInv ==
  /\ \A d \in Dispatchers : loop[d] = "confirm" => sends[entry[d]] > 0
  /\ \A e \in Envelopes :
       /\ status[e] = "delivered" => sends[e] > 0
       /\ status[e] = "dead" => attempts[e] >= MaxRetries

(* The dispatchers that may still try e on the strength of an old copy.    *)
Stale(e) == {d \in Dispatchers : e \in Copied(d) /\ seen[d][e] < MaxRetries}

BudgetInv ==
  \A e \in Envelopes :
    attempts[e] + Cardinality(Stale(e)) <= MaxRetries + Cardinality(Dispatchers) - 1

(* While no claim of an event has lapsed under its holder and no delivered *)
(* mark of it was lost, its holder is alone, covered by the lease, and the *)
(* only one that can have sent it.                                         *)
Sole(e) ==
  /\ \A d \in Dispatchers : e \in Held(d) => lease[e] > 0 /\ status[e] = "pending"
  /\ \A d, x \in Dispatchers : e \in Held(d) /\ e \in Held(x) => d = x
  /\ sends[e] < 2
  /\ sends[e] = 1 => \/ status[e] = "delivered"
                     \/ \E d \in Dispatchers : loop[d] = "confirm" /\ entry[d] = e

SoleInv == \A e \in Envelopes \ blurred : Sole(e)

IInv ==
  /\ TypeInv /\ HeldInv /\ SaveInv /\ SeenInv /\ CauseInv /\ BudgetInv /\ SoleInv

-----------------------------------------------------------------------------
(* What each statement does to the copies, the table and the history: the  *)
(* facts the parts of the invariant need.                                  *)

(* A Save call leaves the dispatchers alone and may add a row.             *)
LEMMA SaveFacts ==
  ASSUME TypeInv, NEW e \in Envelopes, SaveStep(e)
  PROVE  /\ UNCHANGED <<attempts, lease, loopVars, sends, blurred>>
         /\ faults' >= faults
         /\ \/ UNCHANGED status
            \/ /\ ~Conflicts(e) /\ save[e] = "insert"
               /\ status' = [status EXCEPT ![e] = "pending"]
         /\ \E to \in {"insert", "duplicate", "recheck", "saved", "error"} :
              save' = [save EXCEPT ![e] = to]
<1> USE SqlAssumption DEF TypeInv, SqlTypeOK, rowVars, Step, Fault
<1>1. CASE SaveSelect(e)
  BY <1>1 DEF SaveSelect
<1>2. CASE SaveInsert(e)
  BY <1>2 DEF SaveInsert, AfterFailedInsert
<1>3. CASE SaveRecheck(e)
  BY <1>3 DEF SaveRecheck
<1> QED
  BY <1>1, <1>2, <1>3 DEF SaveStep

(* The SELECT of a claim copies rows nobody holds a live lease on.         *)
LEMMA SelectFacts ==
  ASSUME TypeInv, HeldInv, NEW d \in Dispatchers, ClaimSelect(d)
  PROVE  \E c \in SUBSET Envelopes :
           /\ \A e \in c : status[e] = "pending"
           /\ loop[d] = "wait" /\ loop' = [loop EXCEPT ![d] = "claim"]
           /\ cand' = [cand EXCEPT ![d] = c]
           /\ seen' = [seen EXCEPT ![d] = [e \in Envelopes |-> IF e \in c THEN attempts[e] ELSE 0]]
           /\ Copied(d) = {} /\ Copied(d)' = c
           /\ \A x \in Dispatchers : Held(x)' = Held(x)
           /\ \A x \in Dispatchers \ {d} : Copied(x)' = Copied(x)
           /\ UNCHANGED <<rowVars, save, batch, entry, sends, blurred, faults>>
<1> DEFINE c == FirstN({e \in Pending : lease[e] <= 0}, BatchSize)
<1>1. c \in SUBSET Envelopes /\ \A e \in c : status[e] = "pending"
  BY FirstNSubset DEF Pending
<1>2. /\ loop[d] = "wait" /\ loop' = [loop EXCEPT ![d] = "claim"]
      /\ cand' = [cand EXCEPT ![d] = c]
      /\ seen' = [seen EXCEPT ![d] = [e \in Envelopes |-> IF e \in c THEN attempts[e] ELSE 0]]
      /\ UNCHANGED <<rowVars, save, batch, entry, sends, blurred, faults>>
  BY DEF ClaimSelect
<1> HIDE DEF c
<1> USE SqlAssumption DEF TypeInv, SqlTypeOK, EntryOK, Busy, HeldInv, Held
<1>3. Held(d) = {} /\ cand[d] = {}
  BY <1>2
<1>4. \A x \in Dispatchers : Held(x)' = Held(x)
  BY <1>2
<1>5. Copied(d) = {} /\ Copied(d)' = c /\ \A x \in Dispatchers \ {d} : Copied(x)' = Copied(x)
  BY <1>1, <1>2, <1>3, <1>4 DEF Copied
<1> QED
  BY <1>1, <1>2, <1>3, <1>4, <1>5

(* The UPDATE of a claim: the row is moved to the batch when nobody holds  *)
(* a live lease on it, and its copy is dropped otherwise.                  *)
LEMMA RowFacts ==
  ASSUME TypeInv, HeldInv, NEW d \in Dispatchers, ClaimRow(d)
  PROVE  \E e \in cand[d] :
           /\ e \in Envelopes /\ loop[d] = "claim" /\ entry[d] = NoEntry
           /\ cand' = [cand EXCEPT ![d] = @ \ {e}]
           /\ loop' = [loop EXCEPT ![d] = IF cand[d] = {e} THEN "check" ELSE "claim"]
           /\ \/ /\ status[e] = "pending" /\ lease[e] <= 0
                 /\ lease' = [lease EXCEPT ![e] = Lease(d)]
                 /\ batch' = [batch EXCEPT ![d] = @ \cup {e}]
                 /\ Held(d)' = Held(d) \cup {e}
                 /\ Lease(d) > 0 \/ e \in blurred'
                 /\ UNCHANGED seen
              \/ /\ seen' = [seen EXCEPT ![d] = [seen[d] EXCEPT ![e] = 0]]
                 /\ Held(d)' = Held(d)
                 /\ UNCHANGED <<lease, batch>>
           /\ \A x \in Dispatchers \ {d} : Held(x)' = Held(x) /\ Copied(x)' = Copied(x)
           /\ blurred \subseteq blurred'
           /\ UNCHANGED <<status, attempts, save, entry, sends, faults>>
<1> USE SqlAssumption DEF TypeInv, SqlTypeOK, EntryOK, Busy, HeldInv
<1>1. PICK e \in FirstN(cand[d], 1) :
        /\ cand' = [cand EXCEPT ![d] = @ \ {e}]
        /\ IF CanClaim(d, e)
           THEN /\ lease' = [lease EXCEPT ![e] = Lease(d)]
                /\ batch' = [batch EXCEPT ![d] = @ \cup {e}]
                /\ blurred' = IF Lease(d) <= 0 THEN blurred \cup {e} ELSE blurred
                /\ UNCHANGED seen
           ELSE /\ seen' = [seen EXCEPT ![d][e] = 0]
                /\ UNCHANGED <<lease, batch, blurred>>
        /\ IF cand[d] = {e}
           THEN /\ loop' = [loop EXCEPT ![d] = "check"]
                /\ age' = [age EXCEPT ![d] = 0]
           ELSE UNCHANGED <<loop, age>>
  BY DEF ClaimRow
<1>2. e \in cand[d] /\ e \in Envelopes
  BY FirstNSubset
<1>3. loop[d] = "claim" /\ UNCHANGED <<status, attempts, save, entry, sends, faults>>
  BY DEF ClaimRow
<1>4. entry[d] = NoEntry
  BY <1>3
<1>5. loop' = [loop EXCEPT ![d] = IF cand[d] = {e} THEN "check" ELSE "claim"]
  BY <1>1, <1>3 DEF CanClaim
<1>6. Lease(d) \in Int
  BY LeaseType
<1>7. blurred \subseteq blurred'
  BY <1>1 DEF CanClaim
<1>8. \A x \in Dispatchers \ {d} : batch'[x] = batch[x] /\ cand'[x] = cand[x]
  BY <1>1 DEF CanClaim
<1>9. \A x \in Dispatchers \ {d} : Held(x)' = Held(x) /\ Copied(x)' = Copied(x)
  BY <1>3, <1>8 DEF Held, Copied
<1>10. CASE CanClaim(d, e)
  <2>1. status[e] = "pending" /\ lease[e] <= 0
    BY <1>2, <1>10 DEF CanClaim
  <2>2. Held(d)' = Held(d) \cup {e}
    BY <1>1, <1>2, <1>3, <1>10 DEF Held
  <2>3. Lease(d) > 0 \/ e \in blurred'
    BY <1>1, <1>6, <1>10
  <2> QED
    BY <1>1, <1>2, <1>3, <1>4, <1>5, <1>7, <1>9, <1>10, <2>1, <2>2, <2>3
<1>11. CASE ~CanClaim(d, e)
  <2>1. Held(d)' = Held(d)
    BY <1>1, <1>3, <1>11 DEF Held
  <2>2. seen' = [seen EXCEPT ![d] = [seen[d] EXCEPT ![e] = 0]] /\ UNCHANGED <<lease, batch>>
    BY <1>1, <1>11
  <2> QED
    BY <1>1, <1>2, <1>3, <1>4, <1>5, <1>7, <1>9, <2>1, <2>2
<1> QED
  BY <1>10, <1>11

(* A claim that fails half-way and a crash forget everything, the row just *)
(* claimed and a mark not made included.                                   *)
LEMMA LoseFacts ==
  ASSUME TypeInv, NEW d \in Dispatchers, ClaimFails(d) \/ Crash(d)
  PROVE  /\ \E to \in {"wait", "down"} : loop' = [loop EXCEPT ![d] = to]
         /\ loop[d] = "confirm" => entry[d] \in blurred'
         /\ cand' = [cand EXCEPT ![d] = {}]
         /\ batch' = [batch EXCEPT ![d] = {}]
         /\ entry' = [entry EXCEPT ![d] = NoEntry]
         /\ seen' = [seen EXCEPT ![d] = [e \in Envelopes |-> 0]]
         /\ Copied(d)' = {}
         /\ \A x \in Dispatchers \ {d} : Held(x)' = Held(x) /\ Copied(x)' = Copied(x)
         /\ \A e \in Envelopes : lease'[e] = lease[e] \/ lease[e] <= 0
         /\ blurred \subseteq blurred'
         /\ faults' = faults + 1
         /\ UNCHANGED <<status, attempts, save, sends>>
<1> USE SqlAssumption DEF TypeInv, SqlTypeOK
<1>1. PICK to \in {"wait", "down"} : loop' = [loop EXCEPT ![d] = to]
  BY DEF ClaimFails, Crash
<1>2. /\ cand' = [cand EXCEPT ![d] = {}]
      /\ batch' = [batch EXCEPT ![d] = {}]
      /\ entry' = [entry EXCEPT ![d] = NoEntry]
      /\ seen' = [seen EXCEPT ![d] = [e \in Envelopes |-> 0]]
      /\ UNCHANGED <<status, attempts, save, sends>>
      /\ faults' = faults + 1
  BY DEF ClaimFails, Crash, Forget, Fault, rowVars
<1>3. Copied(d)' = {}
      /\ \A x \in Dispatchers \ {d} : Held(x)' = Held(x) /\ Copied(x)' = Copied(x)
  BY <1>2 DEF Copied, Held
<1>4. (loop[d] = "confirm" => entry[d] \in blurred') /\ blurred \subseteq blurred'
  BY DEF ClaimFails, Crash
<1>5. ASSUME NEW e \in Envelopes PROVE lease'[e] = lease[e] \/ lease[e] <= 0
  <2>1. CASE Crash(d)
    BY <2>1 DEF Crash, rowVars
  <2>2. CASE ClaimFails(d)
    <3>1. PICK x \in FirstN(cand[d], 1) :
            UNCHANGED lease \/ (CanClaim(d, x) /\ lease' = [lease EXCEPT ![x] = Lease(d)])
      BY <2>2 DEF ClaimFails
    <3>2. x \in Envelopes
      BY FirstNSubset
    <3> QED
      BY <3>1, <3>2 DEF CanClaim
  <2> QED
    BY <2>1, <2>2
<1> QED
  BY <1>1, <1>2, <1>3, <1>4, <1>5

(* Taking the next entry of the batch, to try it or to park it.            *)
LEMMA TakeFacts ==
  ASSUME TypeInv, NEW d \in Dispatchers, TakeEntry(d)
  PROVE  \E e \in batch[d] :
           /\ loop[d] = "check" /\ entry[d] = NoEntry
           /\ entry' = [entry EXCEPT ![d] = e]
           /\ batch' = [batch EXCEPT ![d] = @ \ {e}]
           /\ loop' = [loop EXCEPT ![d] = IF seen[d][e] < MaxRetries THEN "publish" ELSE "park"]
           /\ \A x \in Dispatchers : Held(x)' = Held(x) /\ Copied(x)' = Copied(x)
           /\ UNCHANGED <<rowVars, save, cand, seen, sends, blurred, faults>>
<1> USE SqlAssumption DEF TypeInv, SqlTypeOK, EntryOK, Busy
<1>1. PICK e \in FirstN(batch[d], 1) :
        /\ entry' = [entry EXCEPT ![d] = e]
        /\ batch' = [batch EXCEPT ![d] = @ \ {e}]
        /\ loop' = [loop EXCEPT ![d] = IF seen[d][e] < MaxRetries THEN "publish" ELSE "park"]
  BY DEF TakeEntry, MayPublish
<1>2. e \in batch[d]
  BY FirstNSubset
<1>3. loop[d] = "check" /\ entry[d] = NoEntry
      /\ UNCHANGED <<rowVars, save, cand, seen, sends, blurred, faults>>
  BY DEF TakeEntry
<1>4. \A x \in Dispatchers : Held(x)' = Held(x)
  BY <1>1, <1>2, <1>3 DEF Held
<1>5. \A x \in Dispatchers : Copied(x)' = Copied(x)
  BY <1>3, <1>4 DEF Copied
<1> QED
  BY <1>1, <1>2, <1>3, <1>4, <1>5

(* The ends of a pass and of an outage hold nothing.                       *)
LEMMA IdleFacts ==
  ASSUME TypeInv, NEW d \in Dispatchers, EndPass(d) \/ Restart(d)
  PROVE  /\ loop[d] \in {"check", "down"} /\ loop' = [loop EXCEPT ![d] = "wait"]
         /\ loop[d] = "check" => batch[d] = {}
         /\ \A x \in Dispatchers : Held(x)' = Held(x) /\ Copied(x)' = Copied(x)
         /\ UNCHANGED <<rowVars, save, cand, batch, entry, seen, sends, blurred, faults>>
BY DEF EndPass, Restart, Held, Copied

(* Publish: the inner bus accepts the entry or does not.                   *)
LEMMA PublishFacts ==
  ASSUME TypeInv, NEW d \in Dispatchers, Publish(d)
  PROVE  /\ loop[d] = "publish" /\ entry[d] \in Envelopes /\ entry[d] \in Held(d)
         /\ \/ /\ loop' = [loop EXCEPT ![d] = "confirm"]
               /\ sends' = [sends EXCEPT ![entry[d]] = IF @ = 0 THEN 1 ELSE 2]
            \/ loop' = [loop EXCEPT ![d] = "retry"] /\ UNCHANGED sends
         /\ \A x \in Dispatchers : Held(x)' = Held(x) /\ Copied(x)' = Copied(x)
         /\ UNCHANGED <<rowVars, save, cand, batch, entry, seen, blurred, faults>>
BY SqlAssumption DEF Publish, TypeInv, SqlTypeOK, EntryOK, Busy, Held, Copied

(* A mark, made or failed, ends the work on its entry.                     *)
Mark(d) == MarkDelivered(d) \/ MarkFailed(d) \/ MarkDead(d) \/ MarkFails(d)

LEMMA MarkFacts ==
  ASSUME TypeInv, HeldInv, NEW d \in Dispatchers, Mark(d)
  PROVE  /\ entry[d] \in Envelopes /\ entry[d] \in Held(d) /\ loop[d] \in Busy
         /\ entry' = [entry EXCEPT ![d] = NoEntry]
         /\ loop' = [loop EXCEPT ![d] = "check"]
         /\ \A x \in Dispatchers, e \in Envelopes :
              seen'[x][e] = IF x = d /\ e = entry[d] THEN 0 ELSE seen[x][e]
         /\ Held(d)' = Held(d) \ {entry[d]} /\ Copied(d)' = Copied(d) \ {entry[d]}
         /\ \A x \in Dispatchers \ {d} : Held(x)' = Held(x) /\ Copied(x)' = Copied(x)
         /\ blurred \subseteq blurred' /\ faults' >= faults
         /\ UNCHANGED <<save, cand, batch, sends>>
<1> USE SqlAssumption DEF TypeInv, SqlTypeOK, EntryOK, Busy, HeldInv
<1>1. /\ entry' = [entry EXCEPT ![d] = NoEntry]
      /\ loop' = [loop EXCEPT ![d] = "check"]
      /\ seen' = [seen EXCEPT ![d][entry[d]] = 0]
      /\ UNCHANGED <<save, cand, batch, sends>>
      /\ loop[d] \in Busy
  BY DEF Mark, MarkDelivered, MarkFailed, MarkDead, MarkFails, NextEntry
<1>2. blurred \subseteq blurred' /\ faults' >= faults
  BY DEF Mark, MarkDelivered, MarkFailed, MarkDead, MarkFails, Fault
<1>3. entry[d] \in Envelopes /\ entry[d] \in Held(d) /\ entry[d] \notin batch[d] /\ cand[d] = {}
  BY <1>1 DEF Held
<1>4. /\ Held(d)' = Held(d) \ {entry[d]}
      /\ \A x \in Dispatchers \ {d} : Held(x)' = Held(x)
  BY <1>1, <1>3 DEF Held
<1>5. /\ Copied(d)' = Copied(d) \ {entry[d]}
      /\ \A x \in Dispatchers \ {d} : Copied(x)' = Copied(x)
  BY <1>1, <1>3, <1>4 DEF Copied
<1>6. ASSUME NEW x \in Dispatchers, NEW e \in Envelopes
      PROVE  seen'[x][e] = IF x = d /\ e = entry[d] THEN 0 ELSE seen[x][e]
  BY <1>1, <1>3
<1> QED
  BY <1>1, <1>2, <1>3, <1>4, <1>5, <1>6

(* Time takes leases away and blurs what lapses under its holder.          *)
LEMMA TickFacts ==
  ASSUME TypeInv, Tick
  PROVE  /\ \A e \in Envelopes, d \in Dispatchers :
              e \in Held(d) /\ lease[e] > 0 => lease'[e] > 0 \/ e \in blurred'
         /\ \A x \in Dispatchers : Held(x)' = Held(x) /\ Copied(x)' = Copied(x)
         /\ blurred \subseteq blurred'
         /\ UNCHANGED <<status, attempts, save, loop, cand, batch, entry, seen, sends, faults>>
<1>1. /\ blurred \subseteq blurred'
      /\ UNCHANGED <<status, attempts, save, loop, cand, batch, entry, seen, sends, faults>>
  BY DEF Tick
<1>2. \A x \in Dispatchers : Held(x)' = Held(x) /\ Copied(x)' = Copied(x)
  BY <1>1 DEF Held, Copied
<1>3. ASSUME NEW e \in Envelopes, NEW d \in Dispatchers, e \in Held(d), lease[e] > 0
      PROVE  lease'[e] > 0 \/ e \in blurred'
  <2>1. lease'[e] = IF lease[e] > -MaxAge THEN lease[e] - 1 ELSE lease[e]
    BY DEF Tick
  <2>2. lease[e] = 1 => e \in blurred'
    BY <1>3 DEF Tick
  <2>3. lease[e] \in Int
    BY SqlAssumption DEF TypeInv, SqlTypeOK
  <2> QED
    BY <1>3, <2>1, <2>2, <2>3, SqlAssumption
<1> QED
  BY <1>1, <1>2, <1>3

(* Every step is one of these.                                             *)
LEMMA Steps ==
  ASSUME [SqlNext]_sqlVars
  PROVE  \/ \E e \in Envelopes : SaveStep(e)
         \/ \E d \in Dispatchers :
              \/ ClaimSelect(d) \/ ClaimRow(d) \/ TakeEntry(d) \/ Publish(d) \/ Mark(d)
              \/ (EndPass(d) \/ Restart(d)) \/ (ClaimFails(d) \/ Crash(d))
         \/ Tick
         \/ UNCHANGED sqlVars
BY DEF SqlNext, Run, Mark

-----------------------------------------------------------------------------
(* Each part of the invariant is kept by every step.                       *)

(* No statement deletes a row.                                             *)
LEMMA KeptGrows ==
  ASSUME TypeInv, HeldInv, [SqlNext]_sqlVars
  PROVE  Kept \subseteq Kept'
<1> USE SqlAssumption DEF TypeInv, SqlTypeOK, Kept, rowVars
<1>1. ASSUME NEW e \in Envelopes, SaveStep(e) PROVE Kept \subseteq Kept'
  BY <1>1, SaveFacts
<1>2. ASSUME NEW d \in Dispatchers, Mark(d) PROVE Kept \subseteq Kept'
  <2>1. entry[d] \in Envelopes
    BY <1>2, MarkFacts
  <2> QED
    BY <1>2, <2>1 DEF Mark, MarkDelivered, MarkFailed, MarkDead, MarkFails
<1>3. ASSUME NEW d \in Dispatchers,
             \/ ClaimSelect(d) \/ ClaimRow(d) \/ TakeEntry(d) \/ Publish(d)
             \/ EndPass(d) \/ Restart(d) \/ ClaimFails(d) \/ Crash(d)
      PROVE Kept \subseteq Kept'
  BY <1>3 DEF ClaimSelect, ClaimRow, TakeEntry, Publish, EndPass, Restart, ClaimFails, Crash
<1> QED
  BY <1>1, <1>2, <1>3, Steps DEF Tick, sqlVars

LEMMA HeldStep == TypeInv /\ HeldInv /\ [SqlNext]_sqlVars => HeldInv'
<1> SUFFICES ASSUME TypeInv, HeldInv, [SqlNext]_sqlVars PROVE HeldInv'
  OBVIOUS
<1>0. Kept \subseteq Kept'
  BY KeptGrows
<1> USE SqlAssumption DEF TypeInv, SqlTypeOK, EntryOK, Busy, HeldInv
<1>1. ASSUME NEW e \in Envelopes, SaveStep(e) PROVE HeldInv'
  <2>1. UNCHANGED loopVars
    BY <1>1, SaveFacts
  <2> QED
    BY <1>0, <2>1 DEF loopVars, Copied, Held
<1>2. ASSUME NEW d \in Dispatchers, ClaimSelect(d) PROVE HeldInv'
  <2>1. PICK c \in SUBSET Envelopes :
          /\ \A e \in c : status[e] = "pending"
          /\ loop[d] = "wait" /\ loop' = [loop EXCEPT ![d] = "claim"]
          /\ cand' = [cand EXCEPT ![d] = c]
          /\ Copied(d)' = c
          /\ \A x \in Dispatchers \ {d} : Copied(x)' = Copied(x)
          /\ UNCHANGED <<status, batch, entry>>
    BY <1>2, SelectFacts DEF rowVars
  <2>2. c \subseteq Kept'
    BY <2>1 DEF Kept
  <2>3. \A x \in Dispatchers : Copied(x)' \subseteq Kept'
    BY <1>0, <2>1, <2>2
  <2>4. \A x \in Dispatchers : entry'[x] \notin batch'[x] /\ cand'[x] \cap batch'[x] = {}
    BY <2>1
  <2>5. \A x \in Dispatchers : /\ cand'[x] # {} => loop'[x] = "claim"
                               /\ loop'[x] \in {"wait", "down"} => batch'[x] = {}
    BY <2>1
  <2> QED
    BY <2>3, <2>4, <2>5
<1>3. ASSUME NEW d \in Dispatchers, ClaimRow(d) PROVE HeldInv'
  <2>1. PICK e \in cand[d] :
          /\ e \in Envelopes /\ loop[d] = "claim" /\ entry[d] = NoEntry
          /\ cand' = [cand EXCEPT ![d] = @ \ {e}]
          /\ loop' = [loop EXCEPT ![d] = IF cand[d] = {e} THEN "check" ELSE "claim"]
          /\ batch' = [batch EXCEPT ![d] = @ \cup {e}] \/ UNCHANGED batch
          /\ Held(d)' = Held(d) \cup {e} \/ Held(d)' = Held(d)
          /\ \A x \in Dispatchers \ {d} : Copied(x)' = Copied(x)
          /\ UNCHANGED entry
    BY <1>3, RowFacts
  <2>2. Copied(d)' \subseteq Copied(d)
    BY <2>1 DEF Copied
  <2>3. ASSUME NEW x \in Dispatchers PROVE Copied(x)' \subseteq Kept'
    <3>1. CASE x = d
      BY <1>0, <2>2, <3>1
    <3>2. CASE x # d
      BY <1>0, <2>1, <3>2
    <3> QED
      BY <3>1, <3>2
  <2>4. \A x \in Dispatchers : entry'[x] \notin batch'[x] /\ cand'[x] \cap batch'[x] = {}
    BY <2>1
  <2>5. \A x \in Dispatchers : /\ cand'[x] # {} => loop'[x] = "claim"
                               /\ loop'[x] \in {"wait", "down"} => batch'[x] = {}
    BY <2>1
  <2> QED
    BY <2>3, <2>4, <2>5
<1>4. ASSUME NEW d \in Dispatchers, TakeEntry(d) PROVE HeldInv'
  <2>1. PICK e \in batch[d] :
          /\ loop[d] = "check"
          /\ entry' = [entry EXCEPT ![d] = e]
          /\ batch' = [batch EXCEPT ![d] = @ \ {e}]
          /\ loop' = [loop EXCEPT ![d] = IF seen[d][e] < MaxRetries THEN "publish" ELSE "park"]
          /\ \A x \in Dispatchers : Copied(x)' = Copied(x)
          /\ UNCHANGED cand
    BY <1>4, TakeFacts
  <2> QED
    BY <1>0, <2>1
<1>5. ASSUME NEW d \in Dispatchers, Publish(d) PROVE HeldInv'
  <2>1. PICK to \in {"confirm", "retry"} : loop' = [loop EXCEPT ![d] = to]
    BY <1>5, PublishFacts
  <2>2. /\ loop[d] = "publish"
        /\ \A x \in Dispatchers : Copied(x)' = Copied(x)
        /\ UNCHANGED <<cand, batch, entry>>
    BY <1>5, PublishFacts
  <2> QED
    BY <1>0, <2>1, <2>2
<1>6. ASSUME NEW d \in Dispatchers, Mark(d) PROVE HeldInv'
  <2>1. /\ entry' = [entry EXCEPT ![d] = NoEntry] /\ loop[d] \in Busy
        /\ loop' = [loop EXCEPT ![d] = "check"]
        /\ Copied(d)' = Copied(d) \ {entry[d]}
        /\ UNCHANGED <<cand, batch>>
    BY <1>6, MarkFacts
  <2>2. \A x \in Dispatchers \ {d} : Copied(x)' = Copied(x)
    BY <1>6, MarkFacts
  <2> QED
    BY <1>0, <2>1, <2>2
<1>7. ASSUME NEW d \in Dispatchers, EndPass(d) \/ Restart(d) PROVE HeldInv'
  <2>1. /\ loop[d] \in {"check", "down"} /\ loop' = [loop EXCEPT ![d] = "wait"]
        /\ loop[d] = "check" => batch[d] = {}
        /\ UNCHANGED <<cand, batch, entry>>
    BY <1>7, IdleFacts
  <2>2. \A x \in Dispatchers : Copied(x)' = Copied(x)
    BY <1>7, IdleFacts
  <2> QED
    BY <1>0, <2>1, <2>2
<1>8. ASSUME NEW d \in Dispatchers, ClaimFails(d) \/ Crash(d) PROVE HeldInv'
  <2>1. PICK to \in {"wait", "down"} : loop' = [loop EXCEPT ![d] = to]
    BY <1>8, LoseFacts
  <2>2. /\ cand' = [cand EXCEPT ![d] = {}]
        /\ batch' = [batch EXCEPT ![d] = {}]
        /\ entry' = [entry EXCEPT ![d] = NoEntry]
        /\ Copied(d)' = {}
    BY <1>8, LoseFacts
  <2>3. \A x \in Dispatchers \ {d} : Copied(x)' = Copied(x)
    BY <1>8, LoseFacts
  <2> QED
    BY <1>0, <2>1, <2>2, <2>3
<1>9. CASE Tick
  <2>1. (\A x \in Dispatchers : Copied(x)' = Copied(x)) /\ UNCHANGED <<loop, cand, batch, entry>>
    BY <1>9, TickFacts
  <2> QED
    BY <1>0, <2>1
<1>10. CASE UNCHANGED sqlVars
  BY <1>10 DEF sqlVars, rowVars, loopVars, Copied, Held, Kept
<1> QED
  BY <1>1, <1>2, <1>3, <1>4, <1>5, <1>6, <1>7, <1>8, <1>9, <1>10, Steps

(* A key that is taken stays taken.                                        *)
LEMMA TakenStays ==
  ASSUME TypeInv, HeldInv, [SqlNext]_sqlVars, NEW e \in Envelopes, KeyTaken(e)
  PROVE  KeyTaken(e)'
BY KeptGrows DEF KeyTaken

LEMMA SaveStepKeeps == TypeInv /\ HeldInv /\ SaveInv /\ [SqlNext]_sqlVars => SaveInv'
<1> SUFFICES ASSUME TypeInv, HeldInv, SaveInv, [SqlNext]_sqlVars PROVE SaveInv'
  OBVIOUS
<1>0. Kept \subseteq Kept' /\ \A e \in Envelopes : KeyTaken(e) => KeyTaken(e)'
  BY KeptGrows, TakenStays
<1>a. faults \in Nat /\ faults' \in Nat
  BY TypeStep, SqlAssumption DEF TypeInv, SqlTypeOK
<1> USE SqlAssumption DEF TypeInv, SqlTypeOK, SaveInv
<1>1. ASSUME UNCHANGED <<save, Kept>>, faults' >= faults PROVE SaveInv'
  BY <1>0, <1>a, <1>1
<1>2. ASSUME NEW e \in Envelopes, SaveStep(e) PROVE SaveInv'
  <2>1. ASSUME NEW x \in Envelopes, x # e PROVE save'[x] = save[x] /\ (x \in Kept' <=> x \in Kept)
    BY SMTT(30), <1>2, <2>1, SaveFacts DEF Kept
  <2>2. faults' >= faults
    BY <1>2, SaveFacts
  <2>3. /\ save'[e] = "none" => e \notin Kept'
        /\ save'[e] = "insert" /\ IdempotencyKey[e] = NoKey => e \notin Kept' \/ faults' > 0
        /\ save'[e] = "recheck" => IdempotencyKey[e] # NoKey /\ (KeyTaken(e)' \/ faults' > 0)
        /\ save'[e] = "saved" => e \in Kept'
        /\ save'[e] = "duplicate" => KeyTaken(e)'
        /\ save'[e] = "error" => faults' > 0
    <3>1. CASE SaveSelect(e)
      BY <1>0, <3>1 DEF SaveSelect, Step, Fault, rowVars, Kept
    <3>2. CASE SaveInsert(e)
      <4>1. Conflicts(e) /\ IdempotencyKey[e] # NoKey => KeyTaken(e)
        BY DEF Conflicts, KeyTaken, Kept
      <4>2. Conflicts(e) /\ IdempotencyKey[e] = NoKey => e \in Kept
        BY DEF Conflicts, KeyTaken
      <4>3. status'[e] = "pending" => e \in Kept'
        BY DEF Kept
      <4> QED
        BY <1>0, <3>2, <4>1, <4>2, <4>3 DEF SaveInsert, Step, Fault, AfterFailedInsert
    <3>3. CASE SaveRecheck(e)
      BY <1>0, <3>3 DEF SaveRecheck, Step, Fault
    <3> QED
      BY <1>2, <3>1, <3>2, <3>3 DEF SaveStep
  <2> QED
    BY <1>0, <1>a, <2>1, <2>2, <2>3
<1>3. ASSUME NEW d \in Dispatchers, Mark(d) PROVE SaveInv'
  <2>1. save' = save /\ faults' >= faults /\ entry[d] \in Held(d) /\ entry[d] \in Envelopes
    BY <1>3, MarkFacts
  <2>2. \A x \in Envelopes : x # entry[d] => status'[x] = status[x]
    BY <1>3 DEF Mark, MarkDelivered, MarkFailed, MarkDead, MarkFails, rowVars
  <2>3. entry[d] \in Kept
    BY <2>1 DEF HeldInv, Copied
  <2>4. Kept' = Kept
    BY <1>0, <2>2, <2>3 DEF Kept
  <2> QED
    BY <1>1, <2>1, <2>4
<1>4. ASSUME NEW d \in Dispatchers,
             \/ ClaimSelect(d) \/ ClaimRow(d) \/ TakeEntry(d) \/ Publish(d)
             \/ EndPass(d) \/ Restart(d) \/ ClaimFails(d) \/ Crash(d)
      PROVE UNCHANGED <<save, Kept>> /\ faults' >= faults
  BY <1>4 DEF ClaimSelect, ClaimRow, TakeEntry, Publish, EndPass, Restart, ClaimFails, Crash,
              Fault, rowVars, Kept
<1>5. CASE Tick \/ UNCHANGED sqlVars
  BY <1>1, <1>5 DEF Tick, sqlVars, rowVars, Kept
<1> QED
  BY <1>1, <1>2, <1>3, <1>4, <1>5, Steps

(* A copy of attempts is an old one or has just been read.                 *)
LEMMA CopyFacts ==
  ASSUME TypeInv, HeldInv, [SqlNext]_sqlVars, NEW x \in Dispatchers, NEW e \in Copied(x)'
  PROVE  /\ e \in Envelopes
         /\ \/ e \in Copied(x) /\ seen'[x][e] = seen[x][e]
            \/ seen'[x][e] = attempts[e]
<1>0. e \in Envelopes
  BY TypeStep, SqlAssumption, HeldStep DEF HeldInv, Kept
<1> DEFINE Goal == \/ e \in Copied(x) /\ seen'[x][e] = seen[x][e]
                   \/ seen'[x][e] = attempts[e]
<1> USE SqlAssumption DEF TypeInv, SqlTypeOK
<1>1. ASSUME NEW y \in Envelopes, SaveStep(y) PROVE Goal
  BY <1>1, SaveFacts DEF loopVars, Copied, Held
<1>2. ASSUME NEW d \in Dispatchers, ClaimSelect(d) PROVE Goal
  <2>1. PICK c \in SUBSET Envelopes :
          /\ seen' = [seen EXCEPT ![d] = [y \in Envelopes |-> IF y \in c THEN attempts[y] ELSE 0]]
          /\ Copied(d)' = c
          /\ \A y \in Dispatchers \ {d} : Copied(y)' = Copied(y)
    BY <1>2, SelectFacts
  <2>2. CASE x = d
    BY <1>0, <2>1, <2>2
  <2>3. CASE x # d
    BY <2>1, <2>3
  <2> QED
    BY <2>2, <2>3
<1>3. ASSUME NEW d \in Dispatchers, ClaimRow(d) PROVE Goal
  <2>1. PICK y \in cand[d] :
          /\ cand' = [cand EXCEPT ![d] = @ \ {y}]
          /\ \/ Held(d)' = Held(d) \cup {y} /\ UNCHANGED seen
             \/ /\ seen' = [seen EXCEPT ![d] = [seen[d] EXCEPT ![y] = 0]]
                /\ Held(d)' = Held(d)
          /\ \A z \in Dispatchers \ {d} : Copied(z)' = Copied(z)
          /\ UNCHANGED entry
    BY <1>3, RowFacts
  <2>2. CASE x # d
    BY <2>1, <2>2
  <2>3. CASE x = d
    <3>1. e \in Copied(x)
      BY <2>1, <2>3 DEF Copied
    <3>2. CASE e # y
      BY <1>0, <2>1, <2>3, <3>1, <3>2
    <3>3. CASE e = y
      <4>1. y \notin Held(d)
        BY DEF HeldInv, Held, EntryOK, Busy
      <4>2. y \in Held(d)'
        BY <2>1, <2>3, <3>3 DEF Copied
      <4> QED
        BY <2>1, <2>3, <3>1, <4>1, <4>2
    <3> QED
      BY <3>2, <3>3
  <2> QED
    BY <2>2, <2>3
<1>4. ASSUME NEW d \in Dispatchers,
             TakeEntry(d) \/ Publish(d) \/ EndPass(d) \/ Restart(d)
      PROVE Goal
  <2>1. Copied(x)' = Copied(x) /\ seen' = seen
    BY <1>4, TakeFacts, PublishFacts, IdleFacts
  <2> QED
    BY <2>1
<1>5. ASSUME NEW d \in Dispatchers, Mark(d) PROVE Goal
  <2>1. seen'[x][e] = IF x = d /\ e = entry[d] THEN 0 ELSE seen[x][e]
    BY <1>0, <1>5, MarkFacts
  <2>2. Copied(x)' = IF x = d THEN Copied(d) \ {entry[d]} ELSE Copied(x)
    BY <1>5, MarkFacts
  <2> QED
    BY <2>1, <2>2
<1>6. ASSUME NEW d \in Dispatchers, ClaimFails(d) \/ Crash(d) PROVE Goal
  <2>1. x # d
    BY <1>6, LoseFacts
  <2>2. Copied(x)' = Copied(x) /\ seen' = [seen EXCEPT ![d] = [y \in Envelopes |-> 0]]
    BY <1>6, <2>1, LoseFacts
  <2> QED
    BY <2>1, <2>2
<1>7. ASSUME Tick PROVE Goal
  <2>1. Copied(x)' = Copied(x) /\ seen' = seen
    BY <1>7, TickFacts
  <2> QED
    BY <2>1
<1>8. CASE UNCHANGED sqlVars
  BY <1>8 DEF sqlVars, loopVars, Copied, Held
<1>9. Goal
  BY <1>1, <1>2, <1>3, <1>4, <1>5, <1>6, <1>7, <1>8, Steps
<1> QED
  BY <1>0, <1>9

(* Only MarkFailed counts.                                                 *)
LEMMA AttemptsFacts ==
  ASSUME [SqlNext]_sqlVars
  PROVE  \/ UNCHANGED attempts
         \/ \E d \in Dispatchers :
              MarkFailed(d) /\ attempts' = [attempts EXCEPT ![entry[d]] = @ + 1]
BY DEF SqlNext, SaveStep, SaveSelect, SaveInsert, SaveRecheck, Run, ClaimSelect, ClaimRow,
       TakeEntry, EndPass, Publish, MarkDelivered, MarkFailed, MarkDead, MarkFails, Restart,
       ClaimFails, Crash, Tick, sqlVars, rowVars

(* A dispatcher is moved by its own steps only, and gets to work on an     *)
(* entry by taking it and trying it.                                       *)
LEMMA OwnSteps ==
  ASSUME TypeInv, HeldInv, [SqlNext]_sqlVars, NEW x \in Dispatchers
  PROVE  \/ loop'[x] = loop[x] /\ entry'[x] = entry[x] /\ seen'[x] = seen[x]
         \/ loop'[x] \notin Busy
         \/ TakeEntry(x)
         \/ Publish(x)
<1> DEFINE Still == loop'[x] = loop[x] /\ entry'[x] = entry[x] /\ seen'[x] = seen[x]
<1> USE SqlAssumption DEF TypeInv, SqlTypeOK, EntryOK, Busy
<1>1. ASSUME NEW d \in Dispatchers, x # d,
             \/ ClaimSelect(d) \/ ClaimRow(d) \/ TakeEntry(d) \/ Publish(d) \/ Mark(d)
             \/ EndPass(d) \/ Restart(d) \/ ClaimFails(d) \/ Crash(d)
      PROVE  Still
  <2>1. CASE ClaimSelect(d) \/ Publish(d) \/ EndPass(d) \/ Restart(d)
    BY <1>1, <2>1 DEF ClaimSelect, Publish, EndPass, Restart
  <2>2. CASE ClaimRow(d)
    BY <1>1, <2>2, RowFacts
  <2>3. CASE TakeEntry(d)
    BY <1>1, <2>3, TakeFacts
  <2>4. CASE Mark(d)
    BY <1>1, <2>4 DEF Mark, MarkDelivered, MarkFailed, MarkDead, MarkFails, NextEntry
  <2>5. CASE ClaimFails(d) \/ Crash(d)
    BY <1>1, <2>5 DEF ClaimFails, Crash, Forget
  <2> QED
    BY <1>1, <2>1, <2>2, <2>3, <2>4, <2>5
<1>2. ASSUME \/ ClaimSelect(x) \/ ClaimRow(x) \/ Mark(x) \/ EndPass(x) \/ Restart(x)
             \/ ClaimFails(x) \/ Crash(x)
      PROVE  loop'[x] \notin Busy
  <2>1. CASE ClaimSelect(x) \/ EndPass(x) \/ Restart(x)
    BY <2>1 DEF ClaimSelect, EndPass, Restart
  <2>2. CASE ClaimRow(x)
    <3>1. loop'[x] \in {"claim", "check"}
      BY <2>2 DEF ClaimRow
    <3> QED
      BY <3>1
  <2>3. CASE Mark(x)
    BY <2>3, MarkFacts
  <2>4. CASE ClaimFails(x) \/ Crash(x)
    <3>1. loop'[x] \in {"wait", "down"}
      BY <2>4 DEF ClaimFails, Crash
    <3> QED
      BY <3>1
  <2> QED
    BY <1>2, <2>1, <2>2, <2>3, <2>4
<1>3. ASSUME \/ \E e \in Envelopes : SaveStep(e)
             \/ Tick
             \/ UNCHANGED sqlVars
      PROVE  Still
  <2>1. UNCHANGED <<loop, entry, seen>>
    BY <1>3, SaveFacts DEF Tick, sqlVars, loopVars
  <2> QED
    BY <2>1
<1> HIDE DEF Still, Busy
<1>4. Still \/ loop'[x] \notin Busy \/ TakeEntry(x) \/ Publish(x)
  BY <1>1, <1>2, <1>3, Steps
<1> QED
  BY <1>4 DEF Still

LEMMA SeenStep == TypeInv /\ HeldInv /\ SeenInv /\ [SqlNext]_sqlVars => SeenInv'
<1> SUFFICES ASSUME TypeInv, HeldInv, SeenInv, [SqlNext]_sqlVars,
                    NEW x \in Dispatchers
             PROVE  /\ \A e \in Copied(x)' : seen'[x][e] <= attempts'[e]
                    /\ loop'[x] = "park" => seen'[x][entry'[x]] >= MaxRetries
                    /\ loop'[x] \in {"publish", "confirm", "retry"} =>
                         seen'[x][entry'[x]] < MaxRetries
  BY DEF SeenInv
<1> USE SqlAssumption DEF TypeInv, SqlTypeOK, EntryOK, Busy
<1>1. ASSUME NEW e \in Copied(x)' PROVE seen'[x][e] <= attempts'[e]
  <2>0. e \in Envelopes /\ attempts[e] \in Nat
    BY CopyFacts
  <2>1. seen'[x][e] <= attempts[e]
    BY SMTT(30), <2>0, CopyFacts DEF SeenInv
  <2>2. attempts'[e] \in Nat /\ attempts'[e] >= attempts[e]
    BY SMTT(30), <2>0, AttemptsFacts
  <2>3. seen'[x][e] \in Nat
    BY <2>0, TypeStep
  <2> QED
    BY <2>0, <2>1, <2>2, <2>3
<1> DEFINE Decided == /\ loop'[x] = "park" => seen'[x][entry'[x]] >= MaxRetries
                      /\ loop'[x] \in {"publish", "confirm", "retry"} =>
                           seen'[x][entry'[x]] < MaxRetries
<1>2. CASE loop'[x] = loop[x] /\ entry'[x] = entry[x] /\ seen'[x] = seen[x]
  BY <1>1, <1>2 DEF SeenInv
<1>3. CASE loop'[x] \notin Busy
  BY <1>1, <1>3
<1>4. ASSUME TakeEntry(x) PROVE Decided
  <2>1. PICK e \in batch[x] :
          /\ entry' = [entry EXCEPT ![x] = e]
          /\ loop' = [loop EXCEPT ![x] = IF seen[x][e] < MaxRetries THEN "publish" ELSE "park"]
          /\ UNCHANGED seen
    BY <1>4, TakeFacts
  <2>2. e \in Envelopes
    OBVIOUS
  <2> QED
    BY <2>1, <2>2
<1>5. ASSUME Publish(x) PROVE Decided
  <2>1. PICK to \in {"confirm", "retry"} : loop' = [loop EXCEPT ![x] = to]
    BY <1>5, PublishFacts
  <2>2. loop[x] = "publish" /\ UNCHANGED <<entry, seen>>
    BY <1>5, PublishFacts
  <2> QED
    BY <2>1, <2>2 DEF SeenInv
<1> QED
  BY <1>1, <1>2, <1>3, <1>4, <1>5, OwnSteps

(* The history of acceptances only grows.                                  *)
LEMMA SendsFacts ==
  ASSUME [SqlNext]_sqlVars
  PROVE  \/ UNCHANGED sends
         \/ \E d \in Dispatchers :
              Publish(d) /\ sends' = [sends EXCEPT ![entry[d]] = IF @ = 0 THEN 1 ELSE 2]
BY DEF SqlNext, SaveStep, SaveSelect, SaveInsert, SaveRecheck, Run, ClaimSelect, ClaimRow,
       TakeEntry, EndPass, Publish, MarkDelivered, MarkFailed, MarkDead, MarkFails, Restart,
       ClaimFails, Crash, Tick, sqlVars, NextEntry

(* A row changes by an INSERT, or by a mark of a dispatcher that is on it. *)
LEMMA StatusFacts ==
  ASSUME [SqlNext]_sqlVars
  PROVE  \/ UNCHANGED status
         \/ \E e \in Envelopes : /\ SaveInsert(e) /\ ~Conflicts(e)
                                 /\ status' = [status EXCEPT ![e] = "pending"]
         \/ \E d \in Dispatchers :
              \/ MarkDelivered(d) /\ status' = [status EXCEPT ![entry[d]] = "delivered"]
              \/ MarkDead(d) /\ status' = [status EXCEPT ![entry[d]] = "dead"]
BY DEF SqlNext, SaveStep, SaveSelect, SaveInsert, SaveRecheck, Run, ClaimSelect, ClaimRow,
       TakeEntry, EndPass, Publish, MarkDelivered, MarkFailed, MarkDead, MarkFails, Restart,
       ClaimFails, Crash, Tick, sqlVars, rowVars

LEMMA CauseStep ==
  TypeInv /\ HeldInv /\ SeenInv /\ CauseInv /\ [SqlNext]_sqlVars => CauseInv'
<1> SUFFICES ASSUME TypeInv, HeldInv, SeenInv, CauseInv, [SqlNext]_sqlVars PROVE CauseInv'
  OBVIOUS
<1> USE SqlAssumption DEF TypeInv, SqlTypeOK, EntryOK, Busy
<1>1. \A e \in Envelopes : sends[e] > 0 => sends'[e] > 0
  BY SendsFacts
<1>2. \A e \in Envelopes : attempts[e] >= MaxRetries => attempts'[e] >= MaxRetries
  <2> SUFFICES ASSUME NEW e \in Envelopes, attempts[e] >= MaxRetries
               PROVE  attempts'[e] >= MaxRetries
    OBVIOUS
  <2>1. CASE UNCHANGED attempts
    BY <2>1
  <2>2. ASSUME NEW d \in Dispatchers, attempts' = [attempts EXCEPT ![entry[d]] = @ + 1]
        PROVE  attempts'[e] \in {attempts[e], attempts[e] + 1}
    BY <2>2
  <2>3. attempts[e] \in Nat
    OBVIOUS
  <2> QED
    BY <2>1, <2>2, <2>3, AttemptsFacts
<1>3. ASSUME NEW x \in Dispatchers, loop'[x] = "confirm" PROVE sends'[entry'[x]] > 0
  <2>1. CASE loop'[x] = loop[x] /\ entry'[x] = entry[x]
    BY <1>1, <1>3, <2>1 DEF CauseInv
  <2>2. CASE TakeEntry(x)
    BY <1>3, <2>2, TakeFacts
  <2>3. CASE Publish(x)
    BY SMTT(30), <1>3, <2>3, PublishFacts
  <2> QED
    BY <1>3, <2>1, <2>2, <2>3, OwnSteps
<1>4. ASSUME NEW e \in Envelopes
      PROVE  /\ status'[e] = "delivered" => sends'[e] > 0
             /\ status'[e] = "dead" => attempts'[e] >= MaxRetries
  <2>1. CASE status'[e] = status[e] \/ status'[e] = "pending"
    BY <1>1, <1>2, <2>1 DEF CauseInv
  <2>2. ASSUME NEW d \in Dispatchers, MarkDelivered(d), e = entry[d] PROVE sends'[e] > 0
    BY <1>1, <2>2 DEF MarkDelivered, CauseInv
  <2>3. ASSUME NEW d \in Dispatchers, MarkDead(d), e = entry[d] PROVE attempts'[e] >= MaxRetries
    <3>1. e \in Copied(d) /\ loop[d] = "park"
      BY <2>3 DEF MarkDead, Copied, Held
    <3>2. seen[d][e] <= attempts[e] /\ seen[d][e] >= MaxRetries
      BY <2>3, <3>1 DEF SeenInv
    <3>3. seen[d][e] \in Nat /\ attempts[e] \in Nat
      OBVIOUS
    <3> QED
      BY <1>2, <3>2, <3>3
  <2> QED
    BY <2>1, <2>2, <2>3, StatusFacts
<1> QED
  BY <1>3, <1>4 DEF CauseInv

(* The budget of one event survives a step that leaves it untried before   *)
(* its limit, adds no stale copy, or uses one up.                          *)
LEMMA BudgetKept ==
  ASSUME TypeInv, TypeInv', BudgetInv, NEW e \in Envelopes,
         \/ attempts'[e] < MaxRetries
         \/ attempts'[e] = attempts[e] /\ Stale(e)' \subseteq Stale(e)
         \/ \E d \in Stale(e) : /\ attempts'[e] = attempts[e] + 1
                               /\ Stale(e)' \subseteq Stale(e) \ {d}
  PROVE  attempts'[e] + Cardinality(Stale(e)') <= MaxRetries + Cardinality(Dispatchers) - 1
<1> USE SqlAssumption DEF TypeInv, SqlTypeOK
<1>1. IsFiniteSet(Stale(e)) /\ IsFiniteSet(Stale(e)') /\ Stale(e)' \subseteq Dispatchers
  BY FS_Subset DEF Stale
<1>2. /\ Cardinality(Stale(e)) \in Nat /\ Cardinality(Stale(e)') \in Nat
      /\ Cardinality(Dispatchers) \in Nat
      /\ Cardinality(Stale(e)') <= Cardinality(Dispatchers)
  BY <1>1, FS_CardinalityType, FS_Subset
<1>3. attempts[e] + Cardinality(Stale(e)) <= MaxRetries + Cardinality(Dispatchers) - 1
  BY DEF BudgetInv
<1>4. attempts[e] \in Nat /\ attempts'[e] \in Nat
  OBVIOUS
<1>5. CASE attempts'[e] < MaxRetries
  BY <1>2, <1>4, <1>5
<1>6. CASE attempts'[e] = attempts[e] /\ Stale(e)' \subseteq Stale(e)
  <2>1. Cardinality(Stale(e)') <= Cardinality(Stale(e))
    BY <1>1, <1>6, FS_Subset
  <2> QED
    BY <1>2, <1>3, <1>4, <1>6, <2>1
<1>7. ASSUME NEW d \in Stale(e), attempts'[e] = attempts[e] + 1,
             Stale(e)' \subseteq Stale(e) \ {d}
      PROVE attempts'[e] + Cardinality(Stale(e)') <= MaxRetries + Cardinality(Dispatchers) - 1
  <2>1. IsFiniteSet(Stale(e) \ {d}) /\ Cardinality(Stale(e) \ {d}) = Cardinality(Stale(e)) - 1
    BY <1>1, FS_RemoveElement
  <2>2. Cardinality(Stale(e)') <= Cardinality(Stale(e)) - 1
    BY <1>7, <2>1, FS_Subset
  <2> QED
    BY <1>2, <1>3, <1>4, <1>7, <2>2
<1> QED
  BY <1>5, <1>6, <1>7

LEMMA BudgetStep ==
  TypeInv /\ HeldInv /\ SeenInv /\ BudgetInv /\ [SqlNext]_sqlVars => BudgetInv'
<1> SUFFICES ASSUME TypeInv, HeldInv, SeenInv, BudgetInv, [SqlNext]_sqlVars,
                    NEW e \in Envelopes
             PROVE  attempts'[e] + Cardinality(Stale(e)')
                      <= MaxRetries + Cardinality(Dispatchers) - 1
  BY DEF BudgetInv
<1>0. TypeInv'
  BY TypeStep
<1> SUFFICES \/ attempts'[e] < MaxRetries
             \/ attempts'[e] = attempts[e] /\ Stale(e)' \subseteq Stale(e)
             \/ \E d \in Stale(e) : /\ attempts'[e] = attempts[e] + 1
                                   /\ Stale(e)' \subseteq Stale(e) \ {d}
  BY <1>0, BudgetKept
<1> USE SqlAssumption DEF TypeInv, SqlTypeOK
<1>1. ASSUME attempts[e] >= MaxRetries PROVE Stale(e)' \subseteq Stale(e)
  <2> SUFFICES ASSUME NEW x \in Dispatchers, e \in Copied(x)', seen'[x][e] < MaxRetries
               PROVE  e \in Copied(x) /\ seen[x][e] < MaxRetries
    BY DEF Stale
  <2>1. seen'[x][e] # attempts[e]
    BY <1>1
  <2> QED
    BY <2>1, CopyFacts
<1>2. CASE attempts'[e] = attempts[e]
  BY <1>1, <1>2
<1>3. ASSUME NEW d \in Dispatchers, MarkFailed(d), e = entry[d], attempts'[e] = attempts[e] + 1
      PROVE  \/ attempts'[e] < MaxRetries
             \/ /\ d \in Stale(e) /\ Stale(e)' \subseteq Stale(e) \ {d}
  <2>1. d \in Stale(e)
    BY <1>3 DEF MarkFailed, Stale, Copied, Held, SeenInv
  <2>2. e \notin Copied(d)'
    BY <1>3, MarkFacts DEF Mark
  <2>3. d \notin Stale(e)'
    BY <2>2 DEF Stale
  <2>4. ASSUME NEW x \in Dispatchers, x \in Stale(e)' PROVE x \in Stale(e)
    <3>1. x # d /\ e \in Copied(x)' /\ seen'[x][e] < MaxRetries
      BY <2>3, <2>4 DEF Stale
    <3>2. Copied(x)' = Copied(x) /\ seen'[x][e] = seen[x][e]
      BY <1>3, <3>1, MarkFacts DEF Mark
    <3> QED
      BY <3>1, <3>2 DEF Stale
  <2> QED
    BY <2>1, <2>3, <2>4 DEF Stale
<1> QED
  BY <1>2, <1>3, AttemptsFacts

(* What is sole stays so when no one begins to hold the event, those who   *)
(* still hold it keep their lease, and its acceptance is on record.        *)
LEMMA SoleKept ==
  ASSUME NEW e \in Envelopes, Sole(e),
         \A x \in Dispatchers : e \in Held(x)' =>
           e \in Held(x) /\ lease'[e] > 0 /\ status'[e] = "pending",
         sends' = sends,
         status[e] = "delivered" => status'[e] = "delivered",
         \A x \in Dispatchers : loop[x] = "confirm" /\ entry[x] = e =>
           (loop'[x] = "confirm" /\ entry'[x] = e) \/ status'[e] = "delivered"
  PROVE  Sole(e)'
BY DEF Sole

LEMMA SoleStep == TypeInv /\ HeldInv /\ SoleInv /\ [SqlNext]_sqlVars => SoleInv'
<1> SUFFICES ASSUME TypeInv, HeldInv, SoleInv, [SqlNext]_sqlVars,
                    NEW e \in Envelopes, e \notin blurred'
             PROVE  Sole(e)'
  BY DEF SoleInv
<1>a. blurred \subseteq blurred'
  BY RowFacts, LoseFacts, MarkFacts, TickFacts, SaveFacts, SelectFacts, TakeFacts,
     IdleFacts, PublishFacts, Steps DEF sqlVars
<1>b. Sole(e)
  BY <1>a DEF SoleInv
<1>c. \A x \in Dispatchers : loop[x] = "confirm" /\ entry[x] = e => e \in Held(x)
  BY SqlAssumption DEF Held
<1> USE SqlAssumption DEF TypeInv, SqlTypeOK, EntryOK, Busy
<1>1. ASSUME NEW y \in Envelopes, SaveStep(y) PROVE Sole(e)'
  <2>1. UNCHANGED <<lease, loopVars, sends>>
    BY <1>1, SaveFacts
  <2>2. \A x \in Dispatchers : Held(x)' = Held(x)
    BY <2>1 DEF loopVars, Held
  <2>3. status'[e] = status[e] \/ (status[e] = "absent" /\ status'[e] = "pending")
    BY <1>1, SaveFacts DEF Conflicts, Kept
  <2> QED
    BY <1>b, <2>1, <2>2, <2>3, SoleKept DEF loopVars, Sole
<1>2. ASSUME NEW d \in Dispatchers, ClaimSelect(d) PROVE Sole(e)'
  <2>1. /\ loop[d] = "wait" /\ loop' = [loop EXCEPT ![d] = "claim"]
        /\ UNCHANGED <<status, lease, entry, sends>>
    BY <1>2, SelectFacts DEF rowVars
  <2>2. \A x \in Dispatchers : Held(x)' = Held(x)
    BY <1>2, SelectFacts
  <2> QED
    BY <1>b, <2>1, <2>2, SoleKept DEF Sole
<1>3. ASSUME NEW d \in Dispatchers, ClaimRow(d) PROVE Sole(e)'
  <2>1. PICK y \in cand[d] :
          /\ y \in Envelopes /\ loop[d] = "claim"
          /\ loop' = [loop EXCEPT ![d] = IF cand[d] = {y} THEN "check" ELSE "claim"]
          /\ \/ /\ status[y] = "pending" /\ lease[y] <= 0
                /\ lease' = [lease EXCEPT ![y] = Lease(d)]
                /\ Held(d)' = Held(d) \cup {y}
                /\ Lease(d) > 0 \/ y \in blurred'
             \/ Held(d)' = Held(d) /\ UNCHANGED lease
          /\ \A x \in Dispatchers \ {d} : Held(x)' = Held(x)
          /\ UNCHANGED <<status, entry, sends>>
    BY <1>3, RowFacts
  <2>2. ASSUME NEW x \in Dispatchers, loop[x] = "confirm" PROVE loop'[x] = "confirm"
    BY <2>1, <2>2
  <2>3. CASE /\ y = e
             /\ status[y] = "pending" /\ lease[y] <= 0
             /\ lease' = [lease EXCEPT ![y] = Lease(d)]
             /\ Held(d)' = Held(d) \cup {y}
             /\ Lease(d) > 0 \/ y \in blurred'
    <3>1. \A x \in Dispatchers : e \notin Held(x)
      BY <1>b, <2>3 DEF Sole
    <3>2. sends[e] < 2 /\ sends[e] # 1
      BY <1>b, <1>c, <2>3, <3>1 DEF Sole
    <3>3. lease'[e] > 0 /\ status'[e] = "pending"
      BY <2>1, <2>3
    <3>4. \A x \in Dispatchers : e \in Held(x)' => x = d
      BY <2>1, <3>1
    <3> QED
      BY <2>1, <3>2, <3>3, <3>4 DEF Sole
  <2>4. CASE \/ Held(d)' = Held(d) /\ UNCHANGED lease
             \/ /\ y # e /\ Held(d)' = Held(d) \cup {y}
                /\ lease' = [lease EXCEPT ![y] = Lease(d)]
    <3>1. lease'[e] = lease[e]
      BY <2>1, <2>4
    <3>2. \A x \in Dispatchers : e \in Held(x)' => e \in Held(x)
      BY SMTT(30), <2>1, <2>4
    <3> QED
      BY <1>b, <2>1, <2>2, <3>1, <3>2, SoleKept DEF Sole
  <2> QED
    BY <2>1, <2>3, <2>4
<1>4. ASSUME NEW d \in Dispatchers, TakeEntry(d) PROVE Sole(e)'
  <2>1. PICK y \in batch[d] :
          /\ loop[d] = "check"
          /\ entry' = [entry EXCEPT ![d] = y]
          /\ loop' = [loop EXCEPT ![d] = IF seen[d][y] < MaxRetries THEN "publish" ELSE "park"]
          /\ \A x \in Dispatchers : Held(x)' = Held(x)
          /\ UNCHANGED <<status, lease, sends>>
    BY <1>4, TakeFacts DEF rowVars
  <2>2. ASSUME NEW x \in Dispatchers, loop[x] = "confirm", entry[x] = e
        PROVE loop'[x] = "confirm" /\ entry'[x] = e
    BY <2>1, <2>2
  <2> QED
    BY <1>b, <2>1, <2>2, SoleKept DEF Sole
<1>5. ASSUME NEW d \in Dispatchers, Publish(d) PROVE Sole(e)'
  <2>1. /\ loop[d] = "publish" /\ entry[d] \in Envelopes /\ entry[d] \in Held(d)
        /\ UNCHANGED <<status, lease, entry>>
    BY <1>5, PublishFacts DEF rowVars
  <2>2. \A x \in Dispatchers : Held(x)' = Held(x)
    BY <1>5, PublishFacts
  <2>3. PICK to \in {"confirm", "retry"} : loop' = [loop EXCEPT ![d] = to]
    BY <1>5, PublishFacts
  <2>4. ASSUME NEW x \in Dispatchers, loop[x] = "confirm" PROVE loop'[x] = "confirm"
    BY <2>1, <2>3, <2>4
  <2>5. CASE UNCHANGED sends
    BY <1>b, <2>1, <2>2, <2>4, <2>5, SoleKept DEF Sole
  <2>6. CASE /\ loop' = [loop EXCEPT ![d] = "confirm"]
             /\ sends' = [sends EXCEPT ![entry[d]] = IF @ = 0 THEN 1 ELSE 2]
    <3>1. CASE e = entry[d]
      <4>1. sends[e] = 0
        BY <1>b, <1>c, <2>1, <3>1 DEF Sole
      <4>2. sends'[e] = 1 /\ loop'[d] = "confirm" /\ entry'[d] = e
        BY <2>1, <2>6, <3>1, <4>1
      <4> QED
        BY <1>b, <2>1, <2>2, <4>2 DEF Sole
    <3>2. CASE e # entry[d]
      <4>1. sends'[e] = sends[e]
        BY <2>1, <2>6, <3>2
      <4> QED
        BY <1>b, <2>1, <2>2, <2>4, <4>1 DEF Sole
    <3> QED
      BY <3>1, <3>2
  <2> QED
    BY <1>5, <2>5, <2>6, PublishFacts
<1>6. ASSUME NEW d \in Dispatchers, Mark(d) PROVE Sole(e)'
  <2>1. /\ entry[d] \in Envelopes /\ entry[d] \in Held(d)
        /\ entry' = [entry EXCEPT ![d] = NoEntry]
        /\ loop' = [loop EXCEPT ![d] = "check"]
        /\ sends' = sends
    BY <1>6, MarkFacts
  <2>2. ASSUME NEW x \in Dispatchers
        PROVE  Held(x)' = IF x = d THEN Held(d) \ {entry[d]} ELSE Held(x)
    BY <1>6, MarkFacts
  <2>3. ASSUME NEW x \in Dispatchers, e \in Held(x)'
        PROVE  e \in Held(x) /\ e # entry[d]
    BY SMTT(30), <1>b, <2>1, <2>2, <2>3 DEF Sole
  <2>4. e # entry[d] => status'[e] = status[e] /\ lease'[e] = lease[e]
    BY <1>6 DEF Mark, MarkDelivered, MarkFailed, MarkDead, MarkFails, rowVars
  <2>5. e = entry[d] => status[e] = "pending"
    BY <1>b, <2>1 DEF Sole
  <2>6. loop[d] = "confirm" /\ entry[d] = e => status'[e] = "delivered"
    BY <1>6 DEF Mark, MarkDelivered, MarkFailed, MarkDead, MarkFails
  <2>7. ASSUME NEW x \in Dispatchers, x # d, loop[x] = "confirm", entry[x] = e
        PROVE loop'[x] = "confirm" /\ entry'[x] = e
    BY <2>1, <2>7
  <2>8. ASSUME NEW x \in Dispatchers, e \in Held(x)' PROVE lease'[e] > 0 /\ status'[e] = "pending"
    BY <1>b, <2>3, <2>4, <2>8 DEF Sole
  <2> QED
    BY <1>b, <2>1, <2>3, <2>4, <2>5, <2>6, <2>7, <2>8, SoleKept
<1>7. ASSUME NEW d \in Dispatchers, EndPass(d) \/ Restart(d) PROVE Sole(e)'
  <2>1. /\ loop[d] \in {"check", "down"} /\ loop' = [loop EXCEPT ![d] = "wait"]
        /\ UNCHANGED <<status, lease, entry, sends>>
    BY <1>7, IdleFacts DEF rowVars
  <2>2. \A x \in Dispatchers : Held(x)' = Held(x)
    BY <1>7, IdleFacts
  <2>3. ASSUME NEW x \in Dispatchers, loop[x] = "confirm" PROVE loop'[x] = "confirm"
    BY <2>1, <2>3
  <2> QED
    BY <1>b, <2>1, <2>2, <2>3, SoleKept DEF Sole
<1>8. ASSUME NEW d \in Dispatchers, ClaimFails(d) \/ Crash(d) PROVE Sole(e)'
  <2>1. PICK to \in {"wait", "down"} : loop' = [loop EXCEPT ![d] = to]
    BY <1>8, LoseFacts
  <2>2. /\ loop[d] = "confirm" => entry[d] \in blurred'
        /\ entry' = [entry EXCEPT ![d] = NoEntry]
        /\ lease'[e] = lease[e] \/ lease[e] <= 0
        /\ Copied(d)' = {}
        /\ UNCHANGED <<status, sends>>
    BY <1>8, LoseFacts
  <2>3. ASSUME NEW x \in Dispatchers, e \in Held(x)' PROVE e \in Held(x)
    BY <1>8, <2>2, <2>3, LoseFacts DEF Copied
  <2>4. ASSUME NEW x \in Dispatchers, loop[x] = "confirm", entry[x] = e
        PROVE loop'[x] = "confirm" /\ entry'[x] = e
    BY <2>1, <2>2, <2>4
  <2>5. ASSUME NEW x \in Dispatchers, e \in Held(x)' PROVE lease'[e] > 0 /\ status'[e] = "pending"
    BY <1>b, <2>2, <2>3, <2>5 DEF Sole
  <2> QED
    BY <1>b, <2>2, <2>3, <2>4, <2>5, SoleKept
<1>9. CASE Tick
  <2>1. UNCHANGED <<status, loop, entry, sends>>
    BY <1>9, TickFacts
  <2>2. \A x \in Dispatchers : Held(x)' = Held(x)
    BY <1>9, TickFacts
  <2>3. ASSUME NEW x \in Dispatchers, e \in Held(x)' PROVE lease'[e] > 0
    BY <1>9, <1>b, <2>2, <2>3, TickFacts DEF Sole
  <2> QED
    BY <1>b, <2>1, <2>2, <2>3, SoleKept DEF Sole
<1>10. CASE UNCHANGED sqlVars
  BY <1>b, <1>10 DEF Sole, Held, sqlVars, rowVars, loopVars
<1> QED
  BY <1>1, <1>2, <1>3, <1>4, <1>5, <1>6, <1>7, <1>8, <1>9, <1>10, Steps

-----------------------------------------------------------------------------
(* The invariant, and what it says of the properties.                      *)

LEMMA IInvInit == SqlInit => IInv
<1> SUFFICES ASSUME SqlInit PROVE IInv
  OBVIOUS
<1> USE SqlAssumption
<1>1. HeldInv /\ SaveInv /\ SeenInv /\ CauseInv /\ SoleInv
  BY DEF SqlInit, SqlInitOver, HeldInv, SaveInv, SeenInv, CauseInv, SoleInv, Sole,
         Copied, Held, Kept
<1>2. ASSUME NEW e \in Envelopes
      PROVE  attempts[e] + Cardinality(Stale(e)) <= MaxRetries + Cardinality(Dispatchers) - 1
  <2>1. Stale(e) = {} /\ attempts[e] = 0
    BY DEF SqlInit, SqlInitOver, Stale, Copied, Held
  <2>2. Cardinality(Stale(e)) = 0 /\ Cardinality(Dispatchers) \in Nat
    BY <2>1, FS_CardinalityType, FS_EmptySet
  <2> QED
    BY <2>1, <2>2
<1> QED
  BY <1>1, <1>2, TypeInit DEF IInv, BudgetInv

LEMMA IInvStep == IInv /\ [SqlNext]_sqlVars => IInv'
BY TypeStep, HeldStep, SaveStepKeeps, SeenStep, CauseStep, BudgetStep, SoleStep DEF IInv

(* The inductive invariant holds in every reachable state.                 *)
THEOREM SqlInvariant == SqlSpec => []IInv
BY IInvInit, IInvStep, PTL DEF SqlSpec

(* The compare-and-set UPDATE arbitrates between any number of processes:  *)
(* an event is held by one of them and accepted once by the inner bus,     *)
(* unless a claim lapsed or a delivered mark was lost.                     *)
THEOREM SqlOneHolder == SqlSpec => []OneHolder
<1>1. IInv => OneHolder
  BY DEF IInv, SoleInv, Sole, OneHolder
<1> QED
  BY <1>1, SqlInvariant, PTL

(* An emitter that loses the race for a key is told so, and the event of   *)
(* the winner is in the table.                                             *)
THEOREM SqlLoserToldDuplicate == SqlSpec => []LoserToldDuplicate
<1>1. IInv => LoserToldDuplicate
  BY DEF IInv, SaveInv, LoserToldDuplicate, KeyTaken
<1> QED
  BY <1>1, SqlInvariant, PTL

-----------------------------------------------------------------------------
(* The table implements Delivery.                                          *)

(* The abstract key check is the store's.                                  *)
LEMMA KeyCheck ==
  ASSUME NEW e \in Envelopes
  PROVE  /\ SqlQueue!Kept(e) <=> e \in Kept
         /\ SqlQueue!SameKeyKept(e) <=> KeyTaken(e)
BY DEF SqlQueue!Kept, SqlQueue!SameKeyKept, KeyTaken, Kept

LEMMA QueueInit == SqlInit => SqlQueue!Init
<1> SUFFICES ASSUME SqlInit PROVE SqlQueue!Init
  OBVIOUS
<1>1. \A e \in Envelopes : sends[e] = 0
  BY DEF SqlInit, SqlInitOver
<1>2. {e \in Envelopes : sends[e] > 0} = {}
  BY <1>1
<1> QED
  BY <1>2 DEF SqlInit, SqlInitOver, SqlQueue!Init

(* A failed attempt on a stale copy leaves the budget one shorter.         *)
LEMMA BudgetLeft ==
  ASSUME IInv, NEW d \in Dispatchers, MarkFailed(d)
  PROVE  /\ entry[d] \in Envelopes
         /\ attempts[entry[d]] < MaxRetries + Cardinality(Dispatchers) - 1
<1> USE SqlAssumption DEF IInv, TypeInv, SqlTypeOK, EntryOK, Busy
<1>1. entry[d] \in Envelopes /\ loop[d] = "retry"
  BY DEF MarkFailed
<1>2. d \in Stale(entry[d])
  BY <1>1 DEF Stale, Copied, Held, SeenInv
<1>3. IsFiniteSet(Stale(entry[d])) /\ IsFiniteSet(Dispatchers)
  BY FS_Subset DEF Stale
<1>4. /\ Cardinality(Stale(entry[d])) \in Nat /\ Cardinality(Stale(entry[d])) # 0
      /\ Cardinality(Dispatchers) \in Nat
  BY <1>2, <1>3, FS_CardinalityType, FS_EmptySet
<1>5. attempts[entry[d]] + Cardinality(Stale(entry[d])) <= MaxRetries + Cardinality(Dispatchers) - 1
  BY <1>1 DEF BudgetInv
<1>6. attempts[entry[d]] \in Nat
  BY <1>1
<1> HIDE DEF IInv, TypeInv, SqlTypeOK, EntryOK, Busy
<1> QED
  BY <1>1, <1>4, <1>5, <1>6

LEMMA QueueStep == IInv /\ [SqlNext]_sqlVars => [SqlQueue!Next]_(SqlQueue!vars)
<1> SUFFICES ASSUME IInv, [SqlNext]_sqlVars PROVE [SqlQueue!Next]_(SqlQueue!vars)
  OBVIOUS
<1> USE SqlAssumption DEF IInv, TypeInv, SqlTypeOK, EntryOK, Busy
<1>1. ASSUME UNCHANGED <<status, attempts, sends>> PROVE [SqlQueue!Next]_(SqlQueue!vars)
  BY <1>1 DEF SqlQueue!vars
<1>2. ASSUME NEW e \in Envelopes, SaveStep(e) PROVE [SqlQueue!Next]_(SqlQueue!vars)
  <2>1. UNCHANGED <<attempts, sends>>
    BY <1>2, SaveFacts
  <2>2. CASE UNCHANGED status
    BY <1>1, <2>1, <2>2
  <2>3. CASE ~Conflicts(e) /\ status' = [status EXCEPT ![e] = "pending"]
    <3>1. SqlQueue!Emit(e)
      BY <2>1, <2>3, KeyCheck DEF Conflicts, SqlQueue!Emit
    <3> QED
      BY <3>1 DEF SqlQueue!Next
  <2> QED
    BY <1>2, <2>2, <2>3, SaveFacts
<1>3. ASSUME NEW d \in Dispatchers, Publish(d) PROVE [SqlQueue!Next]_(SqlQueue!vars)
  <2>1. /\ entry[d] \in Envelopes /\ entry[d] \in Held(d)
        /\ UNCHANGED <<status, attempts>>
    BY <1>3, PublishFacts DEF rowVars
  <2>2. CASE UNCHANGED sends
    BY <1>1, <2>1, <2>2
  <2>3. CASE sends' = [sends EXCEPT ![entry[d]] = IF @ = 0 THEN 1 ELSE 2]
    <3>1. PICK e \in Envelopes : e = entry[d]
      BY <2>1
    <3>2. {x \in Envelopes : sends'[x] > 0} = {x \in Envelopes : sends[x] > 0} \cup {e}
      BY <2>1, <2>3, <3>1
    <3>3. e \in Kept
      BY <2>1, <3>1 DEF HeldInv, Copied
    <3>4. SqlQueue!Reach(e)
      BY <2>1, <3>2, <3>3, KeyCheck DEF SqlQueue!Reach
    <3> QED
      BY <3>4 DEF SqlQueue!Next
  <2> QED
    BY <1>3, <2>2, <2>3, PublishFacts
<1>4. ASSUME NEW d \in Dispatchers, Mark(d) PROVE [SqlQueue!Next]_(SqlQueue!vars)
  <2>1. entry[d] \in Envelopes /\ entry[d] \in Held(d) /\ sends' = sends
    BY <1>4, MarkFacts
  <2>2. SqlQueue!Kept(entry[d])
    BY <2>1, KeyCheck DEF HeldInv, Copied
  <2>3. CASE MarkDelivered(d)
    <3>1. /\ sends[entry[d]] > 0
          /\ status' = [status EXCEPT ![entry[d]] = "delivered"]
          /\ UNCHANGED attempts
      BY <2>3 DEF MarkDelivered, CauseInv
    <3>2. SqlQueue!Deliver(entry[d])
      BY <2>1, <2>2, <3>1 DEF SqlQueue!Deliver
    <3> QED
      BY <2>1, <3>2 DEF SqlQueue!Next
  <2>4. CASE MarkFailed(d)
    <3>1. attempts' = [attempts EXCEPT ![entry[d]] = @ + 1] /\ UNCHANGED status
      BY <2>4 DEF MarkFailed
    <3>2. attempts[entry[d]] < MaxRetries + Cardinality(Dispatchers) - 1
      BY <2>4, BudgetLeft
    <3>3. SqlQueue!Fail(entry[d])
      BY <2>1, <2>2, <3>1, <3>2 DEF SqlQueue!Fail
    <3> QED
      BY <2>1, <3>3 DEF SqlQueue!Next
  <2>5. CASE MarkDead(d)
    <3>1. /\ loop[d] = "park"
          /\ status' = [status EXCEPT ![entry[d]] = "dead"]
          /\ UNCHANGED attempts
      BY <2>5 DEF MarkDead
    <3>2. attempts[entry[d]] >= MaxRetries
      BY <2>1, <3>1 DEF SeenInv, Copied
    <3>3. SqlQueue!Park(entry[d])
      BY <2>1, <2>2, <3>1, <3>2 DEF SqlQueue!Park
    <3> QED
      BY <2>1, <3>3 DEF SqlQueue!Next
  <2>6. CASE MarkFails(d)
    BY <1>1, <2>1, <2>6 DEF MarkFails, rowVars
  <2> QED
    BY <1>4, <2>3, <2>4, <2>5, <2>6 DEF Mark
<1>5. ASSUME NEW d \in Dispatchers,
             \/ ClaimSelect(d) \/ ClaimRow(d) \/ TakeEntry(d) \/ EndPass(d) \/ Restart(d)
             \/ ClaimFails(d) \/ Crash(d)
      PROVE  UNCHANGED <<status, attempts, sends>>
  BY <1>5 DEF ClaimSelect, ClaimRow, TakeEntry, EndPass, Restart, ClaimFails, Crash, rowVars
<1>6. CASE Tick \/ UNCHANGED sqlVars
  BY <1>1, <1>6 DEF Tick, sqlVars, rowVars
<1> QED
  BY <1>1, <1>2, <1>3, <1>4, <1>5, <1>6, Steps

(* However many processes share the table, and whatever statements fail    *)
(* half-way, it only ever does what Delivery allows: one event per key,    *)
(* settled for cause, tried within the budget.                             *)
THEOREM SqlImplements == SqlSpec => SqlImplementsDelivery
<1>1. SqlInit => (Kept = {} => SqlQueue!Init)
  BY QueueInit
<1> QED
  BY <1>1, QueueStep, SqlInvariant, PTL DEF SqlSpec, SqlImplementsDelivery
=============================================================================

---------------------------- MODULE Outbox_proofs ----------------------------
(***************************************************************************)
(* Proofs about Outbox, for any sets of outboxes and events, any retry     *)
(* limit, batch size and claim TTL.                                        *)
(***************************************************************************)
EXTENDS Outbox, FiniteSetTheorems, TLAPS

-----------------------------------------------------------------------------
(* The helpers of the Store.                                               *)

(* The first n of S are members of S.                                      *)
LEMMA FirstNSubset == ASSUME NEW S, NEW n PROVE FirstN(S, n) \subseteq S
BY DEF FirstN

(* What a pass may claim is saved, unsettled and under no live lease.      *)
LEMMA ClaimableFacts ==
  ASSUME NEW e \in FirstN(Claimable, BatchSize)
  PROVE  e \in Envelopes /\ pos[e] > 0 /\ lease[e] = 0
         /\ e \notin delivered /\ e \notin dead
BY DEF FirstN, Claimable, Saved

(* The next position is a positive number.                                 *)
LEMMA NextPosition == Cardinality(Saved) + 1 \in Nat \ {0}
<1>1. IsFiniteSet(Saved)
  BY OutboxAssumption, FS_Subset DEF Saved
<1> QED
  BY <1>1, FS_CardinalityType

-----------------------------------------------------------------------------
(* A dispatcher is on an entry exactly from taking it to marking it.       *)
Busy == {"park", "publish", "confirm", "retry"}

EntryOK == \A o \in Outboxes : loop[o] \in Busy <=> entry[o] # NoEntry

TypeInv == TypeOK /\ EntryOK

(* Every step keeps the variables in their types.                          *)
LEMMA TypeStep == TypeInv /\ [Next]_vars => TypeInv'
<1> SUFFICES ASSUME TypeInv, [Next]_vars PROVE TypeInv'
  OBVIOUS
<1> USE OutboxAssumption DEF TypeInv, TypeOK, EntryOK, Busy, storeVars, lifeVars
<1>1. ASSUME NEW o \in Outboxes, NEW e \in Envelopes, PublishCheck(o, e)
      PROVE TypeInv'
  BY <1>1 DEF PublishCheck
<1>2. ASSUME NEW e \in Envelopes, PublishSave(e) PROVE TypeInv'
  BY <1>2, NextPosition DEF PublishSave, SaveEntry
<1>3. ASSUME NEW e \in Envelopes, PublishAbandon(e) PROVE TypeInv'
  BY <1>3 DEF PublishAbandon
<1>4. ASSUME NEW o \in Outboxes, Start(o) PROVE TypeInv'
  BY <1>4 DEF Start, LoopStates
<1>5. ASSUME NEW o \in Outboxes, StopCall(o) \/ StopCancel(o) \/ StopReturn(o)
      PROVE TypeInv'
  BY <1>5 DEF StopCall, StopCancel, StopReturn, StopStates
<1>6. ASSUME NEW o \in Outboxes, ParentCancel(o) PROVE TypeInv'
  BY <1>6 DEF ParentCancel
<1>7. ASSUME NEW o \in Outboxes, Claim(o) PROVE TypeInv'
  <2> DEFINE b == FirstN(Claimable, BatchSize)
  <2>1. b \subseteq Envelopes
    BY ClaimableFacts
  <2> QED
    BY <1>7, <2>1 DEF Claim, LoopStates
<1>8. ASSUME NEW o \in Outboxes, ClaimCancelled(o) PROVE TypeInv'
  BY <1>8 DEF ClaimCancelled, LoopStates
<1>9. ASSUME NEW o \in Outboxes, TakeEntry(o) PROVE TypeInv'
  <2>1. PICK e \in FirstN(batch[o], 1) :
          /\ entry' = [entry EXCEPT ![o] = e]
          /\ batch' = [batch EXCEPT ![o] = @ \ {e}]
          /\ loop' = [loop EXCEPT ![o] = IF seen[o][e] >= MaxRetries THEN "park"
                                         ELSE "publish"]
    BY <1>9 DEF TakeEntry
  <2>2. e \in Envelopes
    BY FirstNSubset
  <2> QED
    BY <1>9, <2>1, <2>2 DEF TakeEntry, LoopStates
<1>10. ASSUME NEW o \in Outboxes, EndPass(o) PROVE TypeInv'
  BY <1>10 DEF EndPass, LoopStates
<1>11. ASSUME NEW o \in Outboxes, Accept(o) PROVE TypeInv'
  BY <1>11 DEF Accept, LoopStates
<1>12. ASSUME NEW o \in Outboxes, Refuse(o) PROVE TypeInv'
  BY <1>12 DEF Refuse, LoopStates
<1>13. ASSUME NEW o \in Outboxes, MarkDelivered(o) \/ MarkFailed(o) \/ MarkDead(o)
       PROVE TypeInv'
  <2> USE DEF NextEntry, LoopStates
  <2>1. CASE MarkDelivered(o)
    BY <2>1 DEF MarkDelivered
  <2>2. CASE MarkFailed(o)
    BY <2>2 DEF MarkFailed
  <2>3. CASE MarkDead(o)
    BY <2>3 DEF MarkDead
  <2> QED
    BY <1>13, <2>1, <2>2, <2>3
<1>14. ASSUME NEW o \in Outboxes, MarkRefused(o) PROVE TypeInv'
  BY <1>14 DEF MarkRefused, NextEntry, LoopStates
<1>15. ASSUME NEW o \in Outboxes, Poll(o) \/ Exit(o) PROVE TypeInv'
  BY <1>15 DEF Poll, Exit, LoopStates
<1>16. CASE Tick
  BY <1>16 DEF Tick
<1>17. CASE UNCHANGED vars
  BY <1>17 DEF vars
<1> QED
  BY <1>1, <1>2, <1>3, <1>4, <1>5, <1>6, <1>7, <1>8, <1>9, <1>10, <1>11,
     <1>12, <1>13, <1>14, <1>15, <1>16, <1>17 DEF Next, Dispatch

LEMMA TypeInit == Init => TypeInv
BY OutboxAssumption DEF Init, InitOver, TypeInv, TypeOK, EntryOK, Busy,
                        LoopStates, StopStates

(* Every variable of the Store, of each Outbox and of the history stays in *)
(* its type.                                                               *)
THEOREM TypeCorrect == Spec => []TypeOK
<1>1. TypeInv => TypeOK
  BY DEF TypeInv
<1> QED
  BY <1>1, TypeInit, TypeStep, PTL DEF Spec

-----------------------------------------------------------------------------
(* The inductive invariant. A mark carries only an ID, so whether it is    *)
(* justified rests on what the dispatcher that makes it read and did       *)
(* earlier, while others moved on: the invariant ties those copies to the  *)
(* store.                                                                  *)

(* Dispatchers hold saved entries only, each once, and none between passes.*)
HeldInv ==
  \A o \in Outboxes :
    /\ \A e \in Held(o) : pos[e] > 0
    /\ entry[o] \notin batch[o]
    /\ loop[o] \in {"off", "claim", "wait", "exited"} => batch[o] = {}

(* An event without a key is in no Publish call once it is saved.          *)
EmitInv == \A e \in saving : IdempotencyKey[e] = NoKey => pos[e] = 0

(* The copies of Attempts are never ahead of the store, and decide between *)
(* another try and the dead-letter state.                                  *)
SeenInv ==
  \A o \in Outboxes :
    /\ \A e \in Held(o) : seen[o][e] <= attempts[e]
    /\ loop[o] = "park" => seen[o][entry[o]] >= MaxRetries
    /\ loop[o] \in {"publish", "confirm", "retry"} => seen[o][entry[o]] < MaxRetries

(* What settled an event, or is about to.                                  *)
CauseInv ==
  /\ \A o \in Outboxes : loop[o] = "confirm" => sends[entry[o]] > 0
  /\ \A e \in delivered : pos[e] > 0 /\ sends[e] > 0
  /\ \A e \in dead : pos[e] > 0 /\ attempts[e] >= MaxRetries

(* The dispatchers that will still try e on the strength of an old copy.   *)
Stale(e) == {o \in Outboxes : e \in Held(o) /\ seen[o][e] < MaxRetries}

BudgetInv ==
  \A e \in Envelopes :
    attempts[e] + Cardinality(Stale(e)) <= MaxRetries + Cardinality(Outboxes) - 1

(* While an event's claim has never lapsed under a holder and no mark of   *)
(* it was lost, its holder is alone, covered by the lease, and the only    *)
(* one that can have sent it.                                              *)
SoleInv ==
  \A e \in Envelopes \ blurred :
    /\ \A o \in Outboxes : e \in Held(o) => lease[e] > 0 /\ e \notin delivered
    /\ \A o, p \in Outboxes : e \in Held(o) /\ e \in Held(p) => o = p
    /\ sends[e] < 2
    /\ sends[e] = 1 => \/ e \in delivered
                       \/ \E o \in Outboxes : loop[o] = "confirm" /\ entry[o] = e

StopInv == \A o \in Outboxes : stop[o] = "done" => loop[o] \in {"off", "exited"}

IInv ==
  /\ TypeInv /\ HeldInv /\ EmitInv /\ SeenInv /\ CauseInv
  /\ BudgetInv /\ SoleInv /\ StopInv

-----------------------------------------------------------------------------
(* Each part of the invariant is kept by every step.                       *)

LEMMA HeldStep == TypeInv /\ HeldInv /\ [Next]_vars => HeldInv'
<1> SUFFICES ASSUME TypeInv, HeldInv, [Next]_vars PROVE HeldInv'
  OBVIOUS
<1> USE OutboxAssumption
    DEF TypeInv, TypeOK, EntryOK, Busy, HeldInv, Held, storeVars, lifeVars
<1>1. ASSUME NEW e \in Envelopes,
             \/ \E o \in Outboxes : PublishCheck(o, e)
             \/ PublishAbandon(e)
      PROVE HeldInv'
  BY <1>1 DEF PublishCheck, PublishAbandon
<1>2. ASSUME NEW e \in Envelopes, PublishSave(e) PROVE HeldInv'
  BY <1>2, NextPosition DEF PublishSave, SaveEntry
<1>3. ASSUME NEW o \in Outboxes,
             Start(o) \/ StopCall(o) \/ StopCancel(o) \/ StopReturn(o) \/ ParentCancel(o)
      PROVE HeldInv'
  BY <1>3 DEF Start, StopCall, StopCancel, StopReturn, ParentCancel
<1>4. ASSUME NEW o \in Outboxes, Claim(o) PROVE HeldInv'
  <2> DEFINE b == FirstN(Claimable, BatchSize)
  <2>1. \A e \in b : e \in Envelopes /\ pos[e] > 0
    BY ClaimableFacts
  <2>2. entry[o] = NoEntry /\ batch' = [batch EXCEPT ![o] = b]
        /\ loop' = [loop EXCEPT ![o] = "check"] /\ UNCHANGED <<pos, entry>>
    BY <1>4 DEF Claim
  <2> HIDE DEF b
  <2> QED
    BY <2>1, <2>2
<1>5. ASSUME NEW o \in Outboxes, TakeEntry(o) PROVE HeldInv'
  <2>1. PICK e \in FirstN(batch[o], 1) :
          /\ entry' = [entry EXCEPT ![o] = e]
          /\ batch' = [batch EXCEPT ![o] = @ \ {e}]
          /\ loop' = [loop EXCEPT ![o] = IF seen[o][e] >= MaxRetries THEN "park"
                                         ELSE "publish"]
    BY <1>5 DEF TakeEntry
  <2>2. e \in batch[o]
    BY FirstNSubset
  <2>3. pos' = pos
    BY <1>5 DEF TakeEntry
  <2> QED
    BY <2>1, <2>2, <2>3
<1>6. ASSUME NEW o \in Outboxes, ClaimCancelled(o) \/ EndPass(o) \/ Poll(o) \/ Exit(o)
      PROVE HeldInv'
  BY <1>6 DEF ClaimCancelled, EndPass, Poll, Exit
<1>7. ASSUME NEW o \in Outboxes, Accept(o) \/ Refuse(o) PROVE HeldInv'
  BY <1>7 DEF Accept, Refuse
<1>8. ASSUME NEW o \in Outboxes,
             MarkDelivered(o) \/ MarkFailed(o) \/ MarkDead(o) \/ MarkRefused(o)
      PROVE HeldInv'
  <2>1. /\ entry' = [entry EXCEPT ![o] = NoEntry]
        /\ loop' = [loop EXCEPT ![o] = "check"]
        /\ UNCHANGED <<pos, batch>>
    BY <1>8 DEF MarkDelivered, MarkFailed, MarkDead, MarkRefused, NextEntry
  <2>2. NoEntry \notin batch[o]
    OBVIOUS
  <2> QED
    BY <2>1, <2>2
<1>9. CASE Tick \/ UNCHANGED vars
  BY <1>9 DEF Tick, vars
<1> QED
  BY <1>1, <1>2, <1>3, <1>4, <1>5, <1>6, <1>7, <1>8, <1>9 DEF Next, Dispatch

LEMMA EmitStep == TypeInv /\ EmitInv /\ [Next]_vars => EmitInv'
<1> SUFFICES ASSUME TypeInv, EmitInv, [Next]_vars PROVE EmitInv'
  OBVIOUS
<1> USE OutboxAssumption DEF TypeInv, TypeOK, EmitInv, storeVars, lifeVars
<1>1. ASSUME NEW o \in Outboxes, NEW e \in Envelopes, PublishCheck(o, e)
      PROVE EmitInv'
  BY <1>1 DEF PublishCheck, MayEmit, Saved
<1>2. ASSUME NEW e \in Envelopes, PublishSave(e) \/ PublishAbandon(e) PROVE EmitInv'
  BY <1>2 DEF PublishSave, PublishAbandon, SaveEntry
<1>3. ASSUME UNCHANGED <<saving, pos>> PROVE EmitInv'
  BY <1>3
<1>4. ASSUME NEW o \in Outboxes, Dispatch(o) PROVE UNCHANGED <<saving, pos>>
  BY <1>4 DEF Dispatch, Claim, ClaimCancelled, TakeEntry, EndPass, Accept, Refuse,
              MarkDelivered, MarkFailed, MarkDead, MarkRefused, NextEntry, Poll, Exit
<1>5. ASSUME NEW o \in Outboxes,
             Start(o) \/ StopCall(o) \/ StopCancel(o) \/ StopReturn(o) \/ ParentCancel(o)
      PROVE UNCHANGED <<saving, pos>>
  BY <1>5 DEF Start, StopCall, StopCancel, StopReturn, ParentCancel
<1> QED
  BY <1>1, <1>2, <1>3, <1>4, <1>5 DEF Next, Tick, vars

(* The steps that leave the dispatchers and what they rely on alone.       *)
LEMMA QuietSteps ==
  ASSUME TypeInv, [Next]_vars, \A o \in Outboxes : ~Dispatch(o), ~Tick
  PROVE  /\ UNCHANGED <<attempts, lease, delivered, dead, batch, entry, seen, sends, blurred>>
         /\ \A e \in Envelopes : pos[e] > 0 => pos'[e] > 0
         /\ \A o \in Outboxes : loop'[o] # loop[o] =>
              loop[o] = "off" /\ stop[o] = "no" /\ loop'[o] = "claim"
<1> USE DEF TypeInv, TypeOK, storeVars, lifeVars
<1>1. ASSUME NEW e \in Envelopes, PublishSave(e)
      PROVE  /\ UNCHANGED <<attempts, lease, delivered, dead, loop, batch, entry,
                            seen, sends, blurred>>
             /\ \A x \in Envelopes : pos[x] > 0 => pos'[x] > 0
  BY <1>1, NextPosition DEF PublishSave, SaveEntry
<1>2. ASSUME NEW o \in Outboxes, Start(o)
      PROVE  /\ UNCHANGED <<storeVars, batch, entry, seen, sends, blurred>>
             /\ \A p \in Outboxes : loop'[p] # loop[p] =>
                  loop[p] = "off" /\ stop[p] = "no" /\ loop'[p] = "claim"
  BY <1>2 DEF Start
<1>3. \/ \E e \in Envelopes : PublishSave(e)
      \/ \E o \in Outboxes : Start(o)
      \/ UNCHANGED <<storeVars, loop, batch, entry, seen, sends, blurred>>
  BY DEF Next, PublishCheck, PublishAbandon, StopCall, StopCancel, StopReturn,
         ParentCancel, vars
<1> QED
  BY <1>1, <1>2, <1>3

(* What marking an entry does to its dispatcher.                           *)
LEMMA MarkFacts ==
  ASSUME TypeInv, HeldInv, NEW o \in Outboxes,
         MarkDelivered(o) \/ MarkFailed(o) \/ MarkDead(o) \/ MarkRefused(o)
  PROVE  /\ entry[o] \in Envelopes /\ entry[o] \notin batch[o]
         /\ pos[entry[o]] > 0
         /\ entry' = [entry EXCEPT ![o] = NoEntry]
         /\ loop' = [loop EXCEPT ![o] = "check"]
         /\ seen' = [seen EXCEPT ![o][entry[o]] = 0]
         /\ UNCHANGED <<pos, batch, sends, lifeVars>>
         /\ \A p \in Outboxes :
              Held(p)' = IF p = o THEN Held(p) \ {entry[o]} ELSE Held(p)
         /\ \A p \in Outboxes, e \in Envelopes :
              seen'[p][e] = IF p = o /\ e = entry[o] THEN 0 ELSE seen[p][e]
<1> USE OutboxAssumption DEF TypeInv, TypeOK, EntryOK, Busy, HeldInv, Held
<1>1. /\ entry' = [entry EXCEPT ![o] = NoEntry]
      /\ loop' = [loop EXCEPT ![o] = "check"]
      /\ seen' = [seen EXCEPT ![o][entry[o]] = 0]
      /\ UNCHANGED <<pos, batch, sends, lifeVars>>
      /\ loop[o] \in Busy
  BY DEF MarkDelivered, MarkFailed, MarkDead, MarkRefused, NextEntry, storeVars
<1>2. entry[o] \in Envelopes /\ entry[o] \notin batch[o] /\ pos[entry[o]] > 0
  BY <1>1
<1> QED
  BY <1>1, <1>2

(* What taking the next entry of the batch does.                           *)
LEMMA TakeFacts ==
  ASSUME TypeInv, NEW o \in Outboxes, TakeEntry(o)
  PROVE  \E e \in batch[o] :
           /\ entry[o] = NoEntry
           /\ entry' = [entry EXCEPT ![o] = e]
           /\ batch' = [batch EXCEPT ![o] = @ \ {e}]
           /\ loop' = [loop EXCEPT ![o] = IF seen[o][e] >= MaxRetries THEN "park"
                                          ELSE "publish"]
           /\ UNCHANGED <<storeVars, seen, sends, blurred>>
           /\ \A p \in Outboxes : Held(p)' = Held(p)
<1> USE OutboxAssumption DEF TypeInv, TypeOK, EntryOK, Busy, Held
<1>1. PICK e \in FirstN(batch[o], 1) :
        /\ entry' = [entry EXCEPT ![o] = e]
        /\ batch' = [batch EXCEPT ![o] = @ \ {e}]
        /\ loop' = [loop EXCEPT ![o] = IF seen[o][e] >= MaxRetries THEN "park"
                                       ELSE "publish"]
  BY DEF TakeEntry
<1>2. e \in batch[o]
  BY FirstNSubset
<1>3. entry[o] = NoEntry /\ UNCHANGED <<storeVars, seen, sends, blurred>>
  BY DEF TakeEntry
<1>4. \A p \in Outboxes : Held(p)' = Held(p)
  BY <1>1, <1>2, <1>3
<1> QED
  BY <1>1, <1>2, <1>3, <1>4

(* What a claim does: the claimed events get a fresh lease and a copy of   *)
(* their attempts.                                                         *)
LEMMA ClaimFacts ==
  ASSUME TypeInv, HeldInv, NEW o \in Outboxes, Claim(o)
  PROVE  \E b \in SUBSET Envelopes :
           /\ \A e \in b : pos[e] > 0 /\ lease[e] = 0 /\ e \notin delivered
           /\ Held(o) = {} /\ Held(o)' = b
           /\ \A p \in Outboxes \ {o} : Held(p)' = Held(p)
           /\ seen' = [seen EXCEPT ![o] =
                         [e \in Envelopes |-> IF e \in b THEN attempts[e] ELSE 0]]
           /\ lease' = [e \in Envelopes |-> IF e \in b THEN ClaimTTL ELSE lease[e]]
           /\ loop[o] = "claim" /\ loop' = [loop EXCEPT ![o] = "check"]
           /\ UNCHANGED <<pos, attempts, delivered, dead, entry, sends, blurred>>
<1> USE OutboxAssumption DEF TypeInv, TypeOK, EntryOK, Busy, HeldInv, Held
<1> DEFINE b == FirstN(Claimable, BatchSize)
<1>1. b \in SUBSET Envelopes
      /\ \A e \in b : pos[e] > 0 /\ lease[e] = 0 /\ e \notin delivered
  BY ClaimableFacts
<1>2. /\ batch' = [batch EXCEPT ![o] = b]
      /\ seen' = [seen EXCEPT ![o] =
                    [e \in Envelopes |-> IF e \in b THEN attempts[e] ELSE 0]]
      /\ lease' = [e \in Envelopes |-> IF e \in b THEN ClaimTTL ELSE lease[e]]
      /\ loop[o] = "claim" /\ loop' = [loop EXCEPT ![o] = "check"]
      /\ UNCHANGED <<pos, attempts, delivered, dead, entry, sends, blurred>>
  BY DEF Claim
<1> HIDE DEF b
<1>3. Held(o) = {} /\ Held(o)' = b /\ \A p \in Outboxes \ {o} : Held(p)' = Held(p)
  BY <1>1, <1>2
<1> QED
  BY <1>1, <1>2, <1>3 DEF Held

(* The other dispatcher steps only move the dispatcher on or drop a batch. *)
LEMMA MoveFacts ==
  ASSUME TypeInv, NEW o \in Outboxes,
         \/ ClaimCancelled(o) \/ EndPass(o) \/ Poll(o) \/ Exit(o)
  PROVE  /\ UNCHANGED <<storeVars, entry, sends, blurred>>
         /\ loop[o] \notin Busy /\ loop[o] \notin {"off", "exited"}
         /\ \E s \in {"wait", "claim", "exited"} : loop' = [loop EXCEPT ![o] = s]
         /\ \A p \in Outboxes :
              /\ Held(p)' \subseteq Held(p)
              /\ \A e \in Held(p)' : seen'[p][e] = seen[p][e]
<1> USE OutboxAssumption DEF TypeInv, TypeOK, EntryOK, Busy, Held, storeVars
<1>1. CASE EndPass(o)
  BY <1>1 DEF EndPass
<1>2. CASE ClaimCancelled(o) \/ Poll(o) \/ Exit(o)
  BY <1>2 DEF ClaimCancelled, Poll, Exit
<1> QED
  BY <1>1, <1>2

LEMMA SeenStep == TypeInv /\ HeldInv /\ SeenInv /\ [Next]_vars => SeenInv'
<1> SUFFICES ASSUME TypeInv, HeldInv, SeenInv, [Next]_vars PROVE SeenInv'
  OBVIOUS
<1> USE OutboxAssumption DEF TypeInv, TypeOK, EntryOK, Busy, SeenInv
<1>1. CASE (\A o \in Outboxes : ~Dispatch(o)) /\ ~Tick
  <2>1. /\ UNCHANGED <<attempts, batch, entry, seen>>
        /\ \A o \in Outboxes : loop'[o] # loop[o] => loop'[o] = "claim"
    BY <1>1, QuietSteps
  <2> QED
    BY <2>1 DEF Held
<1>2. CASE Tick
  BY <1>2 DEF Tick, Held
<1>3. ASSUME NEW o \in Outboxes, Claim(o) PROVE SeenInv'
  <2>1. PICK b \in SUBSET Envelopes :
           /\ Held(o)' = b
           /\ \A p \in Outboxes \ {o} : Held(p)' = Held(p)
           /\ seen' = [seen EXCEPT ![o] =
                         [e \in Envelopes |-> IF e \in b THEN attempts[e] ELSE 0]]
           /\ loop' = [loop EXCEPT ![o] = "check"]
           /\ UNCHANGED <<attempts, entry>>
    BY <1>3, ClaimFacts
  <2>2. ASSUME NEW p \in Outboxes, NEW e \in Held(p)' PROVE seen'[p][e] <= attempts'[e]
    <3>1. CASE p = o
      BY <2>1, <2>2, <3>1
    <3>2. CASE p # o
      BY <2>1, <2>2, <3>2
    <3> QED
      BY <3>1, <3>2
  <2> QED
    BY <2>1, <2>2
<1>4. ASSUME NEW o \in Outboxes, TakeEntry(o) PROVE SeenInv'
  <2>1. PICK e \in batch[o] :
           /\ entry' = [entry EXCEPT ![o] = e]
           /\ loop' = [loop EXCEPT ![o] = IF seen[o][e] >= MaxRetries THEN "park"
                                          ELSE "publish"]
           /\ UNCHANGED <<storeVars, seen, sends, blurred>>
           /\ \A p \in Outboxes : Held(p)' = Held(p)
    BY <1>4, TakeFacts
  <2> QED
    BY <2>1 DEF storeVars
<1>5. ASSUME NEW o \in Outboxes,
             ClaimCancelled(o) \/ EndPass(o) \/ Poll(o) \/ Exit(o)
      PROVE SeenInv'
  <2>1. PICK s \in {"wait", "claim", "exited"} : loop' = [loop EXCEPT ![o] = s]
    BY <1>5, MoveFacts
  <2>2. UNCHANGED <<attempts, entry>>
    BY <1>5, MoveFacts DEF storeVars
  <2>3. ASSUME NEW p \in Outboxes, NEW e \in Held(p)'
        PROVE e \in Held(p) /\ seen'[p][e] = seen[p][e]
    BY <1>5, <2>3, MoveFacts
  <2>4. ASSUME NEW p \in Outboxes, loop'[p] \in Busy
        PROVE loop'[p] = loop[p] /\ entry'[p] \in Held(p)'
    BY <2>1, <2>2, <2>4 DEF Held
  <2> QED
    BY <2>1, <2>2, <2>3, <2>4
<1>6. ASSUME NEW o \in Outboxes, Accept(o) \/ Refuse(o) PROVE SeenInv'
  BY SMTT(30), <1>6 DEF Accept, Refuse, storeVars, Held
<1>7. ASSUME NEW o \in Outboxes,
             MarkDelivered(o) \/ MarkFailed(o) \/ MarkDead(o) \/ MarkRefused(o)
      PROVE SeenInv'
  <2>1. \A e \in Envelopes : attempts'[e] >= attempts[e] /\ attempts'[e] \in Nat
    BY <1>7 DEF MarkDelivered, MarkFailed, MarkDead, MarkRefused, storeVars
  <2>2. entry[o] \in Envelopes
    BY <1>7, MarkFacts
  <2>3. /\ entry' = [entry EXCEPT ![o] = NoEntry]
        /\ loop' = [loop EXCEPT ![o] = "check"]
    BY <1>7, MarkFacts
  <2>4. ASSUME NEW p \in Outboxes
        PROVE Held(p)' = IF p = o THEN Held(p) \ {entry[o]} ELSE Held(p)
    BY <1>7, MarkFacts
  <2>5. ASSUME NEW p \in Outboxes, NEW e \in Envelopes
        PROVE seen'[p][e] = IF p = o /\ e = entry[o] THEN 0 ELSE seen[p][e]
    BY <1>7, MarkFacts
  <2>6. ASSUME NEW p \in Outboxes, NEW e \in Held(p)' PROVE seen'[p][e] <= attempts'[e]
    <3>1. e \in Envelopes /\ e \in Held(p)
      BY <2>4, <2>6 DEF Held
    <3> QED
      BY <3>1, <2>1, <2>5
  <2>7. ASSUME NEW p \in Outboxes, p # o, loop[p] \in Busy
        PROVE seen'[p][entry[p]] = seen[p][entry[p]]
    BY <2>5, <2>7
  <2> QED
    BY <2>3, <2>6, <2>7
<1>8. CASE UNCHANGED vars
  BY <1>8 DEF vars, storeVars, Held
<1> QED
  BY <1>1, <1>2, <1>3, <1>4, <1>5, <1>6, <1>7, <1>8 DEF Next, Dispatch

LEMMA CauseStep ==
  TypeInv /\ HeldInv /\ SeenInv /\ CauseInv /\ [Next]_vars => CauseInv'
<1> SUFFICES ASSUME TypeInv, HeldInv, SeenInv, CauseInv, [Next]_vars PROVE CauseInv'
  OBVIOUS
<1> USE OutboxAssumption DEF TypeInv, TypeOK, EntryOK, Busy, CauseInv
<1>1. CASE (\A o \in Outboxes : ~Dispatch(o)) /\ ~Tick
  <2>1. /\ UNCHANGED <<attempts, delivered, dead, entry, sends>>
        /\ \A e \in Envelopes : pos[e] > 0 => pos'[e] > 0
        /\ \A o \in Outboxes : loop'[o] # loop[o] => loop'[o] = "claim"
    BY <1>1, QuietSteps
  <2> QED
    BY <2>1
<1>2. CASE Tick
  BY <1>2 DEF Tick
<1>3. ASSUME NEW o \in Outboxes, Claim(o) PROVE CauseInv'
  <2>1. /\ loop' = [loop EXCEPT ![o] = "check"]
        /\ UNCHANGED <<pos, attempts, delivered, dead, entry, sends>>
    BY <1>3, ClaimFacts
  <2> QED
    BY <2>1
<1>4. ASSUME NEW o \in Outboxes, TakeEntry(o) PROVE CauseInv'
  <2>1. PICK e \in batch[o] :
           /\ entry' = [entry EXCEPT ![o] = e]
           /\ loop' = [loop EXCEPT ![o] = IF seen[o][e] >= MaxRetries THEN "park"
                                          ELSE "publish"]
           /\ UNCHANGED <<pos, attempts, delivered, dead, sends>>
    BY <1>4, TakeFacts DEF storeVars
  <2> QED
    BY <2>1
<1>5. ASSUME NEW o \in Outboxes,
             ClaimCancelled(o) \/ EndPass(o) \/ Poll(o) \/ Exit(o)
      PROVE CauseInv'
  BY <1>5, MoveFacts DEF storeVars
<1>6. ASSUME NEW o \in Outboxes, Accept(o) \/ Refuse(o) PROVE CauseInv'
  BY <1>6 DEF Accept, Refuse, storeVars
<1>7. ASSUME NEW o \in Outboxes, MarkDelivered(o) PROVE CauseInv'
  <2>1. /\ entry[o] \in Envelopes /\ pos[entry[o]] > 0
        /\ entry' = [entry EXCEPT ![o] = NoEntry]
        /\ loop' = [loop EXCEPT ![o] = "check"]
        /\ UNCHANGED <<pos, sends>>
    BY <1>7, MarkFacts
  <2> QED
    BY <1>7, <2>1 DEF MarkDelivered
<1>8. ASSUME NEW o \in Outboxes, MarkDead(o) PROVE CauseInv'
  <2>1. /\ entry[o] \in Envelopes /\ pos[entry[o]] > 0
        /\ entry' = [entry EXCEPT ![o] = NoEntry]
        /\ loop' = [loop EXCEPT ![o] = "check"]
        /\ UNCHANGED <<pos, sends>>
    BY <1>8, MarkFacts
  <2>2. attempts[entry[o]] >= MaxRetries
    <3>1. seen[o][entry[o]] \in Nat /\ attempts[entry[o]] \in Nat
      BY <2>1
    <3>2. entry[o] \in Held(o)
      BY <2>1 DEF Held
    <3> QED
      BY <1>8, <3>1, <3>2 DEF SeenInv, MarkDead
  <2> QED
    BY <1>8, <2>1, <2>2 DEF MarkDead
<1>9. ASSUME NEW o \in Outboxes, MarkFailed(o) \/ MarkRefused(o) PROVE CauseInv'
  <2>1. /\ entry' = [entry EXCEPT ![o] = NoEntry]
        /\ loop' = [loop EXCEPT ![o] = "check"]
        /\ UNCHANGED <<pos, sends>>
    BY <1>9, MarkFacts
  <2>2. UNCHANGED <<delivered, dead>>
    BY <1>9 DEF MarkFailed, MarkRefused, storeVars
  <2>3. \A e \in Envelopes : attempts'[e] \in Nat /\ attempts'[e] >= attempts[e]
    BY <1>9 DEF MarkFailed, MarkRefused, storeVars
  <2>4. \A e \in dead' : pos'[e] > 0 /\ attempts'[e] >= MaxRetries
    BY <2>1, <2>2, <2>3
  <2> QED
    BY <2>1, <2>2, <2>4
<1>10. CASE UNCHANGED vars
  BY <1>10 DEF vars, storeVars
<1> QED
  BY <1>1, <1>2, <1>3, <1>4, <1>5, <1>6, <1>7, <1>8, <1>9, <1>10 DEF Next, Dispatch

LEMMA StopStep == TypeInv /\ StopInv /\ [Next]_vars => StopInv'
<1> SUFFICES ASSUME TypeInv, StopInv, [Next]_vars PROVE StopInv'
  OBVIOUS
<1> USE DEF TypeInv, TypeOK, StopInv, storeVars, lifeVars
<1>1. ASSUME NEW o \in Outboxes, Start(o) PROVE StopInv'
  BY <1>1 DEF Start
<1>2. ASSUME NEW o \in Outboxes, StopCall(o) \/ StopCancel(o) \/ StopReturn(o)
      PROVE StopInv'
  BY <1>2 DEF StopCall, StopCancel, StopReturn
<1>3. ASSUME NEW o \in Outboxes, Dispatch(o)
      PROVE  /\ loop[o] \notin {"off", "exited"}
             /\ stop' = stop /\ \A p \in Outboxes \ {o} : loop'[p] = loop[p]
  BY <1>3 DEF Dispatch, Claim, ClaimCancelled, TakeEntry, EndPass, Accept, Refuse,
              MarkDelivered, MarkFailed, MarkDead, MarkRefused, NextEntry, Poll, Exit
<1>4. \/ UNCHANGED <<stop, loop>>
      \/ \E o \in Outboxes : Start(o) \/ Dispatch(o)
                            \/ StopCall(o) \/ StopCancel(o) \/ StopReturn(o)
  BY DEF Next, PublishCheck, PublishSave, PublishAbandon, ParentCancel, Tick, vars
<1> QED
  BY <1>1, <1>2, <1>3, <1>4

(* The budget of one event survives a step that leaves it untried before   *)
(* its limit, adds no stale copy, or uses one up.                          *)
LEMMA BudgetKept ==
  ASSUME TypeInv, TypeInv', BudgetInv, NEW e \in Envelopes,
         \/ attempts'[e] < MaxRetries
         \/ attempts'[e] = attempts[e] /\ Stale(e)' \subseteq Stale(e)
         \/ \E o \in Stale(e) : /\ attempts'[e] = attempts[e] + 1
                               /\ Stale(e)' \subseteq Stale(e) \ {o}
  PROVE  attempts'[e] + Cardinality(Stale(e)') <= MaxRetries + Cardinality(Outboxes) - 1
<1> USE OutboxAssumption DEF TypeInv, TypeOK, BudgetInv
<1>1. /\ IsFiniteSet(Stale(e)) /\ IsFiniteSet(Stale(e)')
      /\ Stale(e)' \subseteq Outboxes
  BY FS_Subset DEF Stale
<1>2. /\ Cardinality(Stale(e)) \in Nat /\ Cardinality(Stale(e)') \in Nat
      /\ Cardinality(Outboxes) \in Nat
      /\ Cardinality(Stale(e)') <= Cardinality(Outboxes)
  BY <1>1, FS_CardinalityType, FS_Subset
<1>3. attempts[e] + Cardinality(Stale(e)) <= MaxRetries + Cardinality(Outboxes) - 1
  OBVIOUS
<1>4. attempts[e] \in Nat /\ attempts'[e] \in Nat
  OBVIOUS
<1>5. CASE attempts'[e] < MaxRetries
  BY <1>2, <1>4, <1>5
<1>6. CASE attempts'[e] = attempts[e] /\ Stale(e)' \subseteq Stale(e)
  <2>1. Cardinality(Stale(e)') <= Cardinality(Stale(e))
    BY <1>1, <1>6, FS_Subset
  <2> QED
    BY <1>2, <1>3, <1>4, <1>6, <2>1
<1>7. ASSUME NEW o \in Stale(e), attempts'[e] = attempts[e] + 1,
             Stale(e)' \subseteq Stale(e) \ {o}
      PROVE attempts'[e] + Cardinality(Stale(e)') <= MaxRetries + Cardinality(Outboxes) - 1
  <2>1. IsFiniteSet(Stale(e) \ {o}) /\ Cardinality(Stale(e) \ {o}) = Cardinality(Stale(e)) - 1
    BY <1>1, FS_RemoveElement
  <2>2. Cardinality(Stale(e)') <= Cardinality(Stale(e)) - 1
    BY <1>7, <2>1, FS_Subset
  <2> QED
    BY <1>2, <1>3, <1>4, <1>7, <2>2
<1> QED
  BY <1>5, <1>6, <1>7

LEMMA BudgetStep ==
  TypeInv /\ HeldInv /\ SeenInv /\ BudgetInv /\ [Next]_vars => BudgetInv'
<1> SUFFICES ASSUME TypeInv, HeldInv, SeenInv, BudgetInv, [Next]_vars,
                    NEW e \in Envelopes
             PROVE  attempts'[e] + Cardinality(Stale(e)')
                      <= MaxRetries + Cardinality(Outboxes) - 1
  BY DEF BudgetInv
<1>0. TypeInv'
  BY TypeStep
<1> SUFFICES \/ attempts'[e] < MaxRetries
             \/ attempts'[e] = attempts[e] /\ Stale(e)' \subseteq Stale(e)
             \/ \E o \in Stale(e) : /\ attempts'[e] = attempts[e] + 1
                                   /\ Stale(e)' \subseteq Stale(e) \ {o}
  BY <1>0, BudgetKept
<1> DEFINE Same == attempts'[e] = attempts[e] /\ Stale(e)' \subseteq Stale(e)
<1> USE OutboxAssumption DEF TypeInv, TypeOK, EntryOK, Busy
<1>1. CASE (\A o \in Outboxes : ~Dispatch(o)) /\ ~Tick
  <2>1. UNCHANGED <<attempts, batch, entry, seen>>
    BY <1>1, QuietSteps
  <2> QED
    BY <2>1 DEF Stale, Held
<1>2. CASE Tick \/ UNCHANGED vars
  BY <1>2 DEF Tick, vars, storeVars, Stale, Held
<1>3. ASSUME NEW o \in Outboxes, Claim(o) PROVE attempts'[e] < MaxRetries \/ Same
  <2>1. PICK b \in SUBSET Envelopes :
           /\ Held(o)' = b
           /\ \A p \in Outboxes \ {o} : Held(p)' = Held(p)
           /\ seen' = [seen EXCEPT ![o] =
                         [x \in Envelopes |-> IF x \in b THEN attempts[x] ELSE 0]]
           /\ UNCHANGED attempts
    BY <1>3, ClaimFacts
  <2>2. ASSUME attempts[e] >= MaxRetries, NEW p \in Outboxes, p \in Stale(e)'
        PROVE p \in Stale(e)
    <3>1. CASE p = o
      BY <2>1, <2>2, <3>1 DEF Stale
    <3>2. CASE p # o
      BY <2>1, <2>2, <3>2 DEF Stale
    <3> QED
      BY <3>1, <3>2
  <2>3. Stale(e)' \subseteq Outboxes
    BY DEF Stale
  <2> QED
    BY <2>1, <2>2, <2>3
<1>4. ASSUME NEW o \in Outboxes, TakeEntry(o) PROVE Same
  <2>1. /\ UNCHANGED <<attempts, seen>>
        /\ \A p \in Outboxes : Held(p)' = Held(p)
    BY <1>4, TakeFacts DEF storeVars
  <2> QED
    BY <2>1 DEF Stale
<1>5. ASSUME NEW o \in Outboxes,
             ClaimCancelled(o) \/ EndPass(o) \/ Poll(o) \/ Exit(o)
      PROVE Same
  <2>1. /\ UNCHANGED attempts
        /\ \A p \in Outboxes : /\ Held(p)' \subseteq Held(p)
                               /\ \A x \in Held(p)' : seen'[p][x] = seen[p][x]
    BY <1>5, MoveFacts DEF storeVars
  <2> QED
    BY <2>1 DEF Stale
<1>6. ASSUME NEW o \in Outboxes, Accept(o) \/ Refuse(o) PROVE Same
  BY <1>6 DEF Accept, Refuse, storeVars, Stale, Held
<1>7. ASSUME NEW o \in Outboxes,
             MarkDelivered(o) \/ MarkFailed(o) \/ MarkDead(o) \/ MarkRefused(o)
      PROVE Stale(e)' \subseteq Stale(e) \ (IF e = entry[o] THEN {o} ELSE {})
  <2>1. ASSUME NEW p \in Outboxes
        PROVE Held(p)' = IF p = o THEN Held(p) \ {entry[o]} ELSE Held(p)
    BY <1>7, MarkFacts
  <2>2. ASSUME NEW p \in Outboxes
        PROVE seen'[p][e] = IF p = o /\ e = entry[o] THEN 0 ELSE seen[p][e]
    BY <1>7, MarkFacts
  <2> QED
    BY <2>1, <2>2 DEF Stale
<1>8. ASSUME NEW o \in Outboxes, MarkDelivered(o) \/ MarkDead(o) \/ MarkRefused(o)
      PROVE Same
  <2>1. UNCHANGED attempts
    BY <1>8 DEF MarkDelivered, MarkDead, MarkRefused, storeVars
  <2> QED
    BY <1>7, <1>8, <2>1
<1>9. ASSUME NEW o \in Outboxes, MarkFailed(o)
      PROVE Same \/ \E p \in Stale(e) : /\ attempts'[e] = attempts[e] + 1
                                       /\ Stale(e)' \subseteq Stale(e) \ {p}
  <2>1. /\ loop[o] = "retry" /\ entry[o] # NoEntry
        /\ attempts' = [attempts EXCEPT ![entry[o]] = @ + 1]
    BY <1>9 DEF MarkFailed
  <2>2. CASE e = entry[o]
    <3>1. o \in Stale(e)
      BY <2>1, <2>2 DEF Stale, Held, SeenInv
    <3> QED
      BY <1>7, <1>9, <2>1, <2>2, <3>1
  <2>3. CASE e # entry[o]
    BY <1>7, <1>9, <2>1, <2>3
  <2> QED
    BY <2>2, <2>3
<1> QED
  BY <1>1, <1>2, <1>3, <1>4, <1>5, <1>6, <1>8, <1>9 DEF Next, Dispatch

(* Every event starts with its whole budget.                               *)
LEMMA BudgetInit == Init => BudgetInv
<1> SUFFICES ASSUME Init, NEW e \in Envelopes
             PROVE attempts[e] + Cardinality(Stale(e))
                     <= MaxRetries + Cardinality(Outboxes) - 1
  BY DEF BudgetInv
<1>1. Stale(e) = {} /\ attempts[e] = 0
  BY OutboxAssumption DEF Init, InitOver, Stale, Held
<1>2. Cardinality(Outboxes) \in Nat /\ Cardinality(Stale(e)) = 0
  BY <1>1, OutboxAssumption, FS_CardinalityType, FS_EmptySet
<1> QED
  BY <1>1, <1>2, OutboxAssumption

(* SoleInv of one event.                                                   *)
Sole(e) ==
  /\ \A o \in Outboxes : e \in Held(o) => lease[e] > 0 /\ e \notin delivered
  /\ \A o, p \in Outboxes : e \in Held(o) /\ e \in Held(p) => o = p
  /\ sends[e] < 2
  /\ sends[e] = 1 => \/ e \in delivered
                     \/ \E o \in Outboxes : loop[o] = "confirm" /\ entry[o] = e

LEMMA SoleStep ==
  TypeInv /\ HeldInv /\ SoleInv /\ [Next]_vars => SoleInv'
<1> SUFFICES ASSUME TypeInv, HeldInv, SoleInv, [Next]_vars,
                    NEW e \in Envelopes, e \notin blurred'
             PROVE  Sole(e)'
  BY DEF SoleInv, Sole
<1>0. TypeInv'
  BY TypeStep
<1> USE OutboxAssumption DEF TypeInv, TypeOK, EntryOK, Busy
<1>a. blurred \subseteq blurred'
  <2>1. CASE \E o \in Outboxes : Dispatch(o)
    BY <2>1 DEF Dispatch, Claim, ClaimCancelled, TakeEntry, EndPass, Accept, Refuse,
          MarkDelivered, MarkFailed, MarkDead, MarkRefused, NextEntry, Poll, Exit
  <2>2. CASE Tick
    BY <2>2 DEF Tick
  <2>3. CASE (\A o \in Outboxes : ~Dispatch(o)) /\ ~Tick
    BY <2>3, QuietSteps
  <2> QED
    BY <2>1, <2>2, <2>3
<1>b. e \notin blurred /\ Sole(e)
  BY <1>a DEF SoleInv, Sole
<1>1. CASE (\A o \in Outboxes : ~Dispatch(o)) /\ ~Tick
  <2>1. /\ UNCHANGED <<lease, delivered, batch, entry, sends>>
        /\ \A o \in Outboxes : loop'[o] # loop[o] => loop[o] = "off"
    BY <1>1, QuietSteps
  <2> QED
    BY <1>b, <2>1 DEF Sole, Held
<1>2. CASE Tick
  <2>1. UNCHANGED <<delivered, batch, entry, sends, loop>>
    BY <1>2 DEF Tick
  <2>2. ASSUME NEW o \in Outboxes, e \in Held(o) PROVE lease'[e] > 0
    BY <1>2, <1>b, <2>2 DEF Tick, Sole
  <2> QED
    BY <1>b, <2>1, <2>2 DEF Sole, Held
<1>3. ASSUME NEW o \in Outboxes, Claim(o) PROVE Sole(e)'
  <2>1. PICK b \in SUBSET Envelopes :
           /\ \A x \in b : lease[x] = 0 /\ x \notin delivered
           /\ Held(o)' = b
           /\ \A p \in Outboxes \ {o} : Held(p)' = Held(p)
           /\ lease' = [x \in Envelopes |-> IF x \in b THEN ClaimTTL ELSE lease[x]]
           /\ loop[o] = "claim" /\ loop' = [loop EXCEPT ![o] = "check"]
           /\ UNCHANGED <<delivered, entry, sends>>
    BY <1>3, ClaimFacts
  <2>2. ASSUME NEW p \in Outboxes, e \in Held(p)'
        PROVE  /\ lease'[e] > 0 /\ e \notin delivered'
               /\ e \in b => p = o
               /\ e \notin b => e \in Held(p)
    <3>1. CASE p = o
      BY <2>1, <2>2, <3>1
    <3>2. CASE p # o
      BY <1>b, <2>1, <2>2, <3>2 DEF Sole
    <3> QED
      BY <3>1, <3>2
  <2>3. ASSUME NEW p \in Outboxes, NEW q \in Outboxes, e \in Held(p)', e \in Held(q)'
        PROVE p = q
    <3>1. CASE e \in b
      BY <2>2, <2>3, <3>1
    <3>2. CASE e \notin b
      BY <1>b, <2>2, <2>3, <3>2 DEF Sole
    <3> QED
      BY <3>1, <3>2
  <2>4. ASSUME sends'[e] = 1
        PROVE  \/ e \in delivered'
               \/ \E p \in Outboxes : loop'[p] = "confirm" /\ entry'[p] = e
    <3>1. CASE \E p \in Outboxes : loop[p] = "confirm" /\ entry[p] = e
      BY <2>1, <3>1
    <3> QED
      BY <1>b, <2>1, <2>4, <3>1 DEF Sole
  <2> QED
    BY <1>b, <2>1, <2>2, <2>3, <2>4 DEF Sole
<1>4. ASSUME NEW o \in Outboxes, TakeEntry(o) PROVE Sole(e)'
  <2>1. PICK x \in batch[o] :
           /\ entry[o] = NoEntry
           /\ entry' = [entry EXCEPT ![o] = x]
           /\ loop' = [loop EXCEPT ![o] = IF seen[o][x] >= MaxRetries THEN "park"
                                          ELSE "publish"]
           /\ UNCHANGED <<lease, delivered, sends>>
           /\ \A p \in Outboxes : Held(p)' = Held(p)
    BY <1>4, TakeFacts DEF storeVars
  <2>2. ASSUME NEW p \in Outboxes, loop[p] = "confirm", entry[p] = e
        PROVE loop'[p] = "confirm" /\ entry'[p] = e
    BY <2>1, <2>2
  <2> QED
    BY <1>b, <2>1, <2>2 DEF Sole
<1>5. ASSUME NEW o \in Outboxes,
             ClaimCancelled(o) \/ EndPass(o) \/ Poll(o) \/ Exit(o)
      PROVE Sole(e)'
  <2>1. PICK s \in {"wait", "claim", "exited"} : loop' = [loop EXCEPT ![o] = s]
    BY <1>5, MoveFacts
  <2>2. /\ UNCHANGED <<lease, delivered, entry, sends>> /\ loop[o] \notin Busy
        /\ \A p \in Outboxes : Held(p)' \subseteq Held(p)
    BY <1>5, MoveFacts DEF storeVars
  <2>3. ASSUME NEW p \in Outboxes, loop[p] = "confirm" PROVE loop'[p] = "confirm"
    BY <2>1, <2>2, <2>3
  <2> QED
    BY <1>b, <2>2, <2>3 DEF Sole
<1>6. ASSUME NEW o \in Outboxes, Accept(o) PROVE Sole(e)'
  <2>1. /\ loop[o] = "publish" /\ entry[o] \in Envelopes /\ entry[o] \in Held(o)
        /\ loop' = [loop EXCEPT ![o] = "confirm"]
        /\ sends' = [sends EXCEPT ![entry[o]] = IF @ = 0 THEN 1 ELSE 2]
        /\ UNCHANGED <<lease, delivered, batch, entry>>
    BY <1>6 DEF Accept, storeVars, Held
  <2>2. CASE e = entry[o]
    <3>1. \A p \in Outboxes : loop[p] = "confirm" /\ entry[p] = e => e \in Held(p)
      BY DEF Held
    <3>2. sends[e] = 0
      BY <1>b, <2>1, <2>2, <3>1 DEF Sole
    <3> QED
      BY <1>b, <2>1, <2>2, <3>2 DEF Sole, Held
  <2>3. CASE e # entry[o]
    <3>1. sends'[e] = sends[e]
      BY <2>1, <2>3
    <3>2. ASSUME NEW p \in Outboxes, loop[p] = "confirm" PROVE loop'[p] = "confirm"
      BY <2>1, <3>2
    <3> QED
      BY <1>b, <2>1, <3>1, <3>2 DEF Sole, Held
  <2> QED
    BY <2>2, <2>3
<1>7. ASSUME NEW o \in Outboxes, Refuse(o) PROVE Sole(e)'
  <2>1. /\ loop[o] = "publish" /\ loop' = [loop EXCEPT ![o] = "retry"]
        /\ UNCHANGED <<lease, delivered, batch, entry, sends>>
    BY <1>7 DEF Refuse, storeVars
  <2>2. ASSUME NEW p \in Outboxes, loop[p] = "confirm" PROVE loop'[p] = "confirm"
    BY <2>1, <2>2
  <2> QED
    BY <1>b, <2>1, <2>2 DEF Sole, Held
<1>8. ASSUME NEW o \in Outboxes,
             MarkDelivered(o) \/ MarkFailed(o) \/ MarkDead(o) \/ MarkRefused(o)
      PROVE Sole(e)'
  <2>1. /\ entry[o] \in Envelopes /\ entry[o] \in Held(o)
        /\ entry' = [entry EXCEPT ![o] = NoEntry]
        /\ loop' = [loop EXCEPT ![o] = "check"]
        /\ sends' = sends
    BY <1>8, MarkFacts DEF Held
  <2>2. ASSUME NEW p \in Outboxes
        PROVE Held(p)' = IF p = o THEN Held(p) \ {entry[o]} ELSE Held(p)
    BY <1>8, MarkFacts
  <2>3. ASSUME NEW p \in Outboxes, e \in Held(p)'
        PROVE e \in Held(p) /\ e # entry[o]
    BY <1>b, <2>1, <2>2, <2>3 DEF Sole
  <2>4. delivered \subseteq delivered' /\ delivered' \subseteq delivered \cup {entry[o]}
    BY <1>8 DEF MarkDelivered, MarkFailed, MarkDead, MarkRefused, storeVars
  <2>5. e # entry[o] => lease'[e] = lease[e]
    BY <1>8 DEF MarkDelivered, MarkFailed, MarkDead, MarkRefused, storeVars
  <2>6. loop[o] = "confirm" /\ entry[o] = e => e \in delivered'
    BY <1>8 DEF MarkDelivered, MarkFailed, MarkDead, MarkRefused
  <2>7. ASSUME NEW p \in Outboxes, p # o, loop[p] = "confirm", entry[p] = e
        PROVE loop'[p] = "confirm" /\ entry'[p] = e
    BY <2>1, <2>7
  <2>8. sends'[e] = 1 => \/ e \in delivered'
                        \/ \E p \in Outboxes : loop'[p] = "confirm" /\ entry'[p] = e
    BY <1>b, <2>1, <2>4, <2>6, <2>7 DEF Sole
  <2> QED
    BY <1>b, <2>1, <2>3, <2>4, <2>5, <2>8 DEF Sole
<1>9. CASE UNCHANGED vars
  BY <1>b, <1>9 DEF Sole, Held, vars, storeVars
<1> QED
  BY <1>1, <1>2, <1>3, <1>4, <1>5, <1>6, <1>7, <1>8, <1>9 DEF Next, Dispatch

-----------------------------------------------------------------------------
(* What the budget leaves for the attempts already made.                   *)
AttemptsBound ==
  \A e \in Envelopes : attempts[e] <= MaxRetries + Cardinality(Outboxes) - 1

LEMMA AttemptsBounded == IInv => AttemptsBound
<1> SUFFICES ASSUME IInv, NEW e \in Envelopes
             PROVE attempts[e] <= MaxRetries + Cardinality(Outboxes) - 1
  BY DEF AttemptsBound
<1>1. IsFiniteSet(Stale(e))
  BY OutboxAssumption, FS_Subset DEF Stale
<1>2. Cardinality(Stale(e)) \in Nat /\ Cardinality(Outboxes) \in Nat
  BY <1>1, OutboxAssumption, FS_CardinalityType
<1> QED
  BY <1>2, OutboxAssumption DEF IInv, TypeInv, TypeOK, BudgetInv

LEMMA IInvInit == Init => IInv
<1> SUFFICES ASSUME Init PROVE IInv
  OBVIOUS
<1>1. HeldInv /\ EmitInv /\ SeenInv /\ CauseInv /\ SoleInv /\ StopInv
  BY OutboxAssumption DEF Init, InitOver, HeldInv, EmitInv, SeenInv, CauseInv,
                          SoleInv, StopInv, Held
<1> QED
  BY <1>1, TypeInit, BudgetInit DEF IInv

LEMMA IInvStep == IInv /\ [Next]_vars => IInv'
BY TypeStep, HeldStep, EmitStep, SeenStep, CauseStep, BudgetStep, SoleStep, StopStep
   DEF IInv

(* The inductive invariant holds in every reachable state.                 *)
THEOREM Invariant == Spec => []IInv
BY IInvInit, IInvStep, PTL DEF Spec

(* Duplicate claims and duplicate deliveries need a lapsed claim or a lost *)
(* mark, however many dispatchers compete.                                 *)
THEOREM NoUnexplainedDuplicate == Spec => []DuplicatesExplained
<1>1. IInv => DuplicatesExplained
  BY DEF IInv, SoleInv, DuplicatesExplained
<1> QED
  BY <1>1, Invariant, PTL

(* A stopped Outbox has no goroutine and never gets one again.             *)
THEOREM StopIsFinal == Spec => StoppedForGood
<1> DEFINE A == \A o \in Outboxes : stop[o] = "done" =>
                 /\ loop[o] \in {"off", "exited"}
                 /\ loop'[o] = loop[o] /\ stop'[o] = "done"
<1>1. ASSUME IInv, [Next]_vars PROVE [A]_vars
  <2> SUFFICES ASSUME NEW o \in Outboxes, stop[o] = "done"
               PROVE  /\ loop[o] \in {"off", "exited"}
                      /\ loop'[o] = loop[o] /\ stop'[o] = "done"
    OBVIOUS
  <2> USE <1>1 DEF IInv, TypeInv, TypeOK, storeVars, lifeVars
  <2>1. loop[o] \in {"off", "exited"}
    BY DEF StopInv
  <2>2. ASSUME NEW p \in Outboxes, Dispatch(p) PROVE loop'[o] = loop[o] /\ stop' = stop
    BY <2>1, <2>2
       DEF Dispatch, Claim, ClaimCancelled, TakeEntry, EndPass, Accept, Refuse,
           MarkDelivered, MarkFailed, MarkDead, MarkRefused, NextEntry, Poll, Exit
  <2>3. ASSUME NEW p \in Outboxes, Start(p) PROVE loop'[o] = loop[o] /\ stop' = stop
    BY <2>3 DEF Start
  <2>4. ASSUME NEW p \in Outboxes, StopCall(p) \/ StopCancel(p) \/ StopReturn(p)
        PROVE loop' = loop /\ stop'[o] = "done"
    BY <2>4 DEF StopCall, StopCancel, StopReturn
  <2>5. \/ UNCHANGED <<loop, stop>>
        \/ \E p \in Outboxes : Dispatch(p) \/ Start(p)
                              \/ StopCall(p) \/ StopCancel(p) \/ StopReturn(p)
    BY DEF Next, PublishCheck, PublishSave, PublishAbandon, ParentCancel, Tick, vars
  <2> QED
    BY <2>1, <2>2, <2>3, <2>4, <2>5
<1> QED
  BY <1>1, Invariant, PTL DEF Spec, StoppedForGood

-----------------------------------------------------------------------------
(* The outbox implements Delivery.                                         *)

(* A step that touches none of what the queue shows is a stutter there.    *)
LEMMA HiddenStep ==
  ASSUME UNCHANGED <<pos, delivered, dead, sends, attempts>>
  PROVE  UNCHANGED Queue!vars
BY DEF Queue!vars, Status, Saved

(* The abstract key check is the store's.                                  *)
LEMMA KeyCheck ==
  ASSUME NEW e \in Envelopes
  PROVE  /\ Queue!Kept(e) <=> e \in Saved
         /\ Queue!SameKeyKept(e) <=> KeyUsed(e)
BY DEF Queue!Kept, Queue!SameKeyKept, KeyUsed, Status, Saved

LEMMA QueueInit == Init => Queue!Init
<1> SUFFICES ASSUME Init PROVE Queue!Init
  OBVIOUS
<1>1. /\ \A e \in Envelopes : pos[e] = 0 /\ sends[e] = 0
      /\ attempts = [e \in Envelopes |-> 0]
  BY DEF Init, InitOver
<1>2. Saved = {} /\ {e \in Envelopes : sends[e] > 0} = {}
  BY <1>1 DEF Saved
<1>3. \A e \in Envelopes : Status(e) = "absent"
  BY <1>2 DEF Status
<1> QED
  BY <1>1, <1>2, <1>3 DEF Queue!Init

LEMMA QueueStep == IInv /\ IInv' /\ [Next]_vars => [Queue!Next]_(Queue!vars)
<1> SUFFICES ASSUME IInv, IInv', [Next]_vars PROVE [Queue!Next]_(Queue!vars)
  OBVIOUS
<1>0. AttemptsBound'
  BY AttemptsBounded, PTL
<1> USE OutboxAssumption DEF IInv, TypeInv, TypeOK, EntryOK, Busy, storeVars, lifeVars
<1>1. ASSUME NEW e \in Envelopes, PublishSave(e) PROVE [Queue!Next]_(Queue!vars)
  <2>1. CASE KeyUsed(e)
    BY <1>1, <2>1, HiddenStep DEF PublishSave
  <2>2. CASE ~KeyUsed(e)
    <3>1. pos' = [pos EXCEPT ![e] = Cardinality(Saved) + 1]
          /\ UNCHANGED <<attempts, delivered, dead, sends>>
      BY <1>1, <2>2 DEF PublishSave, SaveEntry
    <3>2. pos[e] = 0 /\ e \notin Saved
      BY <1>1, <2>2 DEF PublishSave, EmitInv, KeyUsed, Saved
    <3>3. e \notin delivered /\ e \notin dead
      BY <3>2 DEF CauseInv
    <3>4. \A x \in Envelopes : Status(x)' = IF x = e THEN "pending" ELSE Status(x)
      BY <3>1, <3>3, NextPosition DEF Status, Saved
    <3>5. Status(e) = "absent"
      BY <3>2 DEF Status
    <3>6. Queue!Emit(e)
      BY <2>2, <3>1, <3>2, <3>4, <3>5, KeyCheck DEF Queue!Emit
    <3> QED
      BY <3>6 DEF Queue!Next
  <2> QED
    BY <2>1, <2>2
<1>2. ASSUME NEW o \in Outboxes, Accept(o) PROVE [Queue!Next]_(Queue!vars)
  <2>1. entry[o] \in Envelopes /\ entry[o] \in Saved
    BY <1>2 DEF Accept, HeldInv, Held, Saved
  <2>2. sends' = [sends EXCEPT ![entry[o]] = IF @ = 0 THEN 1 ELSE 2]
        /\ UNCHANGED <<pos, attempts, delivered, dead>>
    BY <1>2 DEF Accept
  <2>3. {e \in Envelopes : sends'[e] > 0} = {e \in Envelopes : sends[e] > 0} \cup {entry[o]}
    BY <2>1, <2>2
  <2>4. \A x \in Envelopes : Status(x)' = Status(x)
    BY <2>2 DEF Status, Saved
  <2>5. PICK e \in Envelopes : e = entry[o]
    BY <2>1
  <2>6. Queue!Reach(e)
    BY <2>1, <2>2, <2>3, <2>4, <2>5, KeyCheck DEF Queue!Reach
  <2> QED
    BY <2>6 DEF Queue!Next
<1>3. ASSUME NEW o \in Outboxes, MarkDelivered(o) PROVE [Queue!Next]_(Queue!vars)
  <2>1. /\ entry[o] \in Envelopes /\ entry[o] \in Saved /\ sends[entry[o]] > 0
        /\ delivered' = delivered \cup {entry[o]}
        /\ UNCHANGED <<pos, attempts, dead, sends>>
    BY <1>3 DEF MarkDelivered, NextEntry, HeldInv, Held, Saved, CauseInv
  <2>2. \A x \in Envelopes : Status(x)' = IF x = entry[o] THEN "delivered" ELSE Status(x)
    BY <2>1 DEF Status, Saved
  <2>3. Queue!Deliver(entry[o])
    BY <2>1, <2>2, KeyCheck DEF Queue!Deliver
  <2> QED
    BY <2>1, <2>3 DEF Queue!Next
<1>4. ASSUME NEW o \in Outboxes, MarkDead(o) PROVE [Queue!Next]_(Queue!vars)
  <2>1. /\ entry[o] \in Envelopes /\ entry[o] \in Saved
        /\ dead' = dead \cup {entry[o]} /\ entry[o] \in dead'
        /\ UNCHANGED <<pos, attempts, delivered, sends>>
    BY <1>4 DEF MarkDead, NextEntry, HeldInv, Held, Saved
  <2>2. attempts[entry[o]] >= MaxRetries
    BY <2>1 DEF CauseInv
  <2>3. CASE entry[o] \in delivered
    <3>1. \A x \in Envelopes : Status(x)' = Status(x)
      BY <2>1, <2>3 DEF Status, Saved
    <3> QED
      BY <2>1, <3>1 DEF Queue!vars
  <2>4. CASE entry[o] \notin delivered
    <3>1. \A x \in Envelopes : Status(x)' = IF x = entry[o] THEN "dead" ELSE Status(x)
      BY <2>1, <2>4 DEF Status, Saved
    <3>2. Queue!Park(entry[o])
      BY <2>1, <2>2, <3>1, KeyCheck DEF Queue!Park
    <3> QED
      BY <2>1, <3>2 DEF Queue!Next
  <2> QED
    BY <2>3, <2>4
<1>5. ASSUME NEW o \in Outboxes, MarkFailed(o) PROVE [Queue!Next]_(Queue!vars)
  <2>1. /\ entry[o] \in Envelopes /\ entry[o] \in Saved
        /\ attempts' = [attempts EXCEPT ![entry[o]] = @ + 1]
        /\ UNCHANGED <<pos, delivered, dead, sends>>
    BY <1>5 DEF MarkFailed, NextEntry, HeldInv, Held, Saved
  <2>2. attempts[entry[o]] < MaxRetries + Cardinality(Outboxes) - 1
    <3>1. attempts'[entry[o]] <= MaxRetries + Cardinality(Outboxes) - 1
      BY <1>0, <2>1 DEF AttemptsBound
    <3>2. Cardinality(Outboxes) \in Nat
      BY FS_CardinalityType
    <3> QED
      BY <2>1, <3>1, <3>2
  <2>3. \A x \in Envelopes : Status(x)' = Status(x)
    BY <2>1 DEF Status, Saved
  <2>4. Queue!Fail(entry[o])
    BY <2>1, <2>2, <2>3, KeyCheck DEF Queue!Fail
  <2> QED
    BY <2>1, <2>4 DEF Queue!Next
<1>6. ASSUME UNCHANGED <<pos, delivered, dead, sends, attempts>>
      PROVE [Queue!Next]_(Queue!vars)
  BY <1>6, HiddenStep
<1>7. \/ \E e \in Envelopes : PublishSave(e)
      \/ \E o \in Outboxes : Accept(o) \/ MarkDelivered(o) \/ MarkDead(o) \/ MarkFailed(o)
      \/ UNCHANGED <<pos, delivered, dead, sends, attempts>>
  BY DEF Next, PublishCheck, PublishAbandon, Start, StopCall, StopCancel, StopReturn,
         ParentCancel, Dispatch, Claim, ClaimCancelled, TakeEntry, EndPass, Refuse,
         MarkRefused, NextEntry, Poll, Exit, Tick, vars
<1> QED
  BY <1>1, <1>2, <1>3, <1>4, <1>5, <1>6, <1>7

(* Seen through its store, the outbox only ever does what Delivery allows. *)
THEOREM Implements == Spec => ImplementsDelivery
BY QueueInit, QueueStep, Invariant, PTL DEF Spec, Queue!Spec, ImplementsDelivery
=============================================================================

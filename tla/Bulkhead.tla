------------------------------ MODULE Bulkhead ------------------------------
(***************************************************************************)
(* pkg/resilience/bulkhead: goroutines share one Bulkhead. Do takes a slot *)
(* if one is free (fast path), else it counts itself into waiting, is      *)
(* turned away or blocks on the slot channel until a slot, the timer or    *)
(* its context ends the wait (slow path). Every access of the atomic       *)
(* counter and of the channel is a step of its own.                        *)
(*                                                                         *)
(* sem is len(b.sem). A Go channel hands a freed place straight to the     *)
(* sender that has blocked longest; line is that queue of senders. at[c]   *)
(* is where caller c stands in Do:                                         *)
(*   idle      outside                                                     *)
(*   slow      found no slot, not counted yet                              *)
(*   full      counted beyond MaxQueue, has to take itself back            *)
(*   admitted  counted, about to wait                                      *)
(*   queue     blocked on the channel                                      *)
(*   run       in op, by the fast path                                     *)
(*   runQueued in op, by the slow path                                     *)
(*   leave     slow path over, still counted in waiting                    *)
(*                                                                         *)
(* A Do whose context is done on entry changes nothing and is no step. The *)
(* deferred releases run when op panics as when it returns.                *)
(*                                                                         *)
(* Operators marked "Mutant" are no part of the specification: each is a   *)
(* plausible mistake in the definition after it, which a property of the   *)
(* runs must catch.                                                        *)
(***************************************************************************)
EXTENDS Integers, Sequences, FiniteSets, SequencesExt

CONSTANTS
  BulkheadCallers, \* goroutines calling Do
  MaxConcurrent,   \* slots
  MaxQueue         \* callers that may wait

(* New rejects anything else.                                              *)
ASSUME BulkheadAssumption ==
  /\ IsFiniteSet(BulkheadCallers)
  /\ MaxConcurrent \in Nat \ {0}
  /\ MaxQueue \in Nat

VARIABLES sem, waiting, line, at

bulkheadVars == <<sem, waiting, line, at>>

In(S) == {c \in BulkheadCallers : at[c] \in S}

Stages == {"idle", "slow", "full", "admitted", "queue", "run", "runQueued", "leave"}

BulkheadTypeOK ==
  /\ sem \in 0..MaxConcurrent
  /\ waiting \in Int
  /\ line \in Seq(BulkheadCallers)
  /\ at \in [BulkheadCallers -> Stages]

BulkheadInit ==
  /\ sem = 0
  /\ waiting = 0
  /\ line = <<>>
  /\ at = [c \in BulkheadCallers |-> "idle"]

-----------------------------------------------------------------------------
GoTo(c, stage) == at' = [at EXCEPT ![c] = stage]

(* Mutant: the slots have no limit.                                        *)
TakeAnySlot(c, stage) ==
  /\ sem' = sem + 1
  /\ GoTo(c, stage)

TakeSlot(c, stage) ==
  /\ sem < MaxConcurrent
  /\ sem' = sem + 1
  /\ GoTo(c, stage)

EnterFast(c) ==
  /\ at[c] = "idle"
  /\ TakeSlot(c, "run")
  /\ UNCHANGED <<waiting, line>>

EnterSlow(c) ==
  /\ at[c] = "idle"
  /\ sem = MaxConcurrent
  /\ GoTo(c, "slow")
  /\ UNCHANGED <<sem, waiting, line>>

(* Mutant: the queue takes one caller too many.                            *)
CountInOneMore(c) ==
  /\ at[c] = "slow"
  /\ waiting' = waiting + 1
  /\ GoTo(c, IF waiting > MaxQueue THEN "full" ELSE "admitted")
  /\ UNCHANGED <<sem, line>>

(* The increment returns the new value, which decides.                     *)
CountIn(c) ==
  /\ at[c] = "slow"
  /\ waiting' = waiting + 1
  /\ GoTo(c, IF waiting + 1 > MaxQueue THEN "full" ELSE "admitted")
  /\ UNCHANGED <<sem, line>>

(* Mutant: the refused caller stays counted.                               *)
TurnedAwayCounted(c) ==
  /\ at[c] = "full"
  /\ GoTo(c, "idle")
  /\ UNCHANGED <<sem, waiting, line>>

(* Do returns ErrFull.                                                     *)
TurnedAway(c) ==
  /\ at[c] = "full"
  /\ waiting' = waiting - 1
  /\ GoTo(c, "idle")
  /\ UNCHANGED <<sem, line>>

(* The select: a slot that is free by now is taken, else the caller blocks.*)
WaitOver(c) ==
  /\ at[c] = "admitted"
  /\ TakeSlot(c, "runQueued")
  /\ UNCHANGED <<waiting, line>>

(* Mutant: the caller waits for the next slot given back, and does not     *)
(* look whether one has come free since it found none.                     *)
WaitUnlooking(c) ==
  /\ at[c] = "admitted"
  /\ line' = Append(line, c)
  /\ GoTo(c, "queue")
  /\ UNCHANGED <<sem, waiting>>

WaitInLine(c) ==
  /\ at[c] = "admitted"
  /\ sem = MaxConcurrent
  /\ line' = Append(line, c)
  /\ GoTo(c, "queue")
  /\ UNCHANGED <<sem, waiting>>

(* The timer fires (ErrFull) or the context is done, before or while the   *)
(* caller blocks.                                                          *)
GiveUp(c) ==
  /\ \/ at[c] = "admitted" /\ UNCHANGED line
     \/ /\ at[c] = "queue"
        /\ \E i \in DOMAIN line : line[i] = c /\ line' = RemoveAt(line, i)
  /\ GoTo(c, "leave")
  /\ UNCHANGED <<sem, waiting>>

(* What the caller does after giving back its slot: only a caller of the   *)
(* slow path has more to undo.                                             *)
AfterOp(c) == IF at[c] = "run" THEN "idle" ELSE "leave"

(* Mutant: the slot is not received back when op is over.                  *)
FinishKeepingSlot(c) ==
  /\ at[c] \in {"run", "runQueued"}
  /\ GoTo(c, AfterOp(c))
  /\ UNCHANGED <<sem, waiting, line>>

(* op returns and the slot is received back from the channel.              *)
Finish(c) ==
  /\ at[c] \in {"run", "runQueued"}
  /\ IF line = <<>>
     THEN /\ sem' = sem - 1
          /\ GoTo(c, AfterOp(c))
          /\ UNCHANGED line
     ELSE /\ line' = Tail(line)
          /\ at' = [at EXCEPT ![c] = AfterOp(c), ![Head(line)] = "runQueued"]
          /\ UNCHANGED sem
  /\ UNCHANGED waiting

(* The deferred decrement, the last thing Do does on the slow path.        *)
CountOut(c) ==
  /\ at[c] = "leave"
  /\ waiting' = waiting - 1
  /\ GoTo(c, "idle")
  /\ UNCHANGED <<sem, line>>

Enter(c) == EnterFast(c) \/ EnterSlow(c)

(* Steps that need nobody else's.                                          *)
Advance(c) ==
  CountIn(c) \/ TurnedAway(c) \/ WaitOver(c) \/ WaitInLine(c) \/ CountOut(c)

BulkheadNext == \E c \in BulkheadCallers : Enter(c) \/ Advance(c) \/ GiveUp(c) \/ Finish(c)

BulkheadSpec == BulkheadInit /\ [][BulkheadNext]_bulkheadVars

-----------------------------------------------------------------------------
(* Properties.                                                             *)

Queue == In({"queue"})

(* The counters say who is where, whatever interrupts Do: each caller in   *)
(* op has one slot, each caller between the increment and its decrement is *)
(* counted once (bulkhead.go:107-146).                                     *)
Accounting ==
  /\ sem = Cardinality(In({"run", "runQueued"}))
  /\ waiting = Cardinality(In({"full", "admitted", "queue", "runQueued", "leave"}))

(* Never more than MaxQueue callers wait, although waiting itself may      *)
(* overshoot (bulkhead.go:86-90).                                          *)
QueueBounded == Cardinality(In({"admitted", "queue"})) <= MaxQueue

(* Nobody waits beside a free slot.                                        *)
NoIdleSlot == Queue # {} => sem = MaxConcurrent

(* A caller that waits gets its slot, unless it gives up: newcomers cannot *)
(* overtake it for ever.                                                   *)
WaitEnds == \A c \in BulkheadCallers : (at[c] = "queue") ~> (at[c] # "queue")

(* "ErrFull is returned by Do when the bulkhead has no available slot AND  *)
(* the wait queue is already at MaxQueue depth" (bulkhead.go:21-22): a     *)
(* caller is only refused past a full queue. To be generous, the queue is  *)
(* everyone who is counted and not in op: those that wait, that gave up or *)
(* are done, and that were refused and have to take themselves back.       *)
NotInOp == In({"admitted", "queue", "leave", "full"})

FullMeansFull ==
  [][\A c \in BulkheadCallers : at[c] = "slow" /\ at'[c] = "full" =>
       Cardinality(NotInOp) >= MaxQueue]_bulkheadVars
=============================================================================

--------------------------- MODULE Bulkhead_proofs ---------------------------
(***************************************************************************)
(* Proofs about Bulkhead, for any set of callers, number of slots and      *)
(* length of the queue.                                                    *)
(***************************************************************************)
EXTENDS Bulkhead, FiniteSetTheorems, DataLemmas

(* The channel's queue holds exactly the blocked callers, each once.       *)
LineInv ==
  /\ \A i \in 1..Len(line) : at[line[i]] = "queue"
  /\ \A c \in Queue : \E i \in 1..Len(line) : line[i] = c
  /\ \A i, j \in 1..Len(line) : line[i] = line[j] => i = j

InOp == In({"run", "runQueued"})
Counted == In({"full", "admitted", "queue", "runQueued", "leave"})
Entitled == In({"admitted", "queue", "runQueued", "leave"})

(* Those that passed the comparison with MaxQueue are never more than it:  *)
(* each of them saw a counter that included all the others.                *)
EntitledBounded == Cardinality(Entitled) <= MaxQueue

IInv == BulkheadTypeOK /\ LineInv /\ Accounting /\ EntitledBounded /\ NoIdleSlot

-----------------------------------------------------------------------------
(* Groups of callers, and how moving one caller changes their sizes.       *)
LEMMA FiniteGroups ==
  ASSUME NEW S
  PROVE  /\ IsFiniteSet(In(S)) /\ Cardinality(In(S)) \in Nat
BY BulkheadAssumption, FS_Subset, FS_CardinalityType DEF In

LEMMA MoveIn ==
  ASSUME BulkheadTypeOK, NEW S, NEW c \in BulkheadCallers, NEW stage, GoTo(c, stage),
         at[c] \notin S, stage \in S
  PROVE  Cardinality(In(S)') = Cardinality(In(S)) + 1
<1>1. In(S)' = In(S) \cup {c} /\ c \notin In(S)
  BY DEF BulkheadTypeOK, GoTo, In
<1> QED
  BY <1>1, FiniteGroups, FS_AddElement

LEMMA MoveOut ==
  ASSUME BulkheadTypeOK, NEW S, NEW c \in BulkheadCallers, NEW stage, GoTo(c, stage),
         at[c] \in S, stage \notin S
  PROVE  Cardinality(In(S)') = Cardinality(In(S)) - 1
<1>1. In(S)' = In(S) \ {c} /\ c \in In(S)
  BY DEF BulkheadTypeOK, GoTo, In
<1> QED
  BY <1>1, FiniteGroups, FS_RemoveElement

LEMMA MoveWithin ==
  ASSUME BulkheadTypeOK, NEW S, NEW c \in BulkheadCallers, NEW stage, GoTo(c, stage),
         at[c] \in S <=> stage \in S
  PROVE  In(S)' = In(S)
BY DEF BulkheadTypeOK, GoTo, In

-----------------------------------------------------------------------------
LEMMA TypeStep ==
  ASSUME BulkheadTypeOK, LineInv, [BulkheadNext]_bulkheadVars,
         Accounting
  PROVE  BulkheadTypeOK'
<1> USE BulkheadAssumption DEF BulkheadTypeOK, Stages, GoTo
<1>1. ASSUME NEW c \in BulkheadCallers, Enter(c) PROVE BulkheadTypeOK'
  BY <1>1 DEF Enter, EnterFast, EnterSlow, TakeSlot
<1>2. ASSUME NEW c \in BulkheadCallers, CountIn(c) \/ TurnedAway(c) \/ CountOut(c) PROVE BulkheadTypeOK'
  BY <1>2 DEF CountIn, TurnedAway, CountOut
<1>3. ASSUME NEW c \in BulkheadCallers, WaitOver(c) \/ WaitInLine(c) PROVE BulkheadTypeOK'
  BY <1>3 DEF WaitOver, WaitInLine, TakeSlot
<1>4. ASSUME NEW c \in BulkheadCallers, GiveUp(c) PROVE BulkheadTypeOK'
  <2>1. line' \in Seq(BulkheadCallers)
    BY <1>4, RemoveAtProperties DEF GiveUp
  <2> QED
    BY <1>4, <2>1 DEF GiveUp
<1>5. ASSUME NEW c \in BulkheadCallers, Finish(c) PROVE BulkheadTypeOK'
  <2>1. c \in InOp
    BY <1>5 DEF Finish, InOp, In
  <2>2. sem > 0
    BY <2>1, FiniteGroups, FS_EmptySet DEF Accounting, InOp
  <2>3. AfterOp(c) \in Stages
    BY DEF AfterOp
  <2>4. CASE line = <<>>
    BY <1>5, <2>2, <2>3, <2>4 DEF Finish
  <2>5. CASE line # <<>>
    BY <1>5, <2>3, <2>5 DEF Finish
  <2> QED
    BY <2>4, <2>5
<1>6. CASE UNCHANGED bulkheadVars
  BY <1>6 DEF bulkheadVars
<1> QED
  BY <1>1, <1>2, <1>3, <1>4, <1>5, <1>6 DEF BulkheadNext, Advance

-----------------------------------------------------------------------------
(* The channel's queue. The hand-over takes its first caller out of both.  *)
LEMMA HandedOver ==
  ASSUME BulkheadTypeOK, LineInv, NEW c \in BulkheadCallers, Finish(c), line # <<>>
  PROVE  /\ Head(line) \in BulkheadCallers /\ at[Head(line)] = "queue" /\ Head(line) # c
         /\ at' = [at EXCEPT ![c] = AfterOp(c), ![Head(line)] = "runQueued"]
         /\ line' = Tail(line)
BY DEF BulkheadTypeOK, LineInv, Finish

LEMMA LineKept ==
  ASSUME BulkheadTypeOK, LineInv, UNCHANGED line, NEW c \in BulkheadCallers, NEW stage, GoTo(c, stage),
         at[c] # "queue", stage # "queue"
  PROVE  LineInv'
BY DEF BulkheadTypeOK, LineInv, Queue, In, GoTo

LEMMA LineStep ==
  ASSUME BulkheadTypeOK, LineInv, [BulkheadNext]_bulkheadVars
  PROVE  LineInv'
<1>1. ASSUME NEW c \in BulkheadCallers, Enter(c) PROVE LineInv'
  BY <1>1, LineKept DEF Enter, EnterFast, EnterSlow, TakeSlot
<1>2. ASSUME NEW c \in BulkheadCallers, CountIn(c) PROVE LineInv'
  <2>1. PICK stage \in {"full", "admitted"} : GoTo(c, stage)
    BY <1>2 DEF CountIn
  <2> QED
    BY <1>2, <2>1, LineKept DEF CountIn
<1>3. ASSUME NEW c \in BulkheadCallers, TurnedAway(c) \/ CountOut(c) \/ WaitOver(c) PROVE LineInv'
  BY <1>3, LineKept DEF TurnedAway, CountOut, WaitOver, TakeSlot
<1>4. ASSUME NEW c \in BulkheadCallers, WaitInLine(c) PROVE LineInv'
  <2>1. /\ line \in Seq(BulkheadCallers) /\ line' = Append(line, c)
        /\ at[c] = "admitted" /\ at' = [at EXCEPT ![c] = "queue"]
    BY <1>4 DEF WaitInLine, GoTo, BulkheadTypeOK
  <2>2. /\ Len(line') = Len(line) + 1 /\ line'[Len(line) + 1] = c
        /\ \A i \in 1..Len(line) : line'[i] = line[i]
    BY <2>1
  <2>3. Queue' = Queue \cup {c}
    BY <2>1 DEF Queue, In, BulkheadTypeOK
  <2>4. \A i \in 1..Len(line) : line[i] # c
    BY <2>1 DEF LineInv
  <2>5. \A i \in 1..Len(line') : at'[line'[i]] = "queue"
    BY <2>1, <2>2 DEF LineInv, BulkheadTypeOK
  <2>6. \A d \in Queue' : \E i \in 1..Len(line') : line'[i] = d
    <3>1. ASSUME NEW d \in Queue PROVE \E i \in 1..Len(line') : line'[i] = d
      BY <2>1, <2>2 DEF LineInv
    <3>2. Len(line) + 1 \in 1..Len(line')
      BY <2>1, <2>2
    <3> QED
      BY <2>2, <2>3, <3>1, <3>2
  <2>7. \A i, j \in 1..Len(line') : line'[i] = line'[j] => i = j
    <3> SUFFICES ASSUME NEW i \in 1..Len(line'), NEW j \in 1..Len(line'), line'[i] = line'[j]
                 PROVE  i = j
      OBVIOUS
    <3>1. /\ i \in 1..Len(line) \/ i = Len(line) + 1
          /\ j \in 1..Len(line) \/ j = Len(line) + 1
      BY <2>1, <2>2
    <3> QED
      BY <2>2, <2>4, <3>1 DEF LineInv
  <2> QED
    BY <2>5, <2>6, <2>7 DEF LineInv
<1>5. ASSUME NEW c \in BulkheadCallers, GiveUp(c) PROVE LineInv'
  <2>1. CASE at[c] = "admitted"
    BY <1>5, <2>1, LineKept DEF GiveUp
  <2>2. CASE at[c] = "queue"
    <3>1. PICK k \in 1..Len(line) : line[k] = c /\ line' = RemoveAt(line, k)
      BY <1>5, <2>2 DEF GiveUp, BulkheadTypeOK
    <3>2. /\ Len(line') = Len(line) - 1
          /\ \A i \in 1..Len(line') : line'[i] = line[IF i < k THEN i ELSE i + 1]
      BY <3>1, RemoveAtProperties DEF BulkheadTypeOK
    <3>3. at' = [at EXCEPT ![c] = "leave"] /\ Queue' = Queue \ {c}
      BY <1>5 DEF GiveUp, GoTo, Queue, In, BulkheadTypeOK
    <3>4. \A i \in 1..Len(line') :
            /\ (IF i < k THEN i ELSE i + 1) \in 1..Len(line)
            /\ (IF i < k THEN i ELSE i + 1) # k
      BY <3>2 DEF BulkheadTypeOK
    <3>5. \A i \in 1..Len(line') : at'[line'[i]] = "queue"
      <4> SUFFICES ASSUME NEW i \in 1..Len(line') PROVE at'[line'[i]] = "queue"
        OBVIOUS
      <4>1. PICK h \in 1..Len(line) : h # k /\ line'[i] = line[h]
        BY <3>2, <3>4
      <4> QED
        BY <3>1, <3>3, <4>1 DEF LineInv, BulkheadTypeOK
    <3>6. \A d \in Queue' : \E i \in 1..Len(line') : line'[i] = d
      <4> SUFFICES ASSUME NEW d \in Queue' PROVE \E i \in 1..Len(line') : line'[i] = d
        OBVIOUS
      <4>1. PICK h \in 1..Len(line) : line[h] = d /\ h # k
        BY <3>1, <3>3 DEF LineInv
      <4>2. CASE h < k
        BY <3>1, <3>2, <4>1, <4>2 DEF BulkheadTypeOK
      <4>3. CASE h > k
        <5>1. h - 1 \in 1..Len(line') /\ line'[h - 1] = line[h]
          BY <3>1, <3>2, <4>1, <4>3 DEF BulkheadTypeOK
        <5> QED
          BY <4>1, <5>1
      <4> QED
        BY <4>1, <4>2, <4>3
    <3>7. \A i, j \in 1..Len(line') : line'[i] = line'[j] => i = j
      BY <3>1, <3>2, <3>4 DEF LineInv, BulkheadTypeOK
    <3> QED
      BY <3>5, <3>6, <3>7 DEF LineInv
  <2> QED
    BY <1>5, <2>1, <2>2 DEF GiveUp
<1>6. ASSUME NEW c \in BulkheadCallers, Finish(c) PROVE LineInv'
  <2>0. AfterOp(c) \in {"idle", "leave"} /\ at[c] \in {"run", "runQueued"}
    BY <1>6 DEF AfterOp, Finish
  <2>1. CASE line = <<>>
    BY <1>6, <2>0, <2>1, LineKept DEF Finish
  <2>2. CASE line # <<>>
    <3>1. /\ line' = Tail(line) /\ Head(line) = line[1] /\ line \in Seq(BulkheadCallers)
          /\ Len(line') = Len(line) - 1 /\ Len(line) > 0
          /\ \A i \in 1..Len(line') : line'[i] = line[i + 1]
      BY <1>6, <2>2, HandedOver, HeadTailProperties DEF BulkheadTypeOK
    <3>2. Queue' = Queue \ {Head(line)}
      BY <1>6, <2>0, <2>2, HandedOver DEF Queue, In, BulkheadTypeOK
    <3>3. \A i \in 1..Len(line') : at'[line'[i]] = "queue"
      <4> SUFFICES ASSUME NEW i \in 1..Len(line') PROVE at'[line'[i]] = "queue"
        OBVIOUS
      <4>1. line'[i] = line[i + 1] /\ i + 1 \in 1..Len(line) /\ 1 \in 1..Len(line)
        BY <3>1
      <4>2. line[i + 1] # Head(line) /\ at[line[i + 1]] = "queue" /\ line[i + 1] \in BulkheadCallers
        BY <3>1, <4>1 DEF LineInv
      <4> QED
        BY <1>6, <2>0, <2>2, <4>1, <4>2, HandedOver DEF BulkheadTypeOK
    <3>4. \A d \in Queue' : \E i \in 1..Len(line') : line'[i] = d
      <4> SUFFICES ASSUME NEW d \in Queue' PROVE \E i \in 1..Len(line') : line'[i] = d
        OBVIOUS
      <4>1. PICK h \in 1..Len(line) : line[h] = d /\ h # 1
        BY <3>1, <3>2 DEF LineInv
      <4>2. h - 1 \in 1..Len(line') /\ line'[h - 1] = line[h]
        BY <3>1, <4>1
      <4> QED
        BY <4>1, <4>2
    <3>5. \A i, j \in 1..Len(line') : line'[i] = line'[j] => i = j
      BY <3>1 DEF LineInv
    <3> QED
      BY <3>3, <3>4, <3>5 DEF LineInv
  <2> QED
    BY <2>1, <2>2
<1>7. CASE UNCHANGED bulkheadVars
  BY <1>7 DEF bulkheadVars, LineInv, Queue, In
<1> QED
  BY <1>1, <1>2, <1>3, <1>4, <1>5, <1>6, <1>7 DEF BulkheadNext, Advance

-----------------------------------------------------------------------------
(* Slots: each caller in op has one.                                       *)
LEMMA HandoverGroups ==
  ASSUME BulkheadTypeOK, LineInv, NEW c \in BulkheadCallers, Finish(c), line # <<>>
  PROVE  /\ Cardinality(InOp') = Cardinality(InOp)
         /\ Counted' = Counted /\ Entitled' = Entitled
<1>1. Head(line) \in BulkheadCallers /\ at[Head(line)] = "queue" /\ Head(line) # c
  BY HandedOver
<1>2. PICK h \in BulkheadCallers : h = Head(line) /\ at[h] = "queue" /\ h # c
  BY <1>1
<1>3. at' = [at EXCEPT ![c] = AfterOp(c), ![h] = "runQueued"]
  BY <1>2, HandedOver
<1>4. /\ at[c] \in {"run", "runQueued"}
      /\ at[c] = "run" => AfterOp(c) = "idle"
      /\ at[c] = "runQueued" => AfterOp(c) = "leave"
  BY DEF Finish, AfterOp
<1>5. InOp' = (InOp \ {c}) \cup {h} /\ c \in InOp /\ h \notin InOp
  BY <1>2, <1>3, <1>4 DEF InOp, In, BulkheadTypeOK
<1>6. Cardinality(InOp') = Cardinality(InOp)
  <2>1. /\ IsFiniteSet(InOp \ {c})
        /\ Cardinality(InOp \ {c}) = Cardinality(InOp) - 1
    BY <1>5, FiniteGroups, FS_RemoveElement DEF InOp
  <2>2. Cardinality(InOp') = Cardinality(InOp \ {c}) + 1
    BY <1>5, <2>1, FS_AddElement
  <2> QED
    BY <2>1, <2>2, FiniteGroups DEF InOp
<1>7. Counted' = Counted /\ Entitled' = Entitled
  BY <1>2, <1>3, <1>4 DEF Counted, Entitled, In, BulkheadTypeOK
<1> QED
  BY <1>6, <1>7

LEMMA CountsStep ==
  ASSUME BulkheadTypeOK, LineInv, Accounting, EntitledBounded, [BulkheadNext]_bulkheadVars
  PROVE  Accounting' /\ EntitledBounded'
<1> USE DEF Accounting, EntitledBounded, InOp, Counted, Entitled
<1>0. ASSUME NEW S PROVE Cardinality(In(S)) \in Nat
  BY FiniteGroups
<1>1. ASSUME NEW c \in BulkheadCallers, EnterFast(c) PROVE Accounting' /\ EntitledBounded'
  <2>1. at[c] = "idle" /\ GoTo(c, "run") /\ sem' = sem + 1 /\ UNCHANGED waiting
    BY <1>1 DEF EnterFast, TakeSlot
  <2>2. Cardinality(InOp') = Cardinality(InOp) + 1
    BY <2>1, MoveIn
  <2>3. Counted' = Counted /\ Entitled' = Entitled
    BY <2>1, MoveWithin
  <2> QED
    BY <2>1, <2>2, <2>3
<1>2. ASSUME NEW c \in BulkheadCallers, EnterSlow(c) PROVE Accounting' /\ EntitledBounded'
  <2>1. at[c] = "idle" /\ GoTo(c, "slow") /\ UNCHANGED <<sem, waiting>>
    BY <1>2 DEF EnterSlow
  <2>2. InOp' = InOp /\ Counted' = Counted /\ Entitled' = Entitled
    BY <2>1, MoveWithin
  <2> QED
    BY <2>1, <2>2
<1>3. ASSUME NEW c \in BulkheadCallers, CountIn(c) PROVE Accounting' /\ EntitledBounded'
  <2>0. at[c] = "slow" /\ waiting' = waiting + 1 /\ UNCHANGED sem
    BY <1>3 DEF CountIn
  <2>1. CASE waiting + 1 > MaxQueue
    <3>1. GoTo(c, "full")
      BY <1>3, <2>1 DEF CountIn
    <3>2. InOp' = InOp /\ Entitled' = Entitled
      BY <2>0, <3>1, MoveWithin
    <3>3. Cardinality(Counted') = Cardinality(Counted) + 1
      BY <2>0, <3>1, MoveIn
    <3> QED
      BY <2>0, <3>2, <3>3
  <2>2. CASE ~(waiting + 1 > MaxQueue)
    <3>1. GoTo(c, "admitted")
      BY <1>3, <2>2 DEF CountIn
    <3>2. InOp' = InOp
      BY <2>0, <3>1, MoveWithin
    <3>3. Cardinality(Counted') = Cardinality(Counted) + 1
      BY <2>0, <3>1, MoveIn
    <3>4. Cardinality(Entitled') = Cardinality(Entitled) + 1
      BY <2>0, <3>1, MoveIn
    <3>5. Cardinality(Entitled) <= Cardinality(Counted)
      <4>1. Entitled \subseteq Counted
        BY DEF In
      <4> QED
        BY <4>1, FiniteGroups, FS_Subset
    <3> QED
      BY <1>0, <2>0, <2>2, <3>2, <3>3, <3>4, <3>5, BulkheadAssumption
  <2> QED
    BY <2>1, <2>2
<1>4. ASSUME NEW c \in BulkheadCallers, TurnedAway(c) PROVE Accounting' /\ EntitledBounded'
  <2>1. at[c] = "full" /\ GoTo(c, "idle") /\ waiting' = waiting - 1 /\ UNCHANGED sem
    BY <1>4 DEF TurnedAway
  <2>2. Cardinality(Counted') = Cardinality(Counted) - 1
    BY <2>1, MoveOut
  <2>3. InOp' = InOp /\ Entitled' = Entitled
    BY <2>1, MoveWithin
  <2> QED
    BY <2>1, <2>2, <2>3
<1>5. ASSUME NEW c \in BulkheadCallers, WaitOver(c) PROVE Accounting' /\ EntitledBounded'
  <2>1. at[c] = "admitted" /\ GoTo(c, "runQueued") /\ sem' = sem + 1 /\ UNCHANGED waiting
    BY <1>5 DEF WaitOver, TakeSlot
  <2>2. Cardinality(InOp') = Cardinality(InOp) + 1
    BY <2>1, MoveIn
  <2>3. Counted' = Counted /\ Entitled' = Entitled
    BY <2>1, MoveWithin
  <2> QED
    BY <2>1, <2>2, <2>3
<1>6. ASSUME NEW c \in BulkheadCallers, WaitInLine(c) PROVE Accounting' /\ EntitledBounded'
  <2>1. at[c] = "admitted" /\ GoTo(c, "queue") /\ UNCHANGED <<sem, waiting>>
    BY <1>6 DEF WaitInLine
  <2>2. InOp' = InOp /\ Counted' = Counted /\ Entitled' = Entitled
    BY <2>1, MoveWithin
  <2> QED
    BY <2>1, <2>2
<1>7. ASSUME NEW c \in BulkheadCallers, GiveUp(c) PROVE Accounting' /\ EntitledBounded'
  <2>1. at[c] \in {"admitted", "queue"} /\ GoTo(c, "leave") /\ UNCHANGED <<sem, waiting>>
    BY <1>7 DEF GiveUp
  <2>2. InOp' = InOp /\ Counted' = Counted /\ Entitled' = Entitled
    BY <2>1, MoveWithin
  <2> QED
    BY <2>1, <2>2
<1>8. ASSUME NEW c \in BulkheadCallers, Finish(c) PROVE Accounting' /\ EntitledBounded'
  <2>0. /\ \/ at[c] = "run" /\ AfterOp(c) = "idle"
           \/ at[c] = "runQueued" /\ AfterOp(c) = "leave"
        /\ UNCHANGED waiting
    BY <1>8 DEF Finish, AfterOp
  <2>1. CASE line = <<>>
    <3>1. GoTo(c, AfterOp(c)) /\ sem' = sem - 1
      BY <1>8, <2>1 DEF Finish
    <3>2. Cardinality(InOp') = Cardinality(InOp) - 1
      BY <2>0, <3>1, MoveOut
    <3>3. Counted' = Counted /\ Entitled' = Entitled
      BY <2>0, <3>1, MoveWithin
    <3> QED
      BY <2>0, <3>1, <3>2, <3>3
  <2>2. CASE line # <<>>
    <3>1. UNCHANGED sem
      BY <1>8, <2>2 DEF Finish
    <3> QED
      BY <1>8, <2>0, <2>2, <3>1, HandoverGroups
  <2> QED
    BY <2>1, <2>2
<1>9. ASSUME NEW c \in BulkheadCallers, CountOut(c) PROVE Accounting' /\ EntitledBounded'
  <2>1. at[c] = "leave" /\ GoTo(c, "idle") /\ waiting' = waiting - 1 /\ UNCHANGED sem
    BY <1>9 DEF CountOut
  <2>2. Cardinality(Counted') = Cardinality(Counted) - 1
    BY <2>1, MoveOut
  <2>3. Cardinality(Entitled') = Cardinality(Entitled) - 1
    BY <2>1, MoveOut
  <2>4. InOp' = InOp
    BY <2>1, MoveWithin
  <2> QED
    BY <1>0, <2>1, <2>2, <2>3, <2>4, BulkheadAssumption
<1>10. CASE UNCHANGED bulkheadVars
  BY <1>10 DEF bulkheadVars, In
<1> QED
  BY <1>1, <1>2, <1>3, <1>4, <1>5, <1>6, <1>7, <1>8, <1>9, <1>10 DEF BulkheadNext, Enter, Advance

-----------------------------------------------------------------------------
LEMMA NoIdleStep ==
  ASSUME BulkheadTypeOK, LineInv, NoIdleSlot, [BulkheadNext]_bulkheadVars
  PROVE  NoIdleSlot'
<1> USE DEF NoIdleSlot, Queue, In, BulkheadTypeOK, GoTo
<1>1. ASSUME NEW c \in BulkheadCallers, Enter(c) PROVE NoIdleSlot'
  BY <1>1 DEF Enter, EnterFast, EnterSlow, TakeSlot
<1>2. ASSUME NEW c \in BulkheadCallers, CountIn(c) \/ TurnedAway(c) \/ CountOut(c) PROVE NoIdleSlot'
  BY <1>2 DEF CountIn, TurnedAway, CountOut
<1>3. ASSUME NEW c \in BulkheadCallers, WaitOver(c) \/ WaitInLine(c) \/ GiveUp(c) PROVE NoIdleSlot'
  BY <1>3 DEF WaitOver, WaitInLine, GiveUp, TakeSlot
<1>4. ASSUME NEW c \in BulkheadCallers, Finish(c) PROVE NoIdleSlot'
  <2>0. AfterOp(c) \in {"idle", "leave"}
    BY DEF AfterOp
  <2>1. CASE line = <<>>
    <3>1. Queue = {}
      BY <2>1 DEF LineInv
    <3>2. Queue' = {}
      BY <1>4, <2>0, <2>1, <3>1 DEF Finish
    <3> QED
      BY <3>2
  <2>2. CASE line # <<>>
    <3>1. UNCHANGED sem /\ sem = MaxConcurrent
      BY <1>4, <2>2, HandedOver DEF Finish
    <3> QED
      BY <3>1
  <2> QED
    BY <2>1, <2>2
<1>5. CASE UNCHANGED bulkheadVars
  BY <1>5 DEF bulkheadVars
<1> QED
  BY <1>1, <1>2, <1>3, <1>4, <1>5 DEF BulkheadNext, Advance

LEMMA IInvInit == BulkheadInit => IInv
<1> SUFFICES ASSUME BulkheadInit PROVE IInv
  OBVIOUS
<1> USE BulkheadAssumption DEF BulkheadInit
<1>1. BulkheadTypeOK
  BY DEF BulkheadTypeOK, Stages
<1>2. InOp = {} /\ Counted = {} /\ Entitled = {} /\ Queue = {}
  BY DEF InOp, Counted, Entitled, Queue, In
<1>3. Accounting /\ EntitledBounded
  <2>1. Cardinality({}) = 0
    BY FS_EmptySet
  <2>2. Cardinality(InOp) = 0 /\ Cardinality(Counted) = 0 /\ Cardinality(Entitled) = 0
    BY <1>2, <2>1
  <2>3. EntitledBounded
    BY <2>2 DEF EntitledBounded
  <2> QED
    BY <2>2, <2>3 DEF Accounting, InOp, Counted
<1>4. LineInv /\ NoIdleSlot
  BY <1>2 DEF LineInv, NoIdleSlot
<1> QED
  BY <1>1, <1>3, <1>4 DEF IInv

(* The inductive invariant holds throughout.                               *)
THEOREM BulkheadInvariant == BulkheadSpec => []IInv
<1>1. IInv /\ [BulkheadNext]_bulkheadVars => IInv'
  BY TypeStep, LineStep, CountsStep, NoIdleStep DEF IInv
<1> QED
  BY IInvInit, <1>1, PTL DEF BulkheadSpec

(* The channel never exceeds its capacity (bulkhead.go:72), whatever the   *)
(* number of callers.                                                      *)
THEOREM BulkheadTypeCorrect == BulkheadSpec => []BulkheadTypeOK
<1>1. IInv => BulkheadTypeOK
  BY DEF IInv
<1> QED
  BY <1>1, BulkheadInvariant, PTL

(* The counters are exact: however Do is left, slot and place are given    *)
(* back once (bulkhead.go:106-146).                                        *)
THEOREM AccountingExact == BulkheadSpec => []Accounting
<1>1. IInv => Accounting
  BY DEF IInv
<1> QED
  BY <1>1, BulkheadInvariant, PTL

(* No more than MaxQueue callers wait (bulkhead.go:117-122), although the  *)
(* counter that decides this overshoots.                                   *)
THEOREM QueueStaysBounded == BulkheadSpec => []QueueBounded
<1>1. IInv => QueueBounded
  <2> SUFFICES ASSUME IInv PROVE QueueBounded
    OBVIOUS
  <2>1. In({"admitted", "queue"}) \subseteq Entitled
    BY DEF In, Entitled
  <2>2. Cardinality(In({"admitted", "queue"})) <= Cardinality(Entitled)
    BY <2>1, FiniteGroups, FS_Subset DEF Entitled
  <2>3. /\ Cardinality(In({"admitted", "queue"})) \in Nat
        /\ Cardinality(Entitled) \in Nat
    BY FiniteGroups DEF Entitled
  <2> QED
    BY <2>2, <2>3, BulkheadAssumption DEF IInv, EntitledBounded, QueueBounded
<1> QED
  BY <1>1, BulkheadInvariant, PTL

(* Nobody waits while a slot is free (bulkhead.go:125-145).                *)
THEOREM SlotsNotIdle == BulkheadSpec => []NoIdleSlot
<1>1. IInv => NoIdleSlot
  BY DEF IInv
<1> QED
  BY <1>1, BulkheadInvariant, PTL
=============================================================================

-------------------------- MODULE MemoryBus_proofs --------------------------
(***************************************************************************)
(* Proofs about MemoryBus, for any publishers, workers, subscriptions and  *)
(* queue size.                                                             *)
(***************************************************************************)
EXTENDS MemoryBus, FiniteSetTheorems, DataLemmas

(* The line of blocked senders holds each of them once; a sync bus has no  *)
(* line.                                                                   *)
SendersInv ==
  /\ \A i \in 1..Len(sending) : pub[sending[i]] = "blocked"
  /\ \A i, j \in 1..Len(sending) : sending[i] = sending[j] => i = j
  /\ ~async => sending = <<>>

(* A worker leaves an empty, closed queue and no job of its own.           *)
GoneInv ==
  /\ gone # {} => async /\ QueueClosed /\ queue = <<>>
  /\ \A w \in gone : todo[w] = <<>>

IInv ==
  /\ TypeOK
  /\ SendersInv
  /\ GoneInv
  /\ Accounting
  /\ NoSenderLeftBehind
  /\ DrainedOnReturn

Dispatching == {a \in Actors : pub[a] = "dispatch"}

-----------------------------------------------------------------------------
LEMMA ActorsFinite == IsFiniteSet(Actors) /\ IsFiniteSet(Dispatching)
<1>1. IsFiniteSet(Actors)
  BY BusAssumption, FS_Union DEF Actors
<1> QED
  BY <1>1, FS_Subset DEF Dispatching

LEMMA FirstSender ==
  ASSUME TypeOK, SendersInv, sending # <<>>
  PROVE  Head(sending) \in Actors /\ pub[Head(sending)] = "blocked"
BY HeadTailProperties DEF TypeOK, SendersInv

-----------------------------------------------------------------------------
(* Types.                                                                  *)
LEMMA TypeSubscriptions ==
  ASSUME TypeOK, NEW h \in Handlers, Subscribe(h) \/ Cancel(h)
  PROVE  TypeOK'
<1>1. CASE Subscribe(h)
  BY <1>1 DEF Subscribe, TypeOK, pubVars
<1>2. CASE Cancel(h)
  <2>1. subscribers' \in Seq(Handlers)
    BY <1>2, RemoveAtProperties DEF Cancel, TypeOK
  <2> QED
    BY <1>2, <2>1 DEF Cancel, TypeOK, pubVars
<1> QED
  BY <1>1, <1>2

LEMMA TypePublish ==
  ASSUME TypeOK, Accounting, NEW a \in Actors, Publish(a)
  PROVE  TypeOK'
<1> USE DEF TypeOK, LeavePublish
<1>1. CASE Check(a)
  BY <1>1 DEF Check
<1>2. CASE Send(a)
  <2>1. /\ queue \in Seq(Seq(Handlers)) /\ held[a] \in Seq(Handlers)
        /\ queue' = Append(queue, held[a]) /\ Len(queue) < QueueSize
    BY <1>2 DEF Send
  <2>2. queue' \in Seq(Seq(Handlers)) /\ Len(queue') = Len(queue) + 1
    <3> HIDE DEF TypeOK
    <3> QED
      BY <2>1, AppendProperties
  <2>3. Len(queue') <= QueueSize
    BY <2>1, <2>2, BusAssumption
  <2> QED
    BY <1>2, <2>2, <2>3 DEF Send
<1>3. CASE SendOnClosed(a)
  BY <1>3 DEF SendOnClosed
<1>4. CASE FindClosed(a)
  <2>1. <<>> \in Seq(Handlers)
    OBVIOUS
  <2> QED
    BY <1>4, <2>1 DEF FindClosed
<1>5. CASE Block(a)
  <2>1. sending' \in Seq(Actors)
    BY <1>5 DEF Block
  <2> QED
    BY <1>5, <2>1 DEF Block
<1>6. CASE BeginDispatch(a)
  BY <1>6 DEF BeginDispatch
<1>7. CASE NextHandler(a)
  <2>1. Tail(todo[a]) \in Seq(Handlers)
    BY <1>7 DEF NextHandler
  <2> QED
    BY <1>7, <2>1 DEF NextHandler, pubVars
<1>8. CASE EndDispatch(a)
  <2>1. a \in Dispatching
    BY <1>8 DEF EndDispatch, Dispatching
  <2>2. Cardinality(Dispatching) # 0
    BY <2>1, ActorsFinite, FS_EmptySet
  <2>3. inFlight > 0
    BY <2>2 DEF Accounting, Dispatching
  <2> QED
    BY <1>8, <2>3 DEF EndDispatch
<1>9. CASE GiveUp(a)
  <2>1. sending' \in Seq(Actors)
    BY <1>9, RemoveAtProperties DEF GiveUp
  <2> QED
    BY <1>9, <2>1 DEF GiveUp
<1> QED
  BY <1>1, <1>2, <1>3, <1>4, <1>5, <1>6, <1>7, <1>8, <1>9 DEF Publish, Proceed

LEMMA TypeWork ==
  ASSUME TypeOK, SendersInv, NEW w \in Workers, Work(w)
  PROVE  TypeOK'
<1> USE DEF TypeOK
<1>0. w \in Actors
  BY DEF Actors
<1>1. CASE Receive(w)
  <2>1. /\ Head(queue) \in Seq(Handlers) /\ Tail(queue) \in Seq(Seq(Handlers))
        /\ Len(Tail(queue)) = Len(queue) - 1
    BY <1>1, HeadTailProperties DEF Receive
  <2>2. todo' \in [Actors -> Seq(Handlers)]
    BY <1>0, <1>1, <2>1 DEF Receive
  <2>3. CASE sending = <<>>
    <3>1. queue' = Tail(queue)
      BY <1>1, <2>3 DEF Receive
    <3>2. Len(queue) \in Nat /\ QueueSize \in Nat
      BY BusAssumption
    <3>3. queue' \in Seq(Seq(Handlers)) /\ Len(queue') <= QueueSize
      BY <2>1, <3>1, <3>2
    <3> QED
      BY <1>1, <2>2, <2>3, <3>3 DEF Receive, pubVars
  <2>4. CASE sending # <<>>
    <3>1. Head(sending) \in Actors /\ Tail(sending) \in Seq(Actors)
      BY <2>4, HeadTailProperties
    <3>2. held[Head(sending)] \in Seq(Handlers)
      BY <3>1
    <3>3. queue' = Append(Tail(queue), held[Head(sending)]) /\ Len(queue) \in Nat
      BY <1>1, <2>4 DEF Receive
    <3>4. queue' \in Seq(Seq(Handlers)) /\ Len(queue') = Len(queue)
      <4> HIDE DEF TypeOK
      <4> QED
        BY <2>1, <3>2, <3>3, AppendProperties
    <3>5. UNCHANGED <<async, subscribers, cancelled, gone, inFlight, closing>>
      BY <1>1 DEF Receive
    <3>6. sending' \in Seq(Actors)
      BY <1>1, <2>4, <3>1 DEF Receive
    <3>7. pub' \in [Actors -> {"none", "checked", "blocked", "dispatch", "panicked"}]
      BY <1>1, <2>4, <3>1 DEF Receive, LeavePublish
    <3>8. held' \in [Actors -> Seq(Handlers)]
      <4>1. <<>> \in Seq(Handlers)
        OBVIOUS
      <4>2. held' = [held EXCEPT ![Head(sending)] = <<>>]
        BY <1>1, <2>4 DEF Receive, LeavePublish
      <4> QED
        BY <4>1, <4>2
    <3> QED
      BY <2>2, <3>4, <3>5, <3>6, <3>7, <3>8
  <2> QED
    BY <2>3, <2>4
<1>2. CASE HandlerReturns(w)
  <2>1. Tail(todo[w]) \in Seq(Handlers)
    BY <1>0, <1>2 DEF HandlerReturns
  <2> QED
    BY <1>2, <2>1 DEF HandlerReturns, pubVars
<1>3. CASE Exit(w)
  BY <1>3 DEF Exit, pubVars
<1> QED
  BY <1>1, <1>2, <1>3 DEF Work

LEMMA TypeClose ==
  ASSUME TypeOK, Close
  PROVE  TypeOK'
<1>1. CASE CancelLifecycle
  <2>1. <<>> \in Seq(Handlers) /\ <<>> \in Seq(Actors)
    OBVIOUS
  <2>2. held' \in [Actors -> Seq(Handlers)]
    BY <1>1, <2>1 DEF CancelLifecycle, TypeOK
  <2>3. pub' \in [Actors -> {"none", "checked", "blocked", "dispatch", "panicked"}]
    BY <1>1 DEF CancelLifecycle, TypeOK
  <2> QED
    BY <1>1, <2>1, <2>2, <2>3 DEF CancelLifecycle, TypeOK, CloseStages
<1>2. CASE MarkClosed \/ CloseQueue \/ AwaitWorkers \/ AwaitDispatches
  BY <1>2 DEF MarkClosed, CloseQueue, AwaitWorkers, AwaitDispatches, TypeOK, CloseStages, pubVars
<1> QED
  BY <1>1, <1>2 DEF Close

-----------------------------------------------------------------------------
(* The line of blocked senders.                                            *)
LEMMA SendersKept ==
  ASSUME TypeOK, SendersInv, UNCHANGED <<async, sending>>, NEW a \in Actors,
         pub[a] # "blocked", NEW stage, pub' = [pub EXCEPT ![a] = stage]
  PROVE  SendersInv'
BY DEF TypeOK, SendersInv

LEMMA SendersPublish ==
  ASSUME TypeOK, SendersInv, NEW a \in Actors, Publish(a)
  PROVE  SendersInv'
<1>1. CASE Check(a)
  BY <1>1, SendersKept DEF Check, MayPublish
<1>2. CASE Send(a) \/ SendOnClosed(a) \/ FindClosed(a)
  BY <1>2, SendersKept DEF Send, SendOnClosed, FindClosed, LeavePublish
<1>3. CASE Block(a)
  <2>1. /\ sending' = Append(sending, a) /\ pub' = [pub EXCEPT ![a] = "blocked"]
        /\ pub[a] = "checked" /\ sending \in Seq(Actors) /\ async'
    BY <1>3 DEF Block, TypeOK
  <2>2. /\ Len(sending') = Len(sending) + 1 /\ sending'[Len(sending) + 1] = a
        /\ \A i \in 1..Len(sending) : sending'[i] = sending[i]
    BY <2>1, AppendProperties
  <2>3. \A i \in 1..Len(sending) : sending[i] # a
    BY <2>1 DEF SendersInv
  <2>4. \A i \in 1..Len(sending') : i \in 1..Len(sending) \/ i = Len(sending) + 1
    BY <2>1, <2>2
  <2> QED
    BY <2>1, <2>2, <2>3, <2>4 DEF SendersInv, TypeOK
<1>4. CASE BeginDispatch(a) \/ EndDispatch(a)
  BY <1>4, SendersKept DEF BeginDispatch, EndDispatch
<1>5. CASE NextHandler(a)
  BY <1>5 DEF NextHandler, SendersInv, pubVars
<1>6. CASE GiveUp(a)
  <2>1. CASE pub[a] = "checked"
    BY <1>6, <2>1, SendersKept DEF GiveUp, LeavePublish
  <2>2. CASE pub[a] = "blocked"
    <3>1. PICK k \in 1..Len(sending) : sending[k] = a /\ sending' = RemoveAt(sending, k)
      BY <1>6, <2>2 DEF GiveUp, TypeOK
    <3>2. /\ Len(sending') = Len(sending) - 1
          /\ \A i \in 1..Len(sending') :
               sending'[i] = sending[IF i < k THEN i ELSE i + 1]
      BY <3>1, RemoveAtProperties DEF TypeOK
    <3>3. \A i \in 1..Len(sending') :
            /\ (IF i < k THEN i ELSE i + 1) \in 1..Len(sending)
            /\ (IF i < k THEN i ELSE i + 1) # k
      BY SMTT(30), <3>2 DEF TypeOK
    <3>4. \A i, j \in 1..Len(sending') : sending'[i] = sending'[j] => i = j
      <4> SUFFICES ASSUME NEW i \in 1..Len(sending'), NEW j \in 1..Len(sending'),
                          sending'[i] = sending'[j]
                   PROVE  i = j
        OBVIOUS
      <4>1. (IF i < k THEN i ELSE i + 1) = (IF j < k THEN j ELSE j + 1)
        BY <3>2, <3>3 DEF SendersInv
      <4> QED
        BY <4>1
    <3>5. \A i \in 1..Len(sending') : pub'[sending'[i]] = "blocked"
      <4> SUFFICES ASSUME NEW i \in 1..Len(sending') PROVE pub'[sending'[i]] = "blocked"
        OBVIOUS
      <4>1. PICK h \in 1..Len(sending) : h # k /\ sending'[i] = sending[h]
        BY <3>2, <3>3
      <4>2. sending[h] # a /\ pub[sending[h]] = "blocked" /\ sending[h] \in Actors
        BY SMTT(30), <3>1, <4>1 DEF SendersInv, TypeOK
      <4> QED
        BY <1>6, <4>1, <4>2 DEF GiveUp, LeavePublish, TypeOK
    <3> QED
      BY <1>6, <3>4, <3>5 DEF GiveUp, SendersInv
  <2> QED
    BY <1>6, <2>1, <2>2 DEF GiveUp
<1> QED
  BY <1>1, <1>2, <1>3, <1>4, <1>5, <1>6 DEF Publish, Proceed

LEMMA SendersReceive ==
  ASSUME TypeOK, SendersInv, NEW w \in Workers, Receive(w)
  PROVE  SendersInv'
<1>1. CASE sending = <<>>
  BY <1>1 DEF Receive, SendersInv, pubVars
<1>2. CASE sending # <<>>
  <2>1. /\ sending' = Tail(sending) /\ Head(sending) = sending[1] /\ sending \in Seq(Actors)
        /\ Len(sending') = Len(sending) - 1 /\ Len(sending) > 0
        /\ \A i \in 1..Len(sending') : sending'[i] = sending[i + 1]
    <3>1. sending' = Tail(sending) /\ sending \in Seq(Actors)
      BY <1>2 DEF Receive, TypeOK
    <3> QED
      BY <1>2, <3>1, HeadTailProperties
  <2>2. pub' = [pub EXCEPT ![Head(sending)] = "none"] /\ async
    BY <1>2 DEF Receive, LeavePublish, Listening
  <2>3. \A i \in 1..Len(sending') : pub'[sending'[i]] = "blocked"
    <3> SUFFICES ASSUME NEW i \in 1..Len(sending') PROVE pub'[sending'[i]] = "blocked"
      OBVIOUS
    <3>1. sending'[i] = sending[i + 1] /\ i + 1 \in 1..Len(sending) /\ 1 \in 1..Len(sending)
      BY <2>1
    <3>2. sending[i + 1] # Head(sending) /\ pub[sending[i + 1]] = "blocked" /\ sending[i + 1] \in Actors
      BY <2>1, <3>1 DEF SendersInv
    <3> QED
      BY <2>2, <3>1, <3>2 DEF TypeOK
  <2>4. \A i, j \in 1..Len(sending') : sending'[i] = sending'[j] => i = j
    BY <2>1 DEF SendersInv
  <2> QED
    BY <2>2, <2>3, <2>4 DEF Receive, SendersInv
<1> QED
  BY <1>1, <1>2

LEMMA SendersStep ==
  ASSUME TypeOK, SendersInv, [Next]_vars
  PROVE  SendersInv'
<1>1. ASSUME NEW h \in Handlers, Subscribe(h) \/ Cancel(h) PROVE SendersInv'
  BY <1>1 DEF Subscribe, Cancel, SendersInv, pubVars
<1>2. ASSUME NEW w \in Workers, HandlerReturns(w) \/ Exit(w) PROVE SendersInv'
  BY <1>2 DEF HandlerReturns, Exit, SendersInv, pubVars
<1>3. CASE CancelLifecycle
  BY <1>3 DEF CancelLifecycle, SendersInv
<1>4. CASE MarkClosed \/ CloseQueue \/ AwaitWorkers \/ AwaitDispatches
  BY <1>4 DEF MarkClosed, CloseQueue, AwaitWorkers, AwaitDispatches, SendersInv, pubVars
<1>5. CASE UNCHANGED vars
  BY <1>5 DEF vars, pubVars, SendersInv
<1> QED
  BY <1>1, <1>2, <1>3, <1>4, <1>5, SendersPublish, SendersReceive DEF Next, Work, Close

-----------------------------------------------------------------------------
(* The dispatches in flight.                                               *)
LEMMA DispatchingKept ==
  ASSUME Accounting, UNCHANGED inFlight, Dispatching' = Dispatching
  PROVE  Accounting'
BY DEF Accounting, Dispatching

LEMMA MoveAside ==
  ASSUME TypeOK, NEW a \in Actors, pub[a] # "dispatch", NEW stage, stage # "dispatch",
         pub' = [pub EXCEPT ![a] = stage]
  PROVE  Dispatching' = Dispatching
BY DEF TypeOK, Dispatching

LEMMA AccountingStep ==
  ASSUME TypeOK, SendersInv, Accounting, [Next]_vars
  PROVE  Accounting'
<1>1. ASSUME NEW a \in Actors, Check(a) \/ GiveUp(a) PROVE Accounting'
  BY <1>1, DispatchingKept, MoveAside DEF Check, GiveUp, MayPublish, LeavePublish
<1>2. ASSUME NEW a \in Actors, Send(a) \/ Block(a) \/ SendOnClosed(a) \/ FindClosed(a)
      PROVE Accounting'
  BY <1>2, DispatchingKept, MoveAside DEF Send, Block, SendOnClosed, FindClosed, LeavePublish
<1>3. ASSUME NEW a \in Actors, BeginDispatch(a) PROVE Accounting'
  <2>1. Dispatching' = Dispatching \cup {a} /\ a \notin Dispatching
    BY <1>3 DEF BeginDispatch, Dispatching, TypeOK
  <2>2. Cardinality(Dispatching') = Cardinality(Dispatching) + 1
    BY <2>1, ActorsFinite, FS_AddElement
  <2> QED
    BY <1>3, <2>2 DEF BeginDispatch, Accounting, Dispatching
<1>4. ASSUME NEW a \in Actors, EndDispatch(a) PROVE Accounting'
  <2>1. Dispatching' = Dispatching \ {a} /\ a \in Dispatching
    BY <1>4 DEF EndDispatch, Dispatching, TypeOK
  <2>2. Cardinality(Dispatching') = Cardinality(Dispatching) - 1
    BY <2>1, ActorsFinite, FS_RemoveElement
  <2> QED
    BY <1>4, <2>2 DEF EndDispatch, Accounting, Dispatching
<1>5. ASSUME NEW w \in Workers, Receive(w) PROVE Accounting'
  <2>1. CASE sending = <<>>
    BY <1>5, <2>1 DEF Receive, pubVars, Accounting
  <2>2. CASE sending # <<>>
    <3>1. PICK f \in Actors : f = Head(sending) /\ pub[f] = "blocked"
      BY <2>2, FirstSender
    <3>2. pub' = [pub EXCEPT ![f] = "none"] /\ UNCHANGED inFlight
      BY <1>5, <2>2, <3>1 DEF Receive, LeavePublish
    <3> QED
      BY <3>1, <3>2, DispatchingKept, MoveAside
  <2> QED
    BY <2>1, <2>2
<1>6. CASE CancelLifecycle
  <2>1. Dispatching' = Dispatching
    BY <1>6 DEF CancelLifecycle, Dispatching, TypeOK
  <2> QED
    BY <1>6, <2>1, DispatchingKept DEF CancelLifecycle
<1>7. ASSUME UNCHANGED <<pub, inFlight>> PROVE Accounting'
  BY <1>7 DEF Accounting
<1>8. ASSUME NEW h \in Handlers, Subscribe(h) \/ Cancel(h) PROVE Accounting'
  BY <1>7, <1>8 DEF Subscribe, Cancel, pubVars
<1>9. ASSUME NEW w \in Workers, HandlerReturns(w) \/ Exit(w) PROVE Accounting'
  BY <1>7, <1>9 DEF HandlerReturns, Exit, pubVars
<1>10. ASSUME NEW a \in Actors, NextHandler(a) PROVE Accounting'
  BY <1>7, <1>10 DEF NextHandler, pubVars
<1>11. CASE MarkClosed \/ CloseQueue \/ AwaitWorkers \/ AwaitDispatches
  BY <1>7, <1>11 DEF MarkClosed, CloseQueue, AwaitWorkers, AwaitDispatches, pubVars
<1>12. CASE UNCHANGED vars
  BY <1>7, <1>12 DEF vars, pubVars
<1> QED
  BY <1>1, <1>2, <1>3, <1>4, <1>5, <1>6, <1>8, <1>9, <1>10, <1>11, <1>12
     DEF Next, Publish, Proceed, Work, Close

-----------------------------------------------------------------------------
(* The queue, its senders and its workers while the bus closes.            *)
QueueInv == GoneInv /\ NoSenderLeftBehind /\ DrainedOnReturn

LEMMA QueuePublish ==
  ASSUME TypeOK, SendersInv, QueueInv, NEW a \in Actors, Publish(a)
  PROVE  QueueInv'
<1> USE DEF QueueInv, GoneInv, NoSenderLeftBehind, DrainedOnReturn, ShutDown, QueueClosed,
            LeavePublish, pubVars
<1>1. CASE Check(a) \/ SendOnClosed(a) \/ FindClosed(a)
  BY <1>1 DEF Check, SendOnClosed, FindClosed
<1>2. CASE Send(a)
  <2>1. sending = <<>> /\ gone = {} /\ ~(closing \in {"drained", "returned"})
    BY <1>2 DEF Send, TypeOK
  <2> QED
    BY <1>2, <2>1 DEF Send
<1>3. CASE Block(a)
  BY <1>3 DEF Block
<1>4. CASE BeginDispatch(a)
  BY <1>4 DEF BeginDispatch, SendersInv
<1>5. CASE NextHandler(a)
  <2>1. todo[a] # <<>>
    BY <1>5 DEF NextHandler, TypeOK
  <2>2. \A w \in gone : todo'[w] = <<>>
    BY <1>5, <2>1 DEF NextHandler, TypeOK
  <2>3. \A w \in Workers : todo[w] = <<>> => todo'[w] = <<>>
    BY <1>5, <2>1 DEF NextHandler, TypeOK, Actors
  <2> QED
    BY <1>5, <2>2, <2>3 DEF NextHandler
<1>6. CASE EndDispatch(a)
  <2>1. \A b \in Actors : todo[b] = <<>> => todo'[b] = <<>>
    BY <1>6 DEF EndDispatch, TypeOK
  <2> QED
    BY <1>6, <2>1 DEF EndDispatch, TypeOK, Actors
<1>7. CASE GiveUp(a)
  <2>1. sending = <<>> => sending' = <<>>
    BY <1>7 DEF GiveUp
  <2> QED
    BY <1>7, <2>1 DEF GiveUp
<1> QED
  BY <1>1, <1>2, <1>3, <1>4, <1>5, <1>6, <1>7 DEF Publish, Proceed

LEMMA QueueWork ==
  ASSUME TypeOK, SendersInv, QueueInv, NEW w \in Workers, Work(w)
  PROVE  QueueInv'
<1> USE DEF QueueInv, GoneInv, NoSenderLeftBehind, DrainedOnReturn, ShutDown, QueueClosed, pubVars
<1>1. CASE Receive(w)
  <2>1. gone = {} /\ queue # <<>> /\ async /\ ~(closing \in {"drained", "returned"})
    BY <1>1 DEF Receive, Listening
  <2>2. UNCHANGED <<async, gone, closing>>
    BY <1>1 DEF Receive
  <2>3. CASE sending = <<>>
    BY <1>1, <2>1, <2>2, <2>3 DEF Receive
  <2>4. CASE sending # <<>>
    <3>1. /\ Tail(queue) \in Seq(Seq(Handlers)) /\ Len(Tail(queue)) = Len(queue) - 1
          /\ Len(queue) \in Nat
      BY <2>1, HeadTailProperties DEF TypeOK
    <3>2. Len(queue') = Len(queue)
      <4>1. held[Head(sending)] \in Seq(Handlers)
        BY <2>4, FirstSender DEF TypeOK
      <4> QED
        BY <1>1, <2>4, <3>1, <4>1, AppendProperties DEF Receive
    <3> QED
      BY <2>1, <2>2, <2>4, <3>2
  <2> QED
    BY <2>3, <2>4
<1>2. CASE HandlerReturns(w)
  <2>1. \A v \in Workers : todo[v] = <<>> => todo'[v] = <<>>
    BY <1>2 DEF HandlerReturns, TypeOK, Actors
  <2> QED
    BY <1>2, <2>1 DEF HandlerReturns, TypeOK
<1>3. CASE Exit(w)
  BY <1>3 DEF Exit, Listening
<1> QED
  BY <1>1, <1>2, <1>3 DEF Work

LEMMA QueueClose ==
  ASSUME TypeOK, SendersInv, QueueInv, Close
  PROVE  QueueInv'
<1> USE DEF QueueInv, GoneInv, NoSenderLeftBehind, DrainedOnReturn, ShutDown, QueueClosed, pubVars
<1>1. CASE MarkClosed
  BY <1>1 DEF MarkClosed
<1>2. CASE CancelLifecycle
  BY <1>2 DEF CancelLifecycle
<1>3. CASE CloseQueue
  BY <1>3 DEF CloseQueue
<1>4. CASE AwaitWorkers
  BY <1>4, BusAssumption DEF AwaitWorkers
<1>5. CASE AwaitDispatches
  BY <1>5 DEF AwaitDispatches, SendersInv
<1> QED
  BY <1>1, <1>2, <1>3, <1>4, <1>5 DEF Close

LEMMA QueueStep ==
  ASSUME TypeOK, SendersInv, QueueInv, [Next]_vars
  PROVE  QueueInv'
<1>1. ASSUME NEW h \in Handlers, Subscribe(h) \/ Cancel(h) PROVE QueueInv'
  BY <1>1 DEF Subscribe, Cancel, QueueInv, GoneInv, NoSenderLeftBehind, DrainedOnReturn,
              ShutDown, QueueClosed, pubVars
<1>2. CASE UNCHANGED vars
  BY <1>2 DEF vars, QueueInv, GoneInv, NoSenderLeftBehind, DrainedOnReturn,
              ShutDown, QueueClosed, pubVars
<1> QED
  BY <1>1, <1>2, QueuePublish, QueueWork, QueueClose DEF Next

-----------------------------------------------------------------------------
LEMMA IInvInit == Init => IInv
<1> SUFFICES ASSUME Init PROVE IInv
  OBVIOUS
<1>1. TypeOK
  <2>1. <<>> \in Seq(Handlers) /\ <<>> \in Seq(Actors) /\ <<>> \in Seq(Seq(Handlers)) /\ Len(<<>>) = 0
    OBVIOUS
  <2>2. held \in [Actors -> Seq(Handlers)] /\ todo \in [Actors -> Seq(Handlers)]
    BY <2>1 DEF Init
  <2> QED
    BY <2>1, <2>2, BusAssumption DEF Init, TypeOK, CloseStages
<1>2. Dispatching = {}
  BY DEF Init, Dispatching
<1>3. Accounting
  <2>1. Cardinality(Dispatching) = 0
    BY <1>2, FS_EmptySet
  <2> QED
    BY <2>1 DEF Init, Accounting, Dispatching
<1>4. SendersInv /\ GoneInv /\ NoSenderLeftBehind /\ DrainedOnReturn
  BY DEF Init, SendersInv, GoneInv, NoSenderLeftBehind, DrainedOnReturn
<1> QED
  BY <1>1, <1>3, <1>4 DEF IInv

LEMMA IInvStep == IInv /\ [Next]_vars => IInv'
<1> SUFFICES ASSUME IInv, [Next]_vars PROVE IInv'
  OBVIOUS
<1>1. TypeOK'
  <2>1. CASE UNCHANGED vars
    BY <2>1 DEF IInv, TypeOK, vars, pubVars
  <2> QED
    BY <2>1, TypeSubscriptions, TypePublish, TypeWork, TypeClose DEF IInv, Next
<1>2. SendersInv' /\ Accounting'
  BY SendersStep, AccountingStep DEF IInv
<1>3. QueueInv'
  BY QueueStep DEF IInv, QueueInv
<1> QED
  BY <1>1, <1>2, <1>3 DEF IInv, QueueInv

(* The inductive invariant holds in every reachable state.                 *)
THEOREM BusInvariant == Spec => []IInv
BY IInvInit, IInvStep, PTL DEF Spec

(* Every reachable state is well typed, the queue within its bound.        *)
THEOREM BusTypeCorrect == Spec => []TypeOK
<1>1. IInv => TypeOK
  BY DEF IInv
<1> QED
  BY <1>1, BusInvariant, PTL

(* The WaitGroup that Close waits on counts the sync dispatches exactly    *)
(* (memory.go:194-206, 250).                                               *)
THEOREM DispatchesCounted == Spec => []Accounting
<1>1. IInv => Accounting
  BY DEF IInv
<1> QED
  BY <1>1, BusInvariant, PTL

(* No sender is left blocked beside a queue with room, nor by Close        *)
(* (memory.go:184-191, 240-245).                                           *)
THEOREM SendersReleased == Spec => []NoSenderLeftBehind
<1>1. IInv => NoSenderLeftBehind
  BY DEF IInv
<1> QED
  BY <1>1, BusInvariant, PTL

(* An async bus whose Close has returned has run every job it accepted     *)
(* (memory.go:228-252).                                                    *)
THEOREM CloseDrains == Spec => []DrainedOnReturn
<1>1. IInv => DrainedOnReturn
  BY DEF IInv
<1> QED
  BY <1>1, BusInvariant, PTL
=============================================================================

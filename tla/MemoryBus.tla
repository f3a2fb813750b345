------------------------------ MODULE MemoryBus ------------------------------
(***************************************************************************)
(* pkg/event/memory: the in-process bus. Publishers copy the handler list  *)
(* under the read lock and then, without it, either run the handlers       *)
(* themselves (sync) or send a job to the bounded queue the workers drain  *)
(* (WithAsync). Subscribe, Cancel and Close interleave with all of it.     *)
(*                                                                         *)
(* One event type: handler lists of different types never meet. A handler  *)
(* is what it does to the bus: it takes time, and on a worker it may       *)
(* publish to its own bus. Its result goes to the publisher or to the      *)
(* ErrorReporter and changes nothing here. On a publisher's goroutine a    *)
(* nested Publish is one more actor in dispatch. Close is called by a      *)
(* goroutine that is in no handler; a second Close returns at once and     *)
(* changes nothing.                                                        *)
(*                                                                         *)
(* A Go channel hands a freed place to the sender that has blocked longest:*)
(* sending is that queue. pub[a] is where actor a stands in Publish:       *)
(*   none      outside                                                     *)
(*   checked   past the closed check, with its copy of the handlers, held  *)
(*   blocked   in the select, the queue being full                         *)
(*   dispatch  running todo, what is left of its copy (sync)               *)
(*   panicked  sent on the closed queue                                    *)
(* A worker is in a handler as long as its todo is not empty.              *)
(*                                                                         *)
(* A panicked actor takes no more steps. Unless it is recovered it ends    *)
(* the process, so nothing is promised after it; recovered, it leaves the  *)
(* bus as an error return does, which is no case of its own.               *)
(*                                                                         *)
(* Operators marked "Mutant" are no part of the specification: each is a   *)
(* plausible mistake in the definition after it, which a property of the   *)
(* runs must catch.                                                        *)
(***************************************************************************)
EXTENDS Integers, Sequences, FiniteSets, SequencesExt

CONSTANTS
  Publishers,   \* goroutines that call Publish
  Workers,      \* worker goroutines of an async bus
  Handlers,     \* subscriptions, each made and cancelled at most once
  QueueSize     \* asyncQueueSize

ASSUME BusAssumption ==
  /\ IsFiniteSet(Publishers) /\ IsFiniteSet(Workers) /\ Workers # {}
  /\ Publishers \cap Workers = {}
  /\ QueueSize \in Nat \ {0}

VARIABLES
  async,         \* whether New got WithAsync
  subscribers,   \* the handler list
  cancelled,     \* subscriptions cancelled
  queue,         \* jobs: the handler copies of accepted events
  sending,       \* senders blocked on the full queue
  pub, held, todo,
  gone,          \* workers that have exited
  inFlight,      \* the WaitGroup of sync dispatches
  closing        \* how far Close has come

pubVars == <<pub, held, sending>>
vars == <<async, subscribers, cancelled, queue, todo, gone, inFlight, closing, pubVars>>

Actors == Publishers \cup Workers

CloseStages == {"open", "closed", "shutDown", "queueClosed", "drained", "returned"}

Closed == closing # "open"
ShutDown == closing \in {"shutDown", "queueClosed", "drained", "returned"}
QueueClosed == closing \in {"queueClosed", "drained", "returned"}

TypeOK ==
  /\ async \in BOOLEAN
  /\ subscribers \in Seq(Handlers)
  /\ cancelled \in SUBSET Handlers
  /\ queue \in Seq(Seq(Handlers)) /\ Len(queue) <= QueueSize
  /\ sending \in Seq(Actors)
  /\ pub \in [Actors -> {"none", "checked", "blocked", "dispatch", "panicked"}]
  /\ held \in [Actors -> Seq(Handlers)]
  /\ todo \in [Actors -> Seq(Handlers)]
  /\ gone \in SUBSET Workers
  /\ inFlight \in Nat
  /\ closing \in CloseStages

Init ==
  /\ async \in BOOLEAN
  /\ subscribers = <<>>
  /\ cancelled = {}
  /\ queue = <<>>
  /\ sending = <<>>
  /\ pub = [a \in Actors |-> "none"]
  /\ held = [a \in Actors |-> <<>>]
  /\ todo = [a \in Actors |-> <<>>]
  /\ gone = {}
  /\ inFlight = 0
  /\ closing = "open"

-----------------------------------------------------------------------------
(* Subscriptions, under the write lock.                                    *)

Subscribe(h) ==
  /\ ~Closed
  /\ h \notin Range(subscribers) \cup cancelled
  /\ subscribers' = Append(subscribers, h)
  /\ UNCHANGED <<async, cancelled, queue, todo, gone, inFlight, closing, pubVars>>

Cancel(h) ==
  /\ \E i \in DOMAIN subscribers :
       subscribers[i] = h /\ subscribers' = RemoveAt(subscribers, i)
  /\ cancelled' = cancelled \cup {h}
  /\ UNCHANGED <<async, queue, todo, gone, inFlight, closing, pubVars>>

-----------------------------------------------------------------------------
(* Publish.                                                                *)

(* Only a running handler publishes from a worker.                         *)
MayPublish(a) == pub[a] = "none" /\ (a \in Workers => todo[a] # <<>>)

(* The closed check and the copy. A closed bus or an empty list ends the   *)
(* call here and changes nothing.                                          *)
Check(a) ==
  /\ MayPublish(a)
  /\ ~Closed
  /\ subscribers # <<>>
  /\ pub' = [pub EXCEPT ![a] = "checked"]
  /\ held' = [held EXCEPT ![a] = subscribers]
  /\ UNCHANGED <<async, subscribers, cancelled, queue, todo, gone, inFlight, closing, sending>>

LeavePublish(a) ==
  /\ pub' = [pub EXCEPT ![a] = "none"]
  /\ held' = [held EXCEPT ![a] = <<>>]

(* Mutant: the queue has no bound.                                         *)
SendAnyway(a) ==
  /\ pub[a] = "checked" /\ async
  /\ ~QueueClosed
  /\ queue' = Append(queue, held[a])
  /\ LeavePublish(a)
  /\ UNCHANGED <<async, subscribers, cancelled, todo, gone, inFlight, closing, sending>>

Send(a) ==
  /\ pub[a] = "checked" /\ async
  /\ ~QueueClosed
  /\ Len(queue) < QueueSize
  /\ queue' = Append(queue, held[a])
  /\ LeavePublish(a)
  /\ UNCHANGED <<async, subscribers, cancelled, todo, gone, inFlight, closing, sending>>

Block(a) ==
  /\ pub[a] = "checked" /\ async
  /\ ~ShutDown
  /\ Len(queue) = QueueSize
  /\ pub' = [pub EXCEPT ![a] = "blocked"]
  /\ sending' = Append(sending, a)
  /\ UNCHANGED <<async, subscribers, cancelled, queue, todo, gone, inFlight, closing, held>>

(* A select on a closed channel may choose the send, and panics.           *)
SendOnClosed(a) ==
  /\ pub[a] = "checked" /\ async
  /\ QueueClosed
  /\ pub' = [pub EXCEPT ![a] = "panicked"]
  /\ UNCHANGED <<async, subscribers, cancelled, queue, todo, gone, inFlight, closing, held, sending>>

(* The select sees the lifecycle done: ErrBusClosed.                       *)
FindClosed(a) ==
  /\ pub[a] = "checked" /\ async
  /\ ShutDown
  /\ LeavePublish(a)
  /\ UNCHANGED <<async, subscribers, cancelled, queue, todo, gone, inFlight, closing, sending>>

(* The publisher's context is done while it sends or waits to.             *)
GiveUp(a) ==
  /\ async
  /\ \/ pub[a] = "checked" /\ UNCHANGED sending
     \/ /\ pub[a] = "blocked"
        /\ \E i \in DOMAIN sending : sending[i] = a /\ sending' = RemoveAt(sending, i)
  /\ LeavePublish(a)
  /\ UNCHANGED <<async, subscribers, cancelled, queue, todo, gone, inFlight, closing>>

-----------------------------------------------------------------------------
(* Sync dispatch, on the publisher's goroutine.                            *)

BeginDispatch(a) ==
  /\ pub[a] = "checked" /\ ~async
  /\ inFlight' = inFlight + 1
  /\ pub' = [pub EXCEPT ![a] = "dispatch"]
  /\ todo' = [todo EXCEPT ![a] = held[a]]
  /\ held' = [held EXCEPT ![a] = <<>>]
  /\ UNCHANGED <<async, subscribers, cancelled, queue, gone, closing, sending>>

NextHandler(a) ==
  /\ pub[a] = "dispatch"
  /\ Len(todo[a]) > 1
  /\ todo' = [todo EXCEPT ![a] = Tail(todo[a])]
  /\ UNCHANGED <<async, subscribers, cancelled, queue, gone, inFlight, closing, pubVars>>

(* Mutant: a dispatch its context cuts short stays in flight.              *)
EndDispatchInFlight(a) ==
  /\ pub[a] = "dispatch"
  /\ inFlight' = IF Len(todo[a]) > 1 THEN inFlight ELSE inFlight - 1
  /\ pub' = [pub EXCEPT ![a] = "none"]
  /\ todo' = [todo EXCEPT ![a] = <<>>]
  /\ UNCHANGED <<async, subscribers, cancelled, queue, gone, closing, held, sending>>

(* The last handler returned, one panicked, or the context is done before  *)
(* the next.                                                               *)
EndDispatch(a) ==
  /\ pub[a] = "dispatch"
  /\ inFlight' = inFlight - 1
  /\ pub' = [pub EXCEPT ![a] = "none"]
  /\ todo' = [todo EXCEPT ![a] = <<>>]
  /\ UNCHANGED <<async, subscribers, cancelled, queue, gone, closing, held, sending>>

-----------------------------------------------------------------------------
(* Workers.                                                                *)

Listening(w) == async /\ todo[w] = <<>> /\ w \notin gone

(* Mutant: the room is left to whoever comes next, not to the sender that  *)
(* waits for it.                                                           *)
ReceiveWithoutHandover(w) ==
  /\ Listening(w)
  /\ queue # <<>>
  /\ todo' = [todo EXCEPT ![w] = Head(queue)]
  /\ queue' = Tail(queue)
  /\ UNCHANGED <<async, subscribers, cancelled, gone, inFlight, closing, pubVars>>

(* A job leaves the queue, which lets the first blocked sender in.         *)
Receive(w) ==
  /\ Listening(w)
  /\ queue # <<>>
  /\ todo' = [todo EXCEPT ![w] = Head(queue)]
  /\ IF sending = <<>>
     THEN queue' = Tail(queue) /\ UNCHANGED pubVars
     ELSE /\ queue' = Append(Tail(queue), held[Head(sending)])
          /\ sending' = Tail(sending)
          /\ LeavePublish(Head(sending))
  /\ UNCHANGED <<async, subscribers, cancelled, gone, inFlight, closing>>

HandlerReturns(w) ==
  /\ w \in Workers
  /\ todo[w] # <<>> /\ pub[w] = "none"
  /\ todo' = [todo EXCEPT ![w] = Tail(todo[w])]
  /\ UNCHANGED <<async, subscribers, cancelled, queue, gone, inFlight, closing, pubVars>>

(* Mutant: the shutdown is looked at before the queue.                     *)
ExitEarly(w) ==
  /\ Listening(w)
  /\ QueueClosed
  /\ gone' = gone \cup {w}
  /\ UNCHANGED <<async, subscribers, cancelled, queue, todo, inFlight, closing, pubVars>>

(* The range over the queue ends when it is closed and empty.              *)
Exit(w) ==
  /\ Listening(w)
  /\ QueueClosed
  /\ queue = <<>>
  /\ gone' = gone \cup {w}
  /\ UNCHANGED <<async, subscribers, cancelled, queue, todo, inFlight, closing, pubVars>>

-----------------------------------------------------------------------------
(* Close.                                                                  *)

MarkClosed ==
  /\ closing = "open"
  /\ closing' = "closed"
  /\ UNCHANGED <<async, subscribers, cancelled, queue, todo, gone, inFlight, pubVars>>

(* Mutant: blocked senders do not watch the lifecycle.                     *)
CancelLifecycleUnseen ==
  /\ closing = "closed" /\ async
  /\ closing' = "shutDown"
  /\ UNCHANGED <<async, subscribers, cancelled, queue, todo, gone, inFlight, pubVars>>

(* Every blocked sender wakes with ErrBusClosed.                           *)
CancelLifecycle ==
  /\ closing = "closed" /\ async
  /\ closing' = "shutDown"
  /\ pub' = [a \in Actors |-> IF pub[a] = "blocked" THEN "none" ELSE pub[a]]
  /\ held' = [a \in Actors |-> IF pub[a] = "blocked" THEN <<>> ELSE held[a]]
  /\ sending' = <<>>
  /\ UNCHANGED <<async, subscribers, cancelled, queue, todo, gone, inFlight>>

CloseQueue ==
  /\ closing = "shutDown"
  /\ closing' = "queueClosed"
  /\ UNCHANGED <<async, subscribers, cancelled, queue, todo, gone, inFlight, pubVars>>

AwaitWorkers ==
  /\ closing = "queueClosed"
  /\ gone = Workers
  /\ closing' = "drained"
  /\ UNCHANGED <<async, subscribers, cancelled, queue, todo, gone, inFlight, pubVars>>

AwaitDispatches ==
  /\ closing = IF async THEN "drained" ELSE "closed"
  /\ inFlight = 0
  /\ closing' = "returned"
  /\ UNCHANGED <<async, subscribers, cancelled, queue, todo, gone, inFlight, pubVars>>

Close == MarkClosed \/ CancelLifecycle \/ CloseQueue \/ AwaitWorkers \/ AwaitDispatches

-----------------------------------------------------------------------------
(* What a goroutine past the check does next, its context aside.           *)
Proceed(a) ==
  \/ Send(a) \/ Block(a) \/ SendOnClosed(a) \/ FindClosed(a)
  \/ BeginDispatch(a) \/ NextHandler(a) \/ EndDispatch(a)

Publish(a) == Check(a) \/ Proceed(a) \/ GiveUp(a)

Work(w) == Receive(w) \/ HandlerReturns(w) \/ Exit(w)

Next ==
  \/ \E h \in Handlers : Subscribe(h) \/ Cancel(h)
  \/ \E a \in Actors : Publish(a)
  \/ \E w \in Workers : Work(w)
  \/ Close

Spec == Init /\ [][Next]_vars

(* Goroutines that can go on do; handlers return, also those that publish  *)
(* a few times first (hence strong fairness). Nobody has to publish,       *)
(* subscribe or call Close, but Close runs on once called.                 *)
Fairness ==
  /\ \A a \in Actors : WF_vars(Proceed(a))
  /\ \A w \in Workers :
       /\ WF_vars(Receive(w) \/ Exit(w))
       /\ SF_vars(HandlerReturns(w))
  /\ WF_vars(closing # "open" /\ Close)

FairSpec == Spec /\ Fairness

-----------------------------------------------------------------------------
(* Properties.                                                             *)

(* Close's wait for sync dispatches counts each of them once, however it   *)
(* ends (memory.go:194-206).                                               *)
Accounting == inFlight = Cardinality({a \in Actors : pub[a] = "dispatch"})

(* Senders block on a full queue of an open bus only: neither a worker nor *)
(* Close leaves one behind (memory.go:184-191, 240-245).                   *)
NoSenderLeftBehind ==
  sending # <<>> => Len(queue) = QueueSize /\ ~ShutDown

(* When Close returns, every job an async bus has accepted has been run to *)
(* its last handler, the ones accepted while Close was under way included  *)
(* (memory.go:228-252).                                                    *)
DrainedOnReturn ==
  async /\ closing \in {"drained", "returned"} =>
    queue = <<>> /\ \A w \in Workers : todo[w] = <<>>

Crashed == \E a \in Actors : pub[a] = "panicked"

(* Every worker's handler waits for room that only the workers can make.   *)
Gridlock == \A w \in Workers : pub[w] = "blocked"

(* A sender that finds the queue full gets in or is told, unless the       *)
(* handlers have gridlocked their own bus (memory.go:184-191).             *)
SendersGetThrough ==
  \A a \in Actors : (pub[a] = "blocked") ~> (pub[a] # "blocked" \/ Gridlock \/ Crashed)

(* Close returns, from a gridlock too (memory.go:239-252).                 *)
CloseReturns == (closing = "closed") ~> (closing = "returned" \/ Crashed)

(* "Implementations MUST be safe for concurrent use" (event.go:134-135):   *)
(* no call of Publish panics because Close runs.                           *)
PublishNeverPanics == \A a \in Actors : pub[a] # "panicked"
=============================================================================

------------------------------- MODULE Health -------------------------------
(***************************************************************************)
(* pkg/observability/health: Check copies the registered checkers and runs *)
(* them one after the other. A checker with a timeout runs in a goroutine  *)
(* of its own, which answers on a buffered channel made for it and may be  *)
(* abandoned; one without runs in Check itself. What a checker does is     *)
(* unknown: it returns nil or an error, panics, or never comes back.       *)
(***************************************************************************)
EXTENDS SequencesExt

CONSTANTS
  Names, Checkers,      \* checkers: [id, timed]
  Probers,              \* callers of Check
  MaxRegistrations,     \* bound
  NoAnswer

ASSUME HealthAssumption == IsFiniteSet(Names)

VARIABLES
  registered,           \* r.entries: [name, checker]
  registrations,        \* history: every Register, in order
  check,                \* [probers -> the Check under way]
  channel,              \* [ChannelOf(c, i) -> answer or NoAnswer]
  probe,                \* [<<c, i>> -> "none", "running", an answer to send, "gone"]
  answered              \* history: [<<c, i>> -> what the checker did, or NoAnswer]

healthVars == <<registered, registrations, check, channel, probe, answered>>

Answers == {"nil", "error", "panicked"}
Places == 1..Cardinality(Names)
Probes == Probers \X Places

HealthInit ==
  /\ registered = <<>> /\ registrations = <<>>
  /\ check = [c \in Probers |-> [at |-> "idle", snapshot |-> <<>>, report |-> <<>>,
                                 timeUp |-> FALSE, cancelled |-> FALSE]]
  /\ channel = [x \in Probes |-> NoAnswer]
  /\ probe = [x \in Probes |-> "none"]
  /\ answered = [x \in Probes |-> NoAnswer]

-----------------------------------------------------------------------------
(* Register replaces the checker of a name and keeps its place.            *)
HealthRegister(n, checker) ==
  /\ Len(registrations) < MaxRegistrations
  /\ LET e == [name |-> n, checker |-> checker] IN
     /\ registered' = IF \E i \in DOMAIN registered : registered[i].name = n
                      THEN [i \in DOMAIN registered |->
                              IF registered[i].name = n THEN e ELSE registered[i]]
                      ELSE Append(registered, e)
     /\ registrations' = Append(registrations, e)
  /\ UNCHANGED <<check, channel, probe, answered>>

(* Check copies the entries under the lock.                                *)
CheckStart(c) ==
  /\ check[c].at = "idle"
  /\ check' = [check EXCEPT ![c].at = "looping", ![c].snapshot = registered]
  /\ UNCHANGED <<registered, registrations, channel, probe, answered>>

Place(c) == Len(check[c].report) + 1
Current(c) == check[c].snapshot[Place(c)].checker

(* Mutant: the channel is made once for the whole Check.                   *)
OneChannel(c, i) == <<c, 1>>

ChannelOf(c, i) == <<c, i>>

(* runChecker: a goroutine and a timer, or a plain call.                   *)
RunChecker(c) ==
  /\ check[c].at = "looping" /\ Place(c) <= Len(check[c].snapshot)
  /\ IF Current(c).timed
     THEN /\ check' = [check EXCEPT ![c].at = "waiting", ![c].timeUp = FALSE]
          /\ probe' = [probe EXCEPT ![<<c, Place(c)>>] = "running"]
     ELSE check' = [check EXCEPT ![c].at = "calling"] /\ UNCHANGED probe
  /\ UNCHANGED <<registered, registrations, channel, answered>>

(* One component is done; the loop goes on.                                *)
Reported(c, why) ==
  LET result == [name |-> check[c].snapshot[Place(c)].name, why |-> why] IN
  check' = [check EXCEPT ![c].at = "looping", ![c].report = Append(@, result)]

(* A checker without a timeout comes back to Check, panics included.       *)
CheckerReturns(c, answer) ==
  /\ check[c].at = "calling"
  /\ Reported(c, answer)
  /\ answered' = [answered EXCEPT ![<<c, Place(c)>>] = answer]
  /\ UNCHANGED <<registered, registrations, channel, probe>>

(* One in a goroutine comes back there, abandoned or not.                  *)
ProbeReturns(c, i, answer) ==
  /\ probe[<<c, i>>] = "running"
  /\ probe' = [probe EXCEPT ![<<c, i>>] = answer]
  /\ answered' = [answered EXCEPT ![<<c, i>>] = answer]
  /\ UNCHANGED <<registered, registrations, check, channel>>

Deliver(c, i) ==
  /\ channel' = [channel EXCEPT ![ChannelOf(c, i)] = probe[<<c, i>>]]
  /\ probe' = [probe EXCEPT ![<<c, i>>] = "gone"]
  /\ UNCHANGED <<registered, registrations, check, answered>>

(* Mutant: without a buffer the send waits for somebody to receive.        *)
ProbeSendsUnbuffered(c, i) ==
  /\ probe[<<c, i>>] \in Answers
  /\ check[c].at = "waiting" /\ Place(c) = i
  /\ Deliver(c, i)

ProbeSends(c, i) ==
  /\ probe[<<c, i>>] \in Answers
  /\ channel[ChannelOf(c, i)] = NoAnswer
  /\ Deliver(c, i)

(* The select of runChecker takes whatever is ready.                       *)
ReceiveAnswer(c) ==
  /\ check[c].at = "waiting"
  /\ LET ch == ChannelOf(c, Place(c)) IN
     /\ channel[ch] # NoAnswer
     /\ Reported(c, channel[ch])
     /\ channel' = [channel EXCEPT ![ch] = NoAnswer]
  /\ UNCHANGED <<registered, registrations, probe, answered>>

Abandon(c) ==
  /\ check[c].at = "waiting"
  /\ check[c].timeUp \/ check[c].cancelled
  /\ Reported(c, "timeout")
  /\ UNCHANGED <<registered, registrations, channel, probe, answered>>

TimeoutFires(c) ==
  /\ check[c].at = "waiting" /\ ~check[c].timeUp
  /\ check' = [check EXCEPT ![c].timeUp = TRUE]
  /\ UNCHANGED <<registered, registrations, channel, probe, answered>>

(* The caller's context ends.                                              *)
CallerLeaves(c) ==
  /\ check[c].at \notin {"idle", "reported"} /\ ~check[c].cancelled
  /\ check' = [check EXCEPT ![c].cancelled = TRUE]
  /\ UNCHANGED <<registered, registrations, channel, probe, answered>>

CheckReturns(c) ==
  /\ check[c].at = "looping" /\ Place(c) > Len(check[c].snapshot)
  /\ check' = [check EXCEPT ![c].at = "reported"]
  /\ UNCHANGED <<registered, registrations, channel, probe, answered>>

(* The status of a report, and its answer over HTTP.                       *)
Healthy(report) == \A i \in DOMAIN report : report[i].why = "nil"
HTTPStatus(report) == IF Healthy(report) THEN 200 ELSE 503

CheckStep(c) == RunChecker(c) \/ ReceiveAnswer(c) \/ Abandon(c) \/ CheckReturns(c)

HealthNext ==
  \/ \E n \in Names, checker \in Checkers : HealthRegister(n, checker)
  \/ \E c \in Probers :
       \/ CheckStart(c) \/ CheckStep(c) \/ TimeoutFires(c) \/ CallerLeaves(c)
       \/ \E answer \in Answers : CheckerReturns(c, answer)
       \/ \E i \in Places : ProbeSends(c, i) \/ \E answer \in Answers : ProbeReturns(c, i, answer)

-----------------------------------------------------------------------------
(* A report lists every name registered when it began, once and in order   *)
(* of registration, asks the checker last registered for it, and says of   *)
(* each what that checker did in this Check: no answer of one checker,     *)
(* however late, is taken for another's, and 200 means every checker       *)
(* returned nil (registry.go:48-80, 116-132).                              *)
HealthFaithful ==
  \A c \in Probers :
    check[c].at = "reported" =>
      LET snapshot == check[c].snapshot
          report == check[c].report
      IN /\ Len(report) = Len(snapshot)
         /\ \E n \in 0..Len(registrations) :
              LET known == SubSeq(registrations, 1, n)
                  last(name) == known[Max({j \in DOMAIN known : known[j].name = name})]
                  place(name) == Min({j \in DOMAIN known : known[j].name = name})
              IN /\ {snapshot[i].name : i \in DOMAIN snapshot} = {e.name : e \in ToSet(known)}
                 /\ \A i \in DOMAIN snapshot : snapshot[i] = last(snapshot[i].name)
                 /\ \A i, j \in DOMAIN snapshot :
                      i < j => place(snapshot[i].name) < place(snapshot[j].name)
         /\ \A i \in DOMAIN report :
              /\ report[i].name = snapshot[i].name
              /\ report[i].why # "timeout" => report[i].why = answered[<<c, i>>]
              /\ report[i].why = "timeout" => snapshot[i].checker.timed
         /\ HTTPStatus(report) = 200 =>
              \A i \in DOMAIN snapshot : answered[<<c, i>>] = "nil"

AllTimed(c) == \A i \in DOMAIN check[c].snapshot : check[c].snapshot[i].checker.timed

(* A Check of checkers with timeouts returns even if they all hang, and a  *)
(* checker that comes back after it was given up does not leave its        *)
(* goroutine behind (registry.go:101-105, 116-127).                        *)
HealthReturns ==
  \A c \in Probers :
    /\ (check[c].at = "looping" /\ AllTimed(c)) ~> (check[c].at = "reported")
    /\ \A i \in Places : (probe[<<c, i>>] \in Answers) ~> (probe[<<c, i>>] = "gone")
=============================================================================

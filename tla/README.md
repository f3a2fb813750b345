# A formal model of pk-core

pk-core is the Go core library of PlatformKit: module composition and registries,
governed mutation and authorization, entity descriptors, an event bus with a
transactional outbox, resilience primitives, security middleware, small
infrastructure and observability ports. This directory models the parts of it
whose correctness depends on the order of things (goroutines sharing a value,
results that arrive late, claims that expire, shutdown racing with work) and the
algorithms whose cases are too many for tests: composition, normalisation,
decisions, the way of a request. The
modules are checked with TLC on small instances and the safety results are
proved with TLAPS for every instance.

Paths below are relative to `src/pkg/`. `PROJECT.json` holds, for every
definition, the source lines it translates.

## Inventory

| Component | State | Operations | Interacts with | Hard behaviours | Correct when |
|---|---|---|---|---|---|
| `event/outbox` dispatcher (`outbox.go`) | started, stopped, lifecycle context, one goroutine per Outbox | Publish, Start, Stop, Close, dispatch loop | a Store shared by several Outbox values, an inner Bus | claim expiry under a running pass, cancellation between acceptance and mark, stale attempts, Stop/Start order | at-least-once without unexplained duplicates, bounded retries, settled for good, Stop is final and returns |
| `event/outbox` in-memory store (`memory_store.go`) | entries in order, index by key and ID | Save, ClaimBatch, MarkDelivered, MarkFailed, MarkDead | dispatchers of any Outbox | marks by dispatchers whose claim has gone | a claim reserves for its window; refines the store contract of `store.go` |
| `event/outbox` SQL store (`sql_store.go`) | one table | same, by several statements | database, other processes | SELECT then per-row compare-and-set, a statement failing midway, crash, two savers of one key | same promise as the in-memory store |
| `event/memory` bus | handler lists, closed, queue, lifecycle, two WaitGroups | Subscribe, Cancel, Publish (sync, async), Close, workers | handlers, which may publish | Close racing with Publish, full queue, copies of the handler list | nothing accepted is lost by Close, no sender stays blocked, Close returns |
| `resilience/circuitbreaker` | state, failure count, trip time, probe counts | Do, State | ops of any duration | results applied to a later state; probes that never report | bounded probes, cooldown kept, recovery |
| `resilience/bulkhead` | slot channel, atomic counter | Do, InFlight | ops, timers, contexts | counter and channel are separate; timer, context and slot race | slots and counter exact, bounded queue, nobody starves |
| `resilience/retry` | none (one loop per call) | Do, delay computation | op, context, timer | jitter after the cap, overflow of the exponential, cancellation while waiting | attempts bounded, delay within its documented bound, last error returned |
| `security/ratelimit` | buckets by key | Allow, eviction, middleware | clock, HTTP | clock read before the lock; idle eviction gives a full bucket back | never more than burst + rate x time, but for what late callers set back and what dropped buckets give back |
| `infrastructure/cache` | map and LRU list, expiry | Get, Set, Delete, eviction | clock | two structures to keep in step; expired entries still counted | map and list agree, capacity kept, no expired hit |
| `registry` rule registry | rules, sorted flag | Register, Evaluate | rules | unlock between sorting and copying | rules run in priority order |
| `registry` typed registry, catalog, specs | maps by normalised key; catalogs are built once | Register, RegisterIfAbsent, Delete, Build, lookups | modules | two callers registering one key, keys written two ways, several contributions wrong at once | one owner per key, Build is all or nothing and blames the first wrong contribution |
| `module` | bundles, providers, requirements | Compose, Sort, Build, BuildModule | registries | provider choice with backtracking, dependency cycles, version ranges | a module starts after its providers, a cycle is reported only if every choice has one, of the plans for the chosen providers it is the first by ID (which providers are chosen depends on the order of the request, see findings) |
| `mutation` | rules of a gate | EvaluateMutation | catalogs | deny / review / allow aggregation, default decision, tenant of intent and actor | deny dominates, then review; an invalid intent is never allowed |
| `authz` | policies of an evaluator | Evaluate, aggregation | policies, other evaluators | combination of decisions, wildcard and module matching | default is no, deny overrides, an evaluator that fails is not passed over |
| `entity`, `entity/crud` | descriptors; a store behind the handlers | Normalize, catalog; list, create, get, update, delete with hooks | hooks, store, router | normalising what is normal already; the body that fails to encode after the store has changed | normalisation settles, an answer tells what was done |
| `infrastructure` config, database, router | router: middleware list, composed handler | load, overlay, validate; Use, Method, ServeHTTP | net/http, files, environment | layers of configuration; composed handler read without the lock after invalidation | a later layer wins where it says something; every request goes through all middleware wired |
| `observability` health, metrics, tracing, logger | checker list | Register, Check with timeout | checkers | a checker answering as its timeout fires | one result per checker, no goroutine left blocked |
| `security` middleware: cookies, csrf, cors, headers, identity, authn, authz, ratelimit, middlewarepolicy | cookie kinds and settings; the browser's token | one handler each, composed in chains | net/http, router, limiter, evaluator | order of layers and of decisions, skips, token rotation between two requests | no effect unless every layer let the request through |
| `security` passhash, signature | none | hash, verify | crypto | - | - |

How they interact: an application publishes through an `Outbox`, whose
dispatcher forwards to another `event.Bus`, usually the in-memory bus, whose
handlers may publish again. The resilience values wrap arbitrary operations and
share no state. Everything else is called synchronously.

## What is modelled

### Outbox (`Outbox.tla`) and its promise (`Delivery.tla`)

Several Outbox values share one in-memory store. `pos`, `attempts`, `lease`,
`delivered`, `dead` are the store's entries; `loop[o]` is the program counter of
the dispatcher goroutine of `o`, `batch`, `entry`, `seen` what it carries (the
copies of `PendingEntry`, whose `Attempts` go stale); `stop` and `cancelled` are
the lifecycle; `saving` are Publish calls between their stopped check and their
Save. Every critical section of the store and of `o.mu` is one action; a
dispatcher can be interrupted between any two. `lease[e]` is the time left until
`claimedUntil`, so time is relative and needs no bound. `sends` and `blurred` are
history: how often the bus accepted an event (2 stands for more), and which
events had a claim run out under a holder or an acceptance whose mark was
refused.

`Delivery.tla` is the abstract specification, in the words of the `Store`
contract: an event is kept once per idempotency key, delivered only after
acceptance, dead only after `MaxRetries` failures, failures are bounded, settled
is for good. `ImplementsDelivery` states that the outbox implements it, with a
budget of `MaxRetries + Cardinality(Outboxes) - 1` failed attempts: each other
dispatcher can hold one stale copy and add one failure. The budget is tight.

### In-process bus (`MemoryBus.tla`)

Sync and async in one model (`async`). `subscribers` is the handler list of one
event type, `held[a]` and `todo[a]` the copies publishers and workers go on with
after the lock is released, `queue` the job channel, `sending` the runtime's
line of blocked senders (a receive hands the freed place to its first), `gone`
the workers that exited, `inFlight` the WaitGroup. `closing` follows Close
statement by statement: closed under the lock, lifecycle cancelled (which wakes
every blocked sender with `ErrBusClosed`), queue closed, workers awaited,
dispatches awaited. A worker's handler may publish to its own bus.

### Circuit breaker (`CircuitBreaker.tla`)

`Admit...` is the first critical section of `Do`, `Succeed`/`Fail` the second;
between them `call[c]` records what the call was admitted as. `cooling` is the
time left of the cooldown. `late` is history: callers admitted before the last
change of state, whose results the code applies all the same. `OpPanics` is an
op whose result is never accounted for, `IsFailurePanics` a panic of the caller's
own `IsFailure`, when a probe is off the count and nothing else has been done; `lost` is
history, the probes of the half-open period that went that way.
`MCResilience` checks it together with the bulkhead; each of the two violation runs has
an MC module of its own.

### Bulkhead (`Bulkhead.tla`)

Each access of the counter and of the channel is a step. `line` is the
runtime's line of callers blocked on the slot channel; `Finish` hands the slot
to its first. `GiveUp` is the timer or the context, at any time.

### SQL store (`SqlOutbox.tla`)

The dispatchers of several processes over one table; a row has `status`,
`attempts` and `lease` (the time left until `claimed_until`, negative when it has
passed). Each SQL statement is one step: `SaveSelect`, `SaveInsert` and
`SaveRecheck` for Save; `ClaimSelect` and one `ClaimRow` per candidate for
ClaimBatch, which works with the clock and the attempts it read first (`age[d]` is
how old that reading is); one statement for each Mark. A statement may fail
without effect or after it (`SaveInsert`, `ClaimFails`), and a process may die anywhere
(`Crash`) and come back with nothing but the table. `Conflicts` is the primary key
and the unique index on the idempotency key. `SqlImplementsDelivery` needs no
mapping but for the history: the table is the `Delivery` queue.

### Before a process serves (`MCStartup`)

- **Text**: a text is blank, plain or surrounded by spaces; what trimming does to it is
  all that any module needs to know of it.
- **Versions**: `dependency.go`'s constraints as comparators; `Meant` says the same from
  the definition of each operator, over every version of the menu.
- **Composition**: `compose.go` and `catalog.go`: normalised requests, catalog building,
  the provider choices of each dependency, the backtracking search one advance or
  retreat a step, the queue of ready modules. Every early return is a `CompRefuse`.
  `MCSamePlan` composes one catalog twice, to compare the two plans.
- **Contributions**: `Registry`, and `CatalogBuilder.Build` one contribution a turn, with
  its spec, normaliser, validators and rank.
- **Descriptors**: `Descriptor.Normalize` and the entity catalog.
- **Config**: defaults, JSON, environment, Validate, by what each text means.
- **Decisions**: `authz.go` and `mutation.go`. `NormalMaps` gives every result that
  `normalizeMap` may have when keys collide; each policy settles the pairs of the request
  again, as `Policy.Match` does, so one evaluation may read one key in two ways.
- **Health**: the list of checkers, and for each Check its copy of it, the channel,
  goroutine and timer of each checker. A checker may return, panic, answer late or
  never.

### While a process serves (`MCRuntime`)

- **Cache**: the map and the `next`/`prev` pointers of the list, so that a pointer left
  behind shows; `newer` (which key was used after which) and `stored` are history. The
  sweeper reads the clock before it waits for the lock, and holds the lock while it
  removes entry by entry.
- **TokenBucket**: tokens are counted in the time their refill takes, so that all is
  integers. `allowing` holds clock readings until the lock is taken. History: `spent`,
  `slipped` and `dropped` count from the moment an observer began (`Observe`). Any idle
  time is allowed, also one that is shorter than the refill of a burst.
- **RuleRegistry**: the look, the sort and the copy of Evaluate are separate steps.
- **Retry**: the loop of Do and every delay the jitter allows, in hundredths.
- **Cookies**, **Pipeline**: `middlewares` is the router's list, to which each `Use` adds
  what `middlewarepolicy.Chain` keeps of a group; the chain is composed from it on first
  use. `wired` is history, the layers that were asked for. Each middleware is an action
  of a request in its layer, in the order of its code; then the routes of `crud.go`
  (HEAD goes to the handler of GET, a method without a route is answered with 405),
  decoding, hooks, store and rendering. A browser
  keeps the CSRF cookie, and its page copies it into the header when it makes the
  request, which is before it is sent.

`MCResilience`, `MCStartup` and `MCRuntime` start each behaviour in one of their parts
(`part`) and leave the others alone.

## Runs

| Run | Expect | Shows |
|---|---|---|
| `outbox` | pass | `TypeOK`, `DuplicatesExplained` (no event is held or accepted twice unless a claim ran out under its holder or a shutdown swallowed the mark), `StoppedForGood`, `ImplementsDelivery` |
| `outbox_live` | pass | `EverySavedSettles` (a saved event is settled while a dispatcher runs, also behind a batch of failing ones), `StopReturns` |
| `outbox_claim_window` | violation | `ClaimReserves`: see findings |
| `bus` | pass | `Accounting`, `NoSenderLeftBehind`, `DrainedOnReturn` (an async Close returns only when every accepted job has been run, those accepted during Close included), `SendersGetThrough`, `CloseReturns` |
| `bus_panic` | violation | `PublishNeverPanics`: see findings |
| `resilience` | pass | breaker: `ProbesBounded`, `FailuresBounded`, `OnlyLateDisturbsOpen`, `Recovers`; bulkhead: `Accounting`, `QueueBounded`, `NoIdleSlot`, `WaitEnds` |
| `breaker_cooldown` | violation | `CooldownHonoured`: see findings |
| `bulkhead_full` | violation | `FullMeansFull`: see findings |
| `sql_outbox` | pass | `OneHolder` (an event is held or accepted twice only if its claim ran out or its mark was lost), `LoserToldDuplicate` (whoever loses the race for a key is told so, and the winner's event is there), `SqlImplementsDelivery`, `KeptSettles` (also rows a failed ClaimBatch or a dead process had claimed) |
| `startup` | pass | `ConstraintsMeanIt`, `PlanServesInOrder`, `PlanIsCanonical`, `OwnershipFailsClosed`, `DescriptorsSettle`, `ConfigLayered`, `CautionWins`, `HealthFaithful` (no late answer is taken for another checker's), `HealthReturns` (a Check all of whose checkers have timeouts ends, and nothing is left blocked) |
| `plan_same_set` | violation | `SameBlocksSamePlan`: see findings |
| `runtime` | pass | `CacheSound`, `BucketBound`, `RuleAnswerLinearizable` (an answer is right for the rules of some moment of the call), `RetryWithinBudget`, `PipelineGuards` (`EffectsGuarded`, `AnswersHonest`, `RotationSpares`, `KindsKept`) |

The runs `outbox`, `resilience` and `bus` also check the type invariants of their modules.
For every property the module has a definition marked "Mutant", a plausible
mistake that makes the run fail; mutants are not part of the specification.
`CHECK_DEADLOCK FALSE` is set where the system may rest: all outboxes stopped,
the bus closed, or nobody calling.

### Bounds, and why they are enough

- `outbox`: two dispatchers, two events (one with a key that is published
  again), batch 2, one retry, claims of one tick. Two dispatchers are what a
  claim race, a stale copy and a settle-settle race need; two events are what a
  batch outliving its claim needs. The two dispatchers are symmetric (no liveness
  in that run).
- `outbox_live`: starts from a backlog, emitters done: two events before one
  dispatcher with batch 1 (the second must wait behind the first), or one event
  before two dispatchers. Two retries, claims of two ticks.
- `outbox_claim_window`: one event, two dispatchers, plus each holder's own view of its
  window.
- `bus`: one publisher, two workers, two subscriptions, a queue of one. A
  publisher can block behind a worker's handler, both handlers can gridlock,
  and one worker can exit while the other runs.
- `resilience`: for the breaker three callers, threshold, cooldown and probes 2: a call
  admitted while closed, a probe of an earlier half-open period and one of the current
  period can be out together. The failure count needs no bound: it is proved
  bounded (`FailuresBounded`). For the bulkhead five callers, two slots, two places: one
  caller more than fits.
- `breaker_cooldown`: two callers, threshold 2, one probe. `bulkhead_full`: three
  callers, one slot, a queue of one.
- `sql_outbox`: two processes, batch 2, one retry, claims of one tick and a claim that
  takes one tick, one fault. Either two emitters race for one key in a table with a
  settled row, or that race is over and two events wait, so that a batch can be half
  claimed. One fault is one failing statement or one
  crash, at any step of either process; behaviours that need two of them are not covered.
- `startup`: all version triples below 3 and some that are short or malformed, with each
  operator; three modules, each with any of three lists of provisions and four of needs
  over two ports and two major versions, which gives cycles that another choice avoids,
  cycles that none avoids, modules that could serve themselves and several providers
  of one port; three contributions, two callers of a registry; up to three policies or
  rules in every order; one caller of Check over two names and three registrations, so that a
  checker is replaced while it is asked. Two of the policies deny on the two values of a
  key that is given twice.
- `plan_same_set`: three modules and one port, asked for in every order, twice.
- `runtime`: three keys in a cache of two, three instants; two keys and two callers of a
  limiter of four tokens with an idle time of two, so that a bucket may be dropped before
  it is full; three rules and two evaluators; three attempts; two requests of eight
  shapes through every wiring that two calls of `Use` make out of five groups of layers.
  Two requests are what a rotation needs, two calls what a stale chain needs.

The proofs below remove these bounds for the safety properties of `Outbox`,
`SqlOutbox`, `MemoryBus`, `CircuitBreaker`, `Bulkhead`, `TokenBucket`, `Retry`,
`RuleRegistry`, `Pipeline`, `Versions`, `Composition`, `Config`, `Contributions`, `Descriptors`,
`Decisions`, `Health` and `Cache`.

### Fairness

Only what the Go scheduler and the callers' contracts give: a goroutine that can
take a step takes it, time passes, ops and handlers return. A handler of the bus
that publishes a few times before it returns needs strong fairness for its
return: each nested Publish disables it for a while. In `SqlOutbox` processes are
scheduled and restarted and time passes; statements fail and processes die finitely
often. In `Health`, Check and a checker's goroutine run on when they can, and a
timer that was set fires; no checker is assumed to come back. Nobody is ever
assumed to publish, start, stop, cancel or close. `Recovers` asks callers to keep
calling, because the breaker has no goroutine of its own and leaves the open
state only at the next call.

## Findings

Disagreements between the code and its documentation, each shown by a run:

1. **Claim window** (`memory_store.go:160`, also `sql_store.go:106-110`).
   `MarkFailed` resets `claimedUntil` whoever calls it. A dispatcher whose claim
   has expired thereby releases the live claim of its successor, and the entry is
   handed out again inside that window, against `memory_store.go:85-87`.
2. **Panic on Close** (`memory.go:185`). An async `Publish` past the closed check
   may send on the queue after Close has closed it.
3. **Cooldown cut short** (`circuitbreaker.go:190`). A call admitted while the breaker
   was closed fails late, while a probe is out, and re-opens it; the success of that
   probe then closes it at once, and a call passes within the new cooldown, against
   `doc.go:26-27`. One probe at a time (`HalfOpenMaxProbes` 1) is enough.
4. **Full although empty** (`bulkhead.go:122`). A caller that waited still counts
   as waiting while its op runs, so another is refused with `ErrFull` although
   nobody waits, against `bulkhead.go:21-22`.
5. **Same blocks, another plan** (`compose.go:271`). Providers are chosen dependency by
   dependency in the order of the request, and the first choice without a cycle wins.
   Modules 1 and 2 each provide and require a port that 3 provides as well: asked for as
   3, 1, 2 the plan is 3, 2, 1; asked for as 2, 1, 3 it is 3, 1, 2; against
   `docs/COMPOSABILITY.md:73` (of the repository), by which the same blocks always have
   the same plan. What does hold is `PlanIsCanonical`: given the providers that were
   chosen, the plan is the first by ID.

The model also exhibits three behaviours no run checks yet: in sync mode `Close`
may return before a publisher past the closed check begins its dispatch
(`memory.go:195`); a handler is invoked after its `Cancel` returned, from a copy
made before (`memory.go:175`, against `event.go:128-129`); a second `Close` returns
while the first still drains (`memory.go:232`).

Met while modelling the rest, and kept by the models as the code does it (no
run is spent on them):

- `config.go:111` says the fields present in the file overlay the defaults verbatim; an
  empty text inside a section does not (`Overlays`).
- `authz.go:74-76` wants evaluators not to depend on whitespace; of two keys that are
  equal once trimmed, map iteration keeps either (`NormalMaps`), and one request may get
  two answers. As each policy settles them again (`authz.go:134-141`, called from
  203-204), two policies that deny on the two values of such a key may both miss it.
  `CautionWins` therefore asks a deny only to stop what it matches however the pairs are
  settled (`MustMatch`).
- `compose.go`: a module that provides a port it requires is dropped from its own
  choices, so with one other provider the pair may be refused as a cycle.
- `catalog.go:206-236`: `BuildModule(" a ")` finds the module and then refuses it, because
  the IDs are compared untrimmed.
- `retry.go:37` says `MaxDelay` caps any single delay; the jitter is added after the cap,
  and `RetryWithinBudget` allows for it.
- `router.go:99` reads the chain without the lock: a `Use` during a request, against the
  contract of `router.go:26-28`, may leave that request without a handler.
- `encoding.go:38`: an entity is stored and its hook has run, and the answer is 500.
- `memory.go:212-217` of the cache waits for a `stop` channel that nothing closes.
- `cookies.go:246-257` clears a cookie under the settings of now: after `Configure`
  changed the domain it misses the one that was set.
- `tokenbucket.go:135-145`: an idle time shorter than a full refill gives a drained key
  its burst back early, and nothing refuses one; the default of ten minutes is too short
  wherever a burst takes longer to refill. `BucketBound` counts that `Windfall` for each
  time the bucket was dropped; it is zero where the idle time is long enough.

A breaker all of whose probes are lost, because their op or `IsFailure` panicked, stays
half-open for ever, refusing every call: `Recovers` excepts exactly that state
(`Wedged`). A probe that never returns does the same; `Recovers` assumes that ops return.

## Proofs

Each `*_proofs` module extends its components, states an inductive invariant
(`IInv`, `RuleInv`, ...) and proves Init => IInv, IInv /\ [Next]_vars => IInv' and
IInv => each property, one step per action. The only assumptions are the named
`ASSUME`s on the constants (what `New` rejects, finite sets of goroutines, the shape of
what is written), which TLC evaluates in the runs. The invariants were checked with
TLC before they were proved.

- **Outbox_proofs**: `TypeCorrect`, `NoUnexplainedDuplicate`, `StopIsFinal`,
  `Implements` (the refinement of `Delivery`). A mark carries only an ID, so what
  justifies it lies in what the dispatcher read earlier while others moved on. The
  invariant ties copies to the store: what is held is saved; the attempts an
  event has are bounded by the dispatchers that can still add one; unless
  blurred, an event has one holder and a live claim or has not been accepted; a
  stopped Outbox has no goroutine.
- **SqlOutbox_proofs**: `SqlTypeCorrect`, `SqlOneHolder`, `SqlLoserToldDuplicate`,
  `SqlImplements` (the refinement of `Delivery`, for any number of processes, statement
  failures and crashes). The same argument, but a copy is made by the SELECT already,
  before the row is claimed: `Copied(d)` is what `d` holds or is a candidate for, and
  the budget (`BudgetInv`) counts the processes that may still try on the strength of
  an old copy. `SaveInv` says what each step of a Save knows of the table, `SoleInv`
  that an event nothing happened to has one holder, whose claim runs, or none.
- **Resilience_proofs**, circuit breaker: `BreakerTypeCorrect`, `ProbesStayBounded`,
  `FailuresStayBounded`, `CooldownOnlyLate`. The strengthening (`LateInv`) says
  which running calls are late: every probe unless the breaker is half-open,
  every call unless it is closed.
  Token bucket: `GrantsBounded`, `BucketTypeCorrect`. `BucketBound` is not
  inductive, for it does not say what a bucket is still worth. What is: grants plus the
  worth of the bucket at `mark` are paid for by burst, time, slips and what drops gave
  back (`PaidFor`). A bucket that is dropped has been idle for `IdleTTL`, so what it is
  worth rises by no more than one `Windfall`. Nothing is assumed of the idle time but what
  `NewTokenBucket` makes of it.
  Retry: `RetryStaysWithinBudget`. Each attempt but one under way has its outcome
  (`AttemptInv`), only the last outcome ends the loop (`OutcomeInv`), every pause is
  within the cap and its jitter (`PauseInv`), and at most one attempt begins after the
  context ended, behind its last look at it (`LookedInv`).
  Cache: `CacheStaysSound`. Last use is a strict order with a place for every entry
  (`InOrder`), and the pointers lead each node to its neighbours in it, on both sides
  (`Chained`). Nothing has two neighbours on a side, so taking one out moves two
  pointers, and the two ends they join are neighbours then (`NeighboursMeet`); what is
  pushed to the front was used last. The victim is therefore older than all the rest,
  which is what `MissingOlder` says of whatever was pushed out and still counts.
- **Bulkhead_proofs**: `BulkheadTypeCorrect`, `AccountingExact`,
  `QueueStaysBounded`, `SlotsNotIdle`. `QueueBounded` is not inductive: the
  comparison is with a counter that overshoots. What is: everyone past the
  comparison, running or leaving included, is at most `MaxQueue`
  (`EntitledBounded`), and the line holds the blocked callers, each once
  (`LineInv`), which the hand-over needs.
- **MemoryBus_proofs**: `BusTypeCorrect`, `DispatchesCounted`, `SendersReleased`,
  `CloseDrains`. The drain rests on `GoneInv`: a worker leaves only a closed,
  empty queue, which stays empty because a closed queue takes no job and no
  sender is blocked any more.
- **Pipeline_proofs**: `PipelineTypeCorrect`, `PipelineGuarded`, for any layers, groups,
  requests and credentials. The router's list keeps what was asked for, each layer once
  and in its order (`Places`, which holds of one group and of lists joined by `Use`), so
  where a request is says which layers are behind it: each of them let it through, and who it is by now the last identity layer
  behind it found (`LayerInv`); past the last layer, all did (`ThroughInv`); the effect
  is there from the store on, and only answers have an author (`AnswerInv`); until an
  answer sets another token, the token of an honest page is that of the cookie
  (`TokenInv`);
  kinds of cookies are numbered without gaps and never share a name (`CookieInv`).
- **Services_proofs**: what serves the start and the requests of a process.
  `ConstraintsMean`: the bounds a caret or a tilde is turned into enclose exactly the
  versions that agree with the base where its form says, for every natural number in
  a version and every length of a list. `PlanAlwaysServes`, `PlanAlwaysCanonical`: no
  assignment of providers that would do comes before the candidate of the search
  (`NoneBefore`). When a candidate has a cycle, so has everything that extends it
  (`Pruned`), so the advance skips nothing that would do, and when there is nowhere to
  advance to, nothing would (`ExhaustedMeansNone`). Of the queue: what is sorted so far is
  the beginning of the plan (`OrderedBy`), and as there is no cycle something is ready
  until all is sorted (`SortedAll`). `ConfigurationLayered`: which layer speaks
  last of a field. `OwnershipFails`: the contributions already built are a prefix without
  a wrong one, so the one that is refused is the least wrong one; the sort of a finished
  catalog is a permutation and stable. `DescriptorsAreSettled`: a normalized list
  depends on nothing but the set of its words (`Normalized`) or of its normalized records
  (`SortedByName`), and normalizing leaves that set as it is, so the second time changes
  nothing; the menus may hold any well-typed descriptors. `CautionAlwaysWins`: the first policy that decides,
  the answer of another evaluator that is taken over, and the rule that decides a
  mutation each outrank what they should, each policy under a reading of the request of
  its own. `AnswersLinearizable`: Evaluate
  lets go of the lock between its sort and its copy, so the copy need not be sorted. But
  its first m rules are, they are the first m registered, and m is at least what the call
  is owed (`LineInv`); the first match of such a copy is then that of the rules
  registered up to the larger of m and the match. `HealthReportsFaithful`: the entries mirror the
  registrations (`Mirrors`), so does every copy, at some earlier moment; an answer is in
  one place at a time and belongs to its checker (`Carried`), and what was reported is
  what the checker did, which does nothing further (`Truthful`).
- **DataLemmas**: removal from the middle of a line; a finite ordered set is counted
  off by the number of members below each (`RankedProperties`), on which the sorts rest; least
  elements; induction stated of a set of numbers, in place of the library's theorem
  with an operator as parameter.

Some definitions are written with the proofs in mind: `Sort`, `StableSort`, `Chain`,
`Aggregate`, `RegisterKind`, `NormalizeStrings`, `ByName`, `InTurn` and `Those` say by ranks,
comprehensions and concatenations what `SetToSortSeq`, `SelectSeq`, `@@`, `FlattenSeq` or
a fold would, as the provers cannot expand those.

Model-checked only:

- liveness (`EverySavedSettles`, `StopReturns`, `SendersGetThrough`, `CloseReturns`,
  `Recovers`, `WaitEnds`, `KeptSettles`, `HealthReturns`), which is out of the prover's
  reach. Every invariant and action property of a passing run is proved.

## What is left out, and why

- Envelope contents, validation, error texts, logging: no property depends on them.
- The outbox's unique IDs are the emitters' contract (`event.go:37`); the model assumes it.
- A panic of an op or a handler on a goroutine of the library ends the process.
- Wrappers of cryptographic and of database functions, metrics, tracing and logging
  hold no state to interleave.
- Header texts, client addresses, list filters and token bytes: the pipeline's
  properties do not tell them apart.
- Use of a router, or Configure of cookies, while requests are served: outside the
  documented contract.
- A nil middleware given to `Use` itself: the router does not skip it (`router.go:112-116`)
  and the first request panics. The model hands to `Use` what `middlewarepolicy.Chain`
  made of a group, which is how `middlewarepolicy` means lists of middleware to be used.
- Clocks that differ: in `SqlOutbox` the processes share one clock, while each reads its own
  (`sql_store.go:201`). A process whose clock is ahead takes claims over early, as if they
  had run out; the guarantees are those of clocks that agree.
- The exponential of `backoff.go` when no cap bounds it: its overflow is not modelled.
- A nested Publish on a sync bus is a plain recursive call; the model shows it as
  one more publisher.

## Plan

Done: the outboxes, the bus, the resilience values, module composition and registries,
descriptors, configuration, decisions, health, cache, token bucket, rule registry, the
request pipeline; theorems for all of them. What a next step could take up: a promise
for the bus, and one for the cache, stated as specifications of their own, with refinement
proofs like those of the two outboxes.

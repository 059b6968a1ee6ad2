# TLA+ models of the MQTT-Modbus bridge

The bridge polls Modbus slaves through a serial-to-MQTT gateway (USR-DR164)
and publishes what it reads to Home Assistant.  This directory holds TLA+
modules for the parts of it where ordering, timing and failure matter, TLC
configurations that check them on small instances, and TLAPS proofs.  Source
paths below are relative to `src/src/` of the repository tree.

## 1. The system

| component | state | operations | talks to |
|---|---|---|---|
| group scheduler `pkg/scheduler/group_scheduler.go` | `lastExecutions`, ticker, pass under way | `Start`, `checkAndExecuteGroups`, `executeGroup` | calls the executor, then the callback of `main.go` |
| strategies `pkg/modbus/strategy_*.go` and `cache.go` | value cache with a lifetime of 5 minutes | `ExecuteGroup` of a register group or a calculated value, `Get`, `Set` | gateway; expression evaluator |
| circuit breaker `pkg/recovery/circuit_breaker.go`, `pkg/gateway/circuit_breaker_wrapper.go` | state, failures, tries, two times | `Call` = `beforeCall`, transaction, `afterCall`; `Reset` | wraps the gateway |
| gateway `pkg/gateway/usr_dr164.go` | expected slave and function, `responseChan`, mutexes, connection | `SendCommandAndWaitForResponse`, `SendDiagnosticCommand`, `onMessage`, connection handlers, `Disconnect` | MQTT broker (commands out, answers in) |
| device diagnostics `pkg/diagnostics`, `pkg/mqtt/device_diagnostic_topic.go` | metrics and last published state per device | `RecordSuccess`, `RecordError`, diagnostics loop, `CalculateDeviceState` | called by the scheduler's callback; publisher |
| publisher and sensor topics `pkg/mqtt` | connection; the energy filter's memory | `PublishSensorState`, `PublishSensorDiscovery`, `ValidateData` | MQTT broker (second connection) |
| bridge status `main.go`, `pkg/mqtt/status_topic.go` | the retained status; last will | `Start`, heartbeat, connection handler, `Stop` | publisher |
| health monitor `pkg/health`, `pkg/http`, `pkg/recovery/error_recovery_manager.go` | online flag, error counters, grace period | `RecordError`, `RecordSuccess`, `MarkOffline`, `/health` | the heartbeat asks it; `main.go` records nothing into it, `pkg/services` would |
| configuration `pkg/config`, registration `pkg/modbus/strategy_executor.go` | the configuration, the strategies and their intervals | `LoadConfig`, `Validate`, `ValidateDevices`, the conversions, `RegisterFromDevices` | read by all |
| formulas `pkg/config/formula_validation.go`, `pkg/modbus/expression_evaluator.go` | none | `ValidateFormula`, `Evaluate` | calculated strategies |
| metrics, logging, errors, services, builder | counters, output | | nothing reads them back; services and builder are not wired into `main.go` |

How they run: `main` starts one goroutine each for the scheduler, the
heartbeat, the diagnostics loop and the forced republication, and optional HTTP
servers.  The scheduler's goroutine makes every Modbus transaction and every
sensor publication, one after the other.  The MQTT client of the gateway
delivers messages to `onMessage` one at a time on a goroutine of its own.

What is hard: a Modbus answer carries no request number, and travels with
QoS 0; `expectedSlaveID` and one channel are shared by calls that only exclude
each other per slave; the breaker runs a transaction between two critical
sections; a scheduler pass decides what is due and then takes long; cached
values expire by age while the reads that renew them wait their turn; the
retained status has five writers and the broker, and shutdown happens with all
of them still running; the energy filter judges a reading by one it may have
been wrong about; formulas are evaluated as text into which values are written;
keys are joined with `_`, so that different pairs may give one key, and the maps
that hold them are ranged over in any order.  `PROJECT.json` lists each of
these places (`hazards`) with the properties that watch it.

What makes each part correct:

- scheduler: no key more often than its interval, none starved, failures
  contained, the loop stops when told to;
- calculated values: their inputs are there as long as reads succeed;
- breaker: trips at the threshold, holds for the timeout, tests a bounded
  number of requests, never gets stuck, recovers;
- gateway: one transaction per slave, at most one frame per request and
  one request per frame, every call returns;
- diagnostics: the state shown follows from the reads made, within bounds, and
  what is shown is kept up to date;
- energy filter: what is published never falls, and true readings get through
  in the end;
- status: a stopped or lost bridge is shown offline, a running one online;
- formulas: what validation accepts is answered, with the value it means;
- configuration: one verdict for one file, and a bridge that polls, computes and
  announces what the file says.

## 2. The modules

| module | what it is |
|---|---|
| `CircuitBreaker` | the breaker with concurrent callers and a service that comes and goes |
| `CircuitBreakerProofs` | its inductive invariant and theorems |
| `RequestAnswer` | abstract: what a caller of the gateway may rely on |
| `USRGateway` | the gateway, its callers, `onMessage` and the link; implements `RequestAnswer` |
| `USRGatewayProofs` | its inductive invariants and theorems, that it implements `RequestAnswer` among them |
| `PeriodicPolling` | abstract: two starts of a key lie between its interval and its deadline |
| `GroupScheduler` | the scheduler with the intervals the executor registers; implements `PeriodicPolling` |
| `Polling` | `GroupScheduler` composed with the strategies and the value cache |
| `PollingProofs` | the inductive invariants and theorems of `GroupScheduler` and of `Polling` |
| `DeviceDiagnostics` | what is told of a device's health, over `PeriodicPolling` |
| `DeviceDiagnosticsProofs` | its inductive invariant and theorems |
| `GatewayHealth` | the health monitor with its grace period |
| `BridgeStatus` | `GatewayHealth` with the life of the bridge, its connection, and the status retained at the broker |
| `BridgeStatusProofs` | its inductive invariant and theorems |
| `SensorPublishing` | the topics of sensors and the energy filter |
| `SensorPublishingProofs` | its inductive invariant and theorems |
| `ExpressionEvaluator` | formula validation and evaluation, against a reference grammar |
| `ExpressionEvaluatorProofs` | that evaluator and grammar agree, for formulas of any length |
| `BridgeConfig` | from the file to the strategies registered and the topics announced |
| `BridgeConfigProofs` | its inductive invariant and theorems |
| `MC...` | the instances TLC checks |

A definition named `Mutant...` is a wrong version of the definition below it.
It is no part of the model: `PROJECT.json` pairs it with the property that must
fail when it takes the place of the right one.

### CircuitBreaker

`Call` is three steps: `BeforeCall(c)` (one action for each way through the
switch: `AllowClosed`, `EnterHalfOpen`, `AllowTest`, `Reject`), the time in
which `c \in running`, and `AfterCall(c)` (`OnFailure` or `OnSuccess`).  Steps
of other callers come between, so a call may report in a state it was not
admitted in.  `Reset` may come at any time.  `sinceFailure` and `sinceChange`
are `time.Since` of the two times kept, saturated just above the timeout, since
they are only compared with it; `failures` saturates at `FailureCap`, at least
`MaxFailures`.  `trial` is history: who was admitted since HALF-OPEN was
entered and how many of those succeeded.

### USRGateway

Each caller goes through `Request`, `LockSlave`, `Prepare` (drain one, number
the request, say whose answer is expected), `SendCommand` or `SendFails`,
`Receive` or `Timeout`, after a timeout `LockForCleanup` and `Cleanup`, and
`Return`.  `onMessage` is two steps, `CheckMessage` under `commandMutex` and
`Enqueue` after it.  `wire` holds commands and answers in flight, in order;
`Lose` drops the oldest at will, and the connection comes and goes
(`OnConnect`, `Subscribed`, `ConnectionLost`, `Disconnect`).  A frame carries
`req`, the request it answers, as history: no action decides by it, as the code
has nothing to decide by.  Register groups are read with any function code of
`Codes`; `onMessage` passes on frames with `ReadHolding` only.  The bytes, the CRC and Modbus exceptions are
abstracted into lost frames, because `onMessage` drops such a frame without
effect.  A process started with `--diagnostic` makes `SendDiagnostic` its first
use of the gateway (`mode`).

### GroupScheduler and Polling

`Check` takes a tick and decides which keys are due; `Begin(k)` takes one of
those, in any order, as the order of a Go map is any; `Executed(ok)` is the
return of `ExecuteGroup`, `Published` that of the callback.  `Tick` is one unit
of time; the ticker's channel holds one tick and drops more.  Code takes no
time of itself: time passes while a transaction or a publication is under way
(at the most `Execution[k]` and `Publishing`) and while the loop waits.

`Polling` says what a run does.  `ReadGroup` succeeds or fails, and caches all
registers of the group if it succeeds (the configuration guarantees that a
right-sized answer holds every register).  `Calculate` looks up each input and
gives up if one is missing or older than `TTL`.  An input stands for the group
its register is read with, or for an earlier calculated value.

### DeviceDiagnostics

The runs of the scheduler come from `PeriodicPolling` (`Polls!Start`,
`Polls!Advance`), which `GroupScheduler` implements: a key is started at least
every `Deadline` and not before its `Interval`.  `Begin` starts a run, one at a
time (`executionMutex`); it ends, at most `Duration` later, in what `ReadGroup`
or `Calculate` do, as in `Polling`.  A run that succeeds is followed by
`PublishResults`, which cuts the name of the device from a result's key: keys are
sequences of parts, and `Booked(k)` is the set of names that may come out, as any
result of a run may be the first that the map yields.  `RecordSuccess` puts a
name that is new into the map.  `PublishDiagnostics` is one pass of the loop,
with any of its publications failing; it holds the lock that `RecordSuccess`
needs, so the pass is one step.  Reads that fail are recorded nowhere, so the
metrics reduce to the time since the last success; the branches of
`CalculateDeviceState` are kept all the same.  `silentFor`, `failing`, `sent`
and `lost` are history: how long a device has really been silent, whether a read
of it failed since, what was published.

### GatewayHealth and BridgeStatus

The monitor's operations hold its mutex and are one step each; `errorAge` is the
time since `firstErrorTime`.  `BridgeStatus` follows `main` through its `stage`s:
`ConnectGateway`, `ConnectPublisher` (each may be tried for ever), `Announce`
after the discoveries, `HearSignal`, `PublishOffline`, `Disconnect`.  Beside it
run the handler of a connection (`OnConnect`), the heartbeat, which asks the
monitor (`Beat`) and then publishes (`SendHeartbeat`), and the polling, which
records its errors and publishes an offline once the grace period is over
(`PollFails`, `PublishGatewayOffline`).  `recorded` is the wiring: `main.go`
hands nothing to the monitor, `pkg/services/polling_service.go` does.  `Crash`
and `Restart` may come at any stage.

The connection has three views: `link` (the client counts as connected),
`session` (the broker keeps the session and its last will) and `whole` (packets
pass).  It breaks first (`Break`), and then client and broker notice at their own
times (`ConnectionLost`, `BrokerNotices`, which publishes the will).  What is
published in between is lost, whether the code is told or not.  `raced` and
`late` are history: they name the two races under which the status is wrong.

### SensorPublishing

`Read(s)` is a true reading of the meter, `ReadSpike(s)` any other; both are
`PublishSensorState`, with the topic of the device class.  `ValidateData` and the
memory of the energy topic (`lastValue`, `lastAge`, by the sensor's name) follow
the code, in its order: the memory is written before the publication, which a
connection that has just broken still loses (`link = "dead"`).  `Rounded` is the
rounding of the values published.  `truth` is the environment: meters rise, at
most at the rate the filter allows; `source` and `refused` are history.

### ExpressionEvaluator

Formulas are sequences of tokens.  `EvaluateText` makes the tests of
`evaluateNumericExpression`, in its order, on the text into which `Substitute`
has written the values, and evaluates parts of the text with the function it is
given; `EvaluateNumericExpression` is the function that is given itself.  Calls
are found by their text and end at the first `)`, a pair of parentheses is
removed when the text begins and ends with one, and the last operator of the
lowest rank is split first.  `InPlace` keeps what happens when the result of a
call is put beside digits.  `Meaning` is the reference, a grammar that knows
nothing of the code.  Numbers are integers with one rounding on both sides.

### BridgeConfig

`LoadConfig` (with its defaults), `Validate`, one `ValidateDevice(d)` for each
turn of the loop over devices, `Convert` (the flat groups and registers),
`RegisterStrategies` with one `RegisterDevice(d)` per device, and
`PublishDiscovery`.  Every loop over a map takes what is left in any order, and
`Merges` is the set of maps that may come of it.  A key is the sequence of the
words `_` joins, so that keys made of different parts may be equal, as they may
be in the program.  `FilesAssumption` gives the types of what a file says of its
devices.  Two variables are history: `ownRegisters` tells a file that has flat
registers of its own, beside which `Convert` makes no flat view of the devices,
and `sound` is whether the file, as it was read, is what `docs/VALIDATION.md`
asks for (`WellConfigured`).  That is stated over all devices at once, without
the order of the loops or the maps of ids they keep, and with keys counted, not
compared.

## 3. The runs

| run | instance | what it shows |
|---|---|---|
| `breaker` | 3 callers, threshold 2, timeout 2, 2 tries | the breaker's invariants, that OPEN holds for the timeout, recovery |
| `gateway_sequential` | 1 caller, function codes 3 and 4, as bridge or for a diagnostic | what sequential use gets: answers once and in order, a lag of at most the requests unanswered, and its own answer is never turned away; which requests never see their answer |
| `gateway_parallel` | 2 callers, 2 slaves | locks exclude, frames are used once, every call returns |
| `gateway_correct` | 1 caller, 2 slaves | violation: the answer of a timed-out request is given to the next |
| `scheduler` | a fast and a slow group, one disabled, a calculated value | rates, deadlines, no starvation, stopping |
| `polling` | the same, lifetime of the cache above the longest interval by what a pass takes | inputs are missing only after a failed or absent read |
| `diagnostics` | a meter with a calculated value and a device with a key of two parts | how long a silent device is called operational, no false alarm, states published in time |
| `status` | grace period 2, either wiring | the retained status under outages, crashes, restarts, stops and a gateway that fails: when it is true |
| `status_stop` | the program's wiring | violation: a signal is not heard while the bridge tries to connect |
| `publishing` | 2 sensors of one name or of two, 3 kinds, spikes, restarts, a connection that breaks | what the energy filter lets through, and when it turns the truth away |
| `evaluator` | every text of up to 4 tokens, every formula of up to 3 operators, readings -2, 0 and 3 | that the evaluator answers, and with the right value |
| `configuration` | configurations of one or two devices, each sound or with one thing wrong or unusual, in files of three versions | one verdict whatever the order, and a bridge that does what the file says |

### Properties

*Breaker.*  `TripThreshold`: the circuit is closed exactly while the failure
count is below the threshold, whatever calls report late.  `NeverWedged`: with
all tries handed out a call is still running, so HALF-OPEN is always left.
`TrialAccounting`: each call of a trial has succeeded or still runs, and there
are at most one more than the tries.  `OpenHoldsForTimeout`: the code looks at
the last failure, not at the time it opened, and yet never tests too early.
`Recovers`: a service that stays up ends in CLOSED for good.

*Gateway.*  `KeepsPromise`: `USRGateway` implements `RequestAnswer`, with the
number of requests issued and the pairs accepted as they are; it is checked
in `gateway_sequential` and `gateway_parallel` and proved for any use
(`ImplementsPromise`).
`LagBoundedByUnanswered`: in sequential use an answer is at most as many
requests late as went unanswered before it.  `OwnAnswerNotRejected`: the frame
a waiting caller asked for is not turned away.  `OneTransactionPerSlave` and
`CallReturns` are about the locks.  `HoldingRequestsOnly` states who is deaf: a
`SendDiagnosticCommand`, because `onMessage` turns its answer away, and a request
with a function code other than 3, because `onMessage` drops the frame it has let
pass; such a request can only get the late answer to another.

*Scheduler.*  `NoRetryStorm`: a key is not started before its interval has
passed, after a failure either.  `PollsPeriodically`: `GroupScheduler`
implements `PeriodicPolling` with the deadline `Deadline`, computed from what
the other keys take and from the check interval.  `KeepsPolling`: each key is
run again and again until cancelled.  `StopsAfterCancel`: the loop ends though a
tick is pending whenever it looks.

*Polling.*  `MissingOnlyIfUnread`: an input is missing only if its last run did
not succeed or there was none.

*Diagnostics.*  `SilentDeviceNoticed`: a device that stopped answering is called
operational for at most the offline timeout and the lag of its calculated values
(one lifetime of the cache for each formula that builds on another).
`NoFalseAlarm`: a device is offline only if a read of it failed, or if for
none of its groups the timeout has room for the time between two starts and for
a run, so that neither a late start nor a slow run is enough.  `ChangeGetsThrough`: whatever failed
before, a pass leaves a state unpublished only if its publication fails in this
pass.  `RepublishedInTime`: while publications succeed each state is sent again
within its interval and a period of the loop.  `ErrorMeansUnheard`: a device is in
error only if it has not answered for long, or if its key has not three parts,
in which case its reads are booked under another name.

*Status.*  `GoneIsOffline`: when the broker keeps no session of the bridge the
status is offline, but for an online that the heartbeat or a connection handler
sent behind the offline of `Stop`.  `GatewayOfflineShown`: a gateway marked
offline is shown offline, but for an online under way when it was marked, or a
connection made since, whose handler publishes online unasked.
`ComesBackOnline`: a bridge that runs with a whole connection and a monitor that
is online is shown online in the end.  `StopHeard`: a signal ends the process
once `Start` has made its connections; before that it does not
(`StopsDuringRetry`, run `status_stop`).

*Publishing.*  `NeverFalls`: a rising energy as published never falls within a
process, for sensors that share a name too.  `RefusedOnlyForOthers`: a true
reading is turned away only because the memory holds a spike or another sensor's
reading, never for elapsed time or for a publication that was lost.
`ComesThrough`: when spikes cease and the connection holds, what is published
becomes true, but for a rising energy whose memory is above the truth.

*Evaluator.*  `AnswerIsRight`: an answer is the value the formula means, but for
chains of powers (with nothing but deeper parentheses and no weaker operator
between them) and formulas in which an operator is missing.  `FailsOnlyWhen`:
an accepted formula that has a value is answered, but for negative readings,
parentheses inside a call and an expression that begins with one pair and ends
with another.

*Configuration.*  `OneVerdict`: only a well configured file is run and only one
that is not is refused, so the verdict does not depend on the order of the maps.
`PolledAsConfigured`: each enabled group is polled at its interval, at its device's slave, for
registers inside what is read.  `InputsAvailable`: each input of a formula is
read and has one writer, but for registers that registration leaves out or whose
joined key is another's.  `TopicsMatch`: sensors are announced under the topics
they are published to, but for devices with a `device_id` of their own.

An exception named in a property is not a licence: it is reached in the run
(taking it out makes TLC find it) and stands among the findings.

### Bounds

- Breaker: threshold, timeout and tries of 2 are the least at which "one before
  the limit" differs from both ends; three callers let one straggle while two
  fill a trial.  `FailureCap` 3 exceeds the threshold, so that counting on in
  OPEN happens.
- Gateway: `MaxRequests` stops new calls, never a call under way.  The channel's
  capacity is taken smaller than 10 so that it fills.  One caller is how the
  program uses the gateway; two are the least at which the shared expectation
  is overwritten.
- Scheduler: times are counted in units in which the longest run takes a few
  and intervals differ, so that passes outlast intervals, drop ticks and run
  late.  `LeastCheck` is one unit.  Nothing else is bounded.
- Diagnostics: a unit of time stands for one period of the loop; the offline
  timeout is three, the most that lies between two bookings of the meter's group
  (a late start, 2, and a slow run, 1); the lifetime of the cache is one.
  Silences are told apart up to `SilentCap`, above what the timeout and the lag
  add up to.
- Status: the grace period is 2, so that errors may be counted before it ends
  and a success may come between.  Ages above it are not told apart.  Nothing
  else is bounded.
- Publishing: two sensors are the least that share a name; a rising energy, an
  energy that may fall and a class that is only rounded are the three ways
  through the topics.  `Top` 2 and `EnergyBound` 3 leave a possible spike above
  every truth and one above what is possible; the meters of two sensors may be
  further apart than the rate allows at age `MinElapsed` 1; at age `AgeCap` any
  change is within the rate, so that older memories behave alike.  `Precision` 2
  makes two readings round to one state.
- Evaluator: three operators nest and chain in every way that two ranks and two
  groupings differ in; texts of four tokens are enough for every rule of the
  validation to decide; `Chained` adds powers of powers with parentheses between
  them.  A power with another exponent than 0, 1 or 2 is 0 and printed values
  have up to three digits, on both sides alike.
- Configuration: a second device is what makes slave ids, device ids and joined
  keys collide; each mistake validation looks for occurs, alone, as the loop
  stops at the first.

### Fairness

- Breaker: callers keep calling and their calls end (a transaction ends within
  its timeouts, `CallReturns`), and time passes.  Nothing is assumed of the
  service.
- Gateway: a caller takes its steps and its timers fire; a mutex that is free
  again and again is obtained in the end, as Go's mutex hands over to a waiter
  that starves.  Nothing is assumed of the link, the slaves or `onMessage`.
- Scheduler: its goroutine proceeds and time passes; `Stop` is strongly fair
  because `select` chooses uniformly among ready cases.
- Status: goroutines proceed and the heartbeat's ticker fires.  Nothing is
  assumed of the broker or of the polling: an attempt to connect need never
  succeed.
- Publishing: each sensor is read again and again and time passes.

Deadlock is not checked where the system may stop: after `Disconnect` (gateway)
after cancellation (scheduler, polling), and where start-up or an evaluation has
ended (configuration, evaluator).

### What disagrees with the documentation

`PROJECT.json` (`findings`) quotes the lines.  Two runs expect a violation:
`gateway_correct` (a late answer is taken for the next request's) and
`status_stop`.  The others are exceptions that a passing property names:

- gateway: the deaf diagnostic command; groups with function code 4, whose
  answers are dropped;
- breaker: a trial admits one request more than `HalfOpenMaxTries`;
- polling: calculated values run before the reads of their pass, and values
  expire between reads when a group's interval reaches the cache's lifetime, as
  the configuration admits and the instance rules out;
- diagnostics: devices whose keys have not three parts; devices that fall silent
  and stay operational on cached values;
- status: an online behind the offline of `Stop`; an online after a gateway was
  marked offline; a monitor nothing is recorded in;
- publishing: limits of a configuration that are never looked at; a spike that
  shuts out the truth; one memory for sensors of one name;
- evaluator: negative readings, parentheses inside calls, two pairs of
  parentheses, chains of powers, missing operators;
- configuration: versions other than 2.x, whose devices are not validated; a
  group's own `slave_id`, which is not used; inputs validation knows and
  registration leaves out; a `device_id`, which only the announcement uses.

Two more are in the model without a property.  `ApplyApplicationDefaults` turns
a `health_check_port` of 0 into 8080 (`config.go:386`), though the comment at
`config.go:103` says that 0 disables the page.  `enabled: false` alone does not
switch the device diagnostics off (`config.go:398`).

## 4. The proofs

The theorems hold for every value of the constants that satisfies the named
`ASSUME` of the module (checked by TLC for each instance).

- `CircuitBreakerProofs`: `Invariance` proves the inductive invariant, which
  adds to `TypeOK`, `TripThreshold` and `TrialAccounting` what links the times:
  while the circuit is open, the last failure is no older than the last state
  change.  `OpenHolds` follows from it: the timeout counted from the last
  failure is at least that counted from the opening.  `NotWedged` follows from
  the accounting: `NeverWedged` alone is not inductive.
- `USRGatewayProofs`, the locks: the invariant is `TypeOK` with `HoldsItsMutex`: a caller past
  `LockSlave` holds the mutex of the slave it asks.  `OneTransactionPerSlave`
  alone is not inductive, since the deferred unlock frees a mutex by the slave's
  id; that it is the caller's own follows from `HoldsItsMutex`.  The same
  conjunct makes every published frame well-formed.  `commandMutex` plays no
  part in these theorems.
- `USRGatewayProofs`, the promise, for any number of callers, slaves and requests:
  `ImplementsPromise` maps `Prepare` to `Issue`, `Receive` to `Accept` and every
  other step to a stutter.  What `Accept` asks of a frame is known only when it
  is received, so the invariant `PInv` follows each frame from the wire through
  `held` to the channel: the frames used, those in the channel, the one held and
  those on the wire differ, and in sequential use each lot is older than the next
  (`FramesInOrder`); no two callers have one number (`NumbersDiffer`); and a
  request not yet sent has no frame, one still waiting has been given none
  (`NotYetAnswered`).  `LagIsBounded` adds the bound on every frame that would
  still fit (`LagBounded`), not only on those accepted; that form is inductive,
  since the requests skipped between two answered ones stay unanswered.
- `USRGatewayProofs`, whose frames: `OthersNeverAnswered` and `OwnAnswerPasses` rest on
  `OwnFramesFit` (a frame that answers a caller's request has its slave id and
  function code), `HoldingInChannel` (no other code gets into the channel),
  `ExpectsOwn` (what is expected is the lone caller's) and `Deaf` (in a run for a
  diagnostic nothing is expected).
- `PollingProofs`, the scheduler: the invariant relates `sinceLast`, which the code
  compares, with the real time since the last start: they are equal except
  while the key runs, and a key in the queue of a pass was due and has not run
  since.  `NoStorm` follows.  A lemma shows that `MinCheckInterval` is positive.
  `PollsInTime` shows that the scheduler implements `PeriodicPolling`, for any
  finite sets of groups and calculated values.  Its invariant `InTime` bounds how
  long ago a key was started by what is behind it in the pass: while a key runs,
  while others of the queue do, and while the loop waits, each time by the sum
  of what the keys gone through may take and the wait for the ticker.  That sum
  (`Others`) runs over a set, and the prover has no induction over an operator;
  the lemmas about it (`SumUnique`, `SumExists`, `BusyWithout`, `BusyMonotonic`)
  take a counterexample among the finite subsets with least elements
  (`LeastSet`, from the well-foundedness of the strict subset order) and lead it
  to a contradiction.
- `PollingProofs`, the cache: a key whose last run succeeded has a value in the cache that
  is no older than that run (`ReadIsCached`).  With the bound of `PollsInTime` no
  such value expires before the key's next turn, which gives `InputsAreThere`.
  Its hypothesis is `CacheOutlastsPolling`: nothing in the code compares the
  lifetime of the cache (five minutes) with the intervals, of which the
  configuration admits any up to five minutes, so that values of the slowest
  groups may expire between two reads; the theorem says that nothing else does
  it.
- `DeviceDiagnosticsProofs`, for any devices whose keys have three parts
  (`WellNamed`): the invariant bounds the age of the reading behind each cached
  value (`StoredRestsOnRead`) and behind each booking (`BookedRestsOnRead`); a
  value found in the cache is at most one lifetime older than its input, so the
  bound grows along formulas by `Lag`.  `RunsAreBooked` says that while no read
  fails no run of a group has ended since the last booking, so that the start of
  one under way may be the deadline later at the most.  `SilenceIsNoticed` and
  `NoFalseAlarms` follow; neither property is inductive alone.  `ErrorIsUnheard`
  rests on `NothingBooked`.  What is published is proved for keys of any form:
  the manager's memory is what was sent last (`SentIsRemembered`), from which
  `ChangesGetThrough` follows, and what is left of the loop's period counts
  towards the deadline of a state (`DueInTime`), from which `Republished` follows
  for publication intervals above 0.
- `BridgeStatusProofs`, for any grace period and both wirings.  Neither property
  is inductive alone: that a session ends offline needs to be known while the
  connection is still whole (`StoppedIsOffline`), that an online under way is
  the race needs to be known before it comes through (`UnderWayIsRaced`), and
  that `Start` announces no bridge whose gateway is offline needs the stages in
  which the monitor can be (`OfflineWhileServing`).
- `SensorPublishingProofs`, for any sensors, rates and precision.
  `NothingFalls` rests on `ShownIsRemembered` (what is shown is at most the
  memory, rounded) and on the lemma that rounding keeps the order.
  `OnlyForOthers` rests on `MemoryFollowsMeter`: a memory written by a sensor is
  below its meter by at most the rate times its age, so that the sensor's own
  next reading always passes.

- `BridgeConfigProofs`, for any files of the types of `FilesAssumption`.  The
  invariant follows the loops over maps: every device that a loop has gone
  through was found valid (`DevicesChecked`), or has its groups, calculated
  values and intervals registered, and every entry registered comes from such a
  device (`GroupsRegistered`, `CalcsRegistered`, `IntervalsRegistered`); but an
  entry need not be that of the device one looks it up for, as a later device may
  have written over it.  `RunsAsConfigured`, `HasInputs` and `TopicsAgree`
  therefore ask that a key is not contested; then (`AtMostOne`) its only source
  is the device meant.  The flat view (`FlatViewMade`) is a fold over maps in any
  order.  Lemmas about such folds (`FoldUnique`, `FoldExists`, `FoldMerges`) say
  that the result has all keys of the maps, and under each an entry of one of
  them; they use least counterexamples, as those of `PollingProofs` do.
  `VerdictGiven` needs an invariant of its own (`VerdictSoFar`): while the
  devices are validated, the file is well configured if and only if each device
  not looked at yet is in order, its ids are free, and these devices do not share
  ids among themselves.  That a device in order (`WellFormed`) is one that
  `Device.Validate` lets through is `WellFormedIsValid`; its core is counting:
  there are as many keys as sensors if and only if no key is used twice.

- `ExpressionEvaluatorProofs`, for any set of formulas and any readings.  The
  invariant (`Computed`) says no more than that an answer is `Evaluate` of the
  formula and the readings; what remains is about the two functions, and is
  proved for all texts.
  1. *The functions exist.*  A recursive definition says nothing unless some
     function satisfies it; `NEquation` and `MEquation` prove that of the
     evaluator and of the grammar, since both only ask for shorter texts.  The
     library's induction takes an operator as its parameter, so induction on the
     length is stated for a set of texts (`TextInduction`).
  2. *Parentheses are levels.*  `Level(s, k)` is the number of parentheses open
     after k tokens.  The lemmas relate the levels of a text with those of its
     parts, so that the last operator outside parentheses counted from the right
     is the one counted from the left (`FindIsOutside`).
  3. *A call may be replaced by its value.*  `ReplacedAll`: a text whose
     parentheses match means the same when a call in it, with all that stands
     between its parentheses, gives way to its value; where the call has no
     value the text has none.  This is the step
     of `evaluateSqrt` and `evaluateAbs`, done to a text whose operators have
     not been looked at yet.
  4. *What is answered is right.*  `RightAll`: a text in which no operator is
     missing is answered only if each operator has both operands (`~Gap`) and
     the parentheses match, and then with its meaning if no powers are chained.
     The three must be proved together: that the parentheses match is known of
     the argument of a call only because the argument was answered.
  5. *What has a value is answered.*  `CompleteAll`, by the same induction, with
     the shapes of `FailsOnlyWhen` ruled out.
  6. *The values in the text.*  `SubstituteIsWith`: without negative values the
     text is the formula with a number for each variable.  `SubstituteShape`: a
     negative value in a formula that lacks no operator leaves a gap, so that by
     4 nothing is answered, rather than something wrong.

  `AlwaysRight` and `AlwaysAnswers` follow.  Writing the proof showed that the
  exception for chains of powers had to cover chains with parentheses between
  the powers (`x^(x/x)^2`).

Only model-checked: what needs fairness (`Recovers`, `CallReturns`,
`KeepsPolling`, `StopsAfterCancel`, `ComesBackOnline`, `StopHeard`,
`ComesThrough`), which is out of the prover's reach.

## 5. Not modelled

- `Close` of the gateway, `Clear` of the cache, the single-register strategy and
  `pkg/builder`: no call in the running program.  Of `pkg/services` only what
  the polling and heartbeat services record and publish of the gateway's health.
- `ExecuteAll`: called by `executeAllStrategies`, which nothing calls, and in a
  run with `--diagnostic` after `SendDiagnosticCommand`, which never succeeds
  (`HoldingRequestsOnly`).
- The forced republication (`main.go:818`): it asks `GetResult` for
  `energy_total`, `energy_imported` and `energy_exported`; the keys of the
  executor carry the key of a device in front, so nothing is found.
- The fields of a discovery message other than its topic, and the diagnostic
  messages: nothing reads them back.
- A publication that waits for its token for ever (`energy_topic.go:120`): the
  client completes a token when its connection ends; `PROJECT.json` lists it as
  a hazard without a property.
- CRC and float conversion: pure functions of bytes, covered by unit tests.
- `RecordError` of the device manager: only `executeAllStrategies` and
  `pkg/services` call it, which the program does not use.
- Finding and parsing the configuration file, and its names and units.
- Logging, metrics, error values and HTTP, the health page included: nothing
  reads back from them.

## 6. Plan

The breaker around the gateway under the scheduler: how long a slave that
recovered may stay unread.

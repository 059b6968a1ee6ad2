--------------------------- MODULE GroupScheduler ---------------------------
(***************************************************************************)
(* pkg/scheduler/group_scheduler.go, with the intervals that               *)
(* pkg/modbus/strategy_executor.go registers: one goroutine looks at every *)
(* tick which keys are due and runs those one after the other, in the      *)
(* order a Go map happens to give them.  A key is a register group or a    *)
(* calculated value.  What a run does is left open here: it takes some     *)
(* time, and succeeds or fails (see Polling).                              *)
(*                                                                         *)
(* Time is discrete.  The goroutine itself takes none: time passes while a *)
(* run is under way and while the loop waits.  executionMutex has this     *)
(* goroutine as its only user and is always free when asked for.           *)
(***************************************************************************)
EXTENDS Integers, FiniteSetsExt

CONSTANTS
  Groups,           \* configured register groups
  Enabled,          \* those that are registered
  Calcs,            \* calculated values
  Device,           \* the device each of them belongs to
  PollInterval,     \* poll_interval of each group
  DefaultInterval,  \* 1000 ms
  CheckDivisor,     \* 10
  LeastCheck,       \* 100 ms
  Execution,        \* bound: what executing each key takes at the most
  Publishing,       \* bound: what publishing its results takes at the most
  NoKey             \* nothing is running

Keys == Enabled \cup Calcs
Positive == Nat \ {0}

ASSUME SchedulerAssumption ==
  /\ IsFiniteSet(Groups) /\ IsFiniteSet(Calcs)
  /\ Enabled \subseteq Groups
  /\ Groups \cap Calcs = {}
  /\ NoKey \notin Groups \cup Calcs
  /\ PollInterval \in [Groups -> Positive]
  /\ DefaultInterval \in Positive
  /\ CheckDivisor \in Positive
  /\ LeastCheck \in Positive
  /\ Execution \in [Keys -> Nat]
  /\ Publishing \in Nat

VARIABLES
  sinceLast,   \* time since lastExecutions[k]; Never while there is none
  sinceStart,  \* history: time since k was really started last
  queue,       \* groupsToExecute that are still to come in this pass
  current,     \* the key executeGroup has in hand
  phase,       \* where the goroutine is
  nextTick,    \* time until the ticker fires
  ticked,      \* ticker.C, a channel with room for one tick
  cancelled    \* ctx is done

clock == <<nextTick, ticked>>
schedulerVars == <<sinceLast, sinceStart, queue, current, phase, clock, cancelled>>

Never == -1
Phases == {"waiting", "passing", "executing", "publishing", "stopped"}

-----------------------------------------------------------------------------
(* RegisterFromDevices: a calculated value gets the interval of the fastest *)
(* group of its device, enabled or not, and the default if all are slower.  *)
FastestInterval(d) ==
  Min({DefaultInterval} \cup {PollInterval[g] : g \in {h \in Groups : Device[h] = d}})

Interval ==
  [k \in Keys |-> IF k \in Calcs THEN FastestInterval(Device[k]) ELSE PollInterval[k]]

MutantMinCheckInterval ==
  IF Keys = {} THEN LeastCheck ELSE Min({Interval[k] : k \in Keys}) \div CheckDivisor

(* NewGroupScheduler *)
MinCheckInterval ==
  IF Keys = {} THEN LeastCheck
  ELSE Max({LeastCheck, Min({Interval[k] : k \in Keys}) \div CheckDivisor})

Init ==
  /\ sinceLast = [k \in Keys |-> Never]
  /\ sinceStart = Interval
  /\ queue = {}
  /\ current = NoKey
  /\ phase = "waiting"
  /\ nextTick = MinCheckInterval
  /\ ticked = FALSE
  /\ cancelled = FALSE

-----------------------------------------------------------------------------
Due(k) == sinceLast[k] = Never \/ sinceLast[k] >= Interval[k]

(* checkAndExecuteGroups: what is due is decided once for the whole pass.   *)
Check ==
  /\ phase = "waiting"
  /\ ticked
  /\ ticked' = FALSE
  /\ queue' = {k \in Keys : Due(k)}
  /\ phase' = IF queue' = {} THEN "waiting" ELSE "passing"
  /\ UNCHANGED <<sinceLast, sinceStart, current, nextTick, cancelled>>

(* executeGroup up to the call of ExecuteGroup *)
Begin(k) ==
  /\ phase = "passing"
  /\ k \in queue
  /\ queue' = queue \ {k}
  /\ current' = k
  /\ sinceStart' = [sinceStart EXCEPT ![k] = 0]
  /\ phase' = "executing"
  /\ UNCHANGED <<sinceLast, clock, cancelled>>

(* The pass goes on to its next key, or back to the loop.                   *)
GoOn ==
  /\ current' = NoKey
  /\ phase' = IF queue = {} THEN "waiting" ELSE "passing"

MutantExecuted(ok) ==
  /\ phase = "executing"
  /\ \/ /\ ok /\ phase' = "publishing" /\ UNCHANGED current
        /\ sinceLast' = [sinceLast EXCEPT ![current] = sinceStart[current]]
     \/ ~ok /\ GoOn /\ UNCHANGED sinceLast
  /\ UNCHANGED <<sinceStart, queue, clock, cancelled>>

(* lastExecutions[groupKey] = time.Now() after the run. *)
MutantLate(ok) ==
  /\ phase = "executing"
  /\ sinceLast' = [sinceLast EXCEPT ![current] = 0]
  /\ \/ ok /\ phase' = "publishing" /\ UNCHANGED current
     \/ ~ok /\ GoOn
  /\ UNCHANGED <<sinceStart, queue, clock, cancelled>>

MutantAbort(ok) ==
  /\ phase = "executing"
  /\ sinceLast' = [sinceLast EXCEPT ![current] = sinceStart[current]]
  /\ \/ ok /\ phase' = "publishing" /\ UNCHANGED current
     \/ ~ok /\ current' = NoKey /\ phase' = "stopped"
  /\ UNCHANGED <<sinceStart, queue, clock, cancelled>>

(* ExecuteGroup returns.  The start is what is remembered, after a failure  *)
(* too; only results are handed to the callback.                            *)
Executed(ok) ==
  /\ phase = "executing"
  /\ sinceLast' = [sinceLast EXCEPT ![current] = sinceStart[current]]
  /\ \/ ok /\ phase' = "publishing" /\ UNCHANGED current
     \/ ~ok /\ GoOn
  /\ UNCHANGED <<sinceStart, queue, clock, cancelled>>

(* The callback, publishGroupResults, returns. *)
Published ==
  /\ phase = "publishing"
  /\ GoOn
  /\ UNCHANGED <<sinceLast, sinceStart, queue, clock, cancelled>>

MutantStop ==
  /\ phase = "waiting"
  /\ cancelled
  /\ ~ticked
  /\ phase' = "stopped"
  /\ UNCHANGED <<sinceLast, sinceStart, queue, current, clock, cancelled>>

(* With a tick pending as well, select may prefer it.                       *)
Stop ==
  /\ phase = "waiting"
  /\ cancelled
  /\ phase' = "stopped"
  /\ UNCHANGED <<sinceLast, sinceStart, queue, current, clock, cancelled>>

Cancel ==
  /\ ~cancelled
  /\ cancelled' = TRUE
  /\ UNCHANGED <<sinceLast, sinceStart, queue, current, phase, clock>>

-----------------------------------------------------------------------------
MayTakeLonger ==
  \/ phase = "executing" /\ sinceStart[current] < Execution[current]
  \/ phase = "publishing" /\ sinceStart[current] < Execution[current] + Publishing
  \/ phase = "waiting" /\ ~ticked /\ ~cancelled

(* The ticker fires whether or not the loop listens; a tick that finds the  *)
(* channel full is dropped.                                                 *)
Tick ==
  /\ MayTakeLonger
  /\ sinceStart' = [k \in Keys |-> sinceStart[k] + 1]
  /\ sinceLast' = [k \in Keys |-> IF sinceLast[k] = Never THEN Never ELSE sinceLast[k] + 1]
  /\ nextTick' = IF nextTick = 1 THEN MinCheckInterval ELSE nextTick - 1
  /\ ticked' = (ticked \/ nextTick = 1)
  /\ UNCHANGED <<queue, current, phase, cancelled>>

Run == \E ok \in BOOLEAN : Executed(ok)

Next ==
  \/ Check
  \/ \E k \in Keys : Begin(k)
  \/ Run
  \/ Published
  \/ Stop
  \/ Cancel
  \/ Tick

Spec == Init /\ [][Next]_schedulerVars

(* Time passes, the goroutine gets on, and select chooses at random among   *)
(* the cases that are ready, so ctx.Done is taken if it is ready for ever.  *)
Fairness ==
  /\ WF_schedulerVars(Tick)
  /\ WF_schedulerVars(Check)
  /\ WF_schedulerVars(\E k \in Keys : Begin(k))
  /\ WF_schedulerVars(Run)
  /\ WF_schedulerVars(Published)
  /\ SF_schedulerVars(Stop)

FairSpec == Spec /\ Fairness

-----------------------------------------------------------------------------
(* Every variable keeps its range; a key is in hand exactly while it runs.  *)
TypeOK ==
  /\ sinceLast \in [Keys -> Nat \cup {Never}]
  /\ sinceStart \in [Keys -> Nat]
  /\ queue \in SUBSET Keys
  /\ current \in Keys \cup {NoKey}
  /\ phase \in Phases
  /\ nextTick \in 1..MinCheckInterval
  /\ ticked \in BOOLEAN
  /\ cancelled \in BOOLEAN
  /\ phase \in {"executing", "publishing"} <=> current # NoKey

(* "even if failed, to avoid retry storms" (group_scheduler.go:127): no key *)
(* is started again before its interval has passed, whether it failed or    *)
(* not and however long a pass goes on after it was decided.                *)
NoRetryStorm ==
  [][\A k \in Keys : Begin(k) => sinceStart[k] >= Interval[k]]_schedulerVars

(* What the runs of a set of keys take together, at the most.               *)
Busy(S) ==
  MapThenSumSet(LAMBDA k : Execution[k] + Publishing, S)

Others(k) == Busy(Keys \ {k})

(* How long ago a key was started when a pass is decided that it is in: it  *)
(* was not yet due at the check before, which then waited for the next tick *)
(* or for the pass that the check began; or that pass ran the key itself,   *)
(* and took longer than its interval.                                       *)
LongestWait(k) ==
  Max({Interval[k] - 1 + MinCheckInterval, Interval[k] - 1 + Others(k), Busy(Keys)})

(* The first check is one tick away.  In its pass a key may come last.      *)
Deadline ==
  [k \in Keys |-> Others(k) + Max({LongestWait(k), Interval[k] + MinCheckInterval})]

(* Every key is started at its own rate, and late by no more than the       *)
(* other keys and one check take: slow or failing keys delay, and starve    *)
(* none (docs/PER_GROUP_POLLING.md).                                        *)
Periodic == INSTANCE PeriodicPolling WITH since <- sinceStart
PollsPeriodically == Periodic!Spec

(* No failure ends the polling: until the context is done, every key is     *)
(* run again and again.                                                     *)
KeepsPolling ==
  \A k \in Keys : []<>(cancelled \/ (phase = "executing" /\ current = k))

(* Once the context is done the loop ends, though passes take longer than   *)
(* the ticker's period and a tick is pending whenever it looks.             *)
StopsAfterCancel == cancelled ~> phase = "stopped"

=============================================================================

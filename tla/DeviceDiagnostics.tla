-------------------------- MODULE DeviceDiagnostics -------------------------
(***************************************************************************)
(* pkg/diagnostics/device_manager.go and CalculateDeviceState: what Home   *)
(* Assistant is told of a device's health.  publishGroupResults (main.go)  *)
(* books each successful run of a register group or a calculated value as  *)
(* a successful read of the device whose key it cuts from a result's key;  *)
(* a loop computes the states and publishes those that changed or are due. *)
(* The running program never calls RecordError.                            *)
(*                                                                         *)
(* When keys are run is taken from PeriodicPolling, which GroupScheduler   *)
(* implements.  The scheduler runs one key after another, and time passes  *)
(* between the start of a run and the booking of its result.  Keys of      *)
(* devices, registers and calculated values are sequences of the parts     *)
(* that `_' separates.  The loop holds the mutex of the metrics over a     *)
(* whole pass: a pass is one step, and takes no time.                      *)
(***************************************************************************)
EXTENDS Integers, Sequences
LOCAL INSTANCE FiniteSetsExt

CONSTANTS
  Groups,          \* register groups of enabled devices
  Calcs,           \* calculated values
  Device,          \* the key of the device of each, a sequence of parts
  Sensors,         \* keys of the registers of a group, the key of a value
  Inputs,          \* groups and values the formula of a value refers to
  NoKey,           \* no key is being run
  Interval,        \* between two starts of a key
  Deadline,
  Duration,        \* bound: of a run of a key, until its result is booked
  TTL,             \* of the value cache
  OfflineTimeout,  \* diagnostics.thresholds
  ErrorRate,
  WarningRate,
  PublishInterval, \* diagnostics.intervals, by state
  LoopPeriod,      \* of the diagnostics loop (5 s)
  Lag,             \* bound: a value may rest on readings so much older
  SilentCap        \* bound: silences are told apart up to here

Keys    == Groups \cup Calcs
Devices == {Device[k] : k \in Keys}
States  == {"operational", "warning", "error", "offline"}
Never   == -1
Absent  == TTL + 1

(* The last part of the device's key is taken for the register's. *)
MutantBooked(k) ==
  {SubSeq(r, 1, 2) : r \in {q \in {Device[k] \o s : s \in Sensors[k]} : Len(q) >= 2}}

(* publishGroupResults: the first three parts of the first key it meets, in *)
(* the order of a map, that has as many.                                    *)
Booked(k) ==
  {SubSeq(r, 1, 3) : r \in {q \in {Device[k] \o s : s \in Sensors[k]} : Len(q) >= 3}}

Names == Devices \cup UNION {Booked(k) : k \in Keys}

ASSUME DiagnosticsAssumption ==
  /\ Groups \cap Calcs = {} /\ NoKey \notin Keys
  /\ \A k \in Keys : Device[k] \in Seq(STRING) /\ Sensors[k] \subseteq Seq(STRING)
  /\ Inputs \in [Calcs -> (SUBSET Keys) \ {{}}]
  /\ \A c \in Calcs : \A i \in Inputs[c] : Device[i] = Device[c]
  /\ Interval \in [Keys -> Nat] /\ Deadline \in [Keys -> Nat]
  /\ Duration \in [Keys -> Nat]
  /\ \A k \in Keys : 0 < Interval[k] /\ Interval[k] <= Deadline[k]
  /\ TTL \in Nat /\ OfflineTimeout \in Nat \ {0}
  /\ ErrorRate \in 1..100 /\ WarningRate \in 1..100
  /\ PublishInterval \in [States -> Nat]
  /\ LoopPeriod \in Nat \ {0}
  /\ Lag \in [Keys -> Nat]
  /\ \A c \in Calcs : \A i \in Inputs[c] : Lag[i] + TTL <= Lag[c]
  /\ SilentCap \in Nat

VARIABLES
  sinceRun,      \* time since a run of each key was started
  running,       \* the key that is being run, or NoKey
  cacheAge,      \* time since a key's values were stored; Absent if they expired
  known,         \* the names in the map metrics
  sinceSuccess,  \* time since LastSuccessTime; Never while TotalReads is 0
  lastState,     \* by name; "" if there is none
  sincePublish,  \* time since lastPublish
  nextPass,      \* time until the loop's ticker fires
  silentFor,     \* history: time since each device answered a read
  failing,       \* history: devices of which a read failed since
  sent,          \* history: the state that was last published, by name
  lost           \* history: names whose publication failed in the last pass

readings == <<cacheAge, known, sinceSuccess, silentFor, failing>>
display  == <<lastState, sincePublish, sent, lost>>
vars     == <<sinceRun, running, readings, display, nextPass>>

Polls == INSTANCE PeriodicPolling WITH since <- sinceRun

LongestInterval == Max({PublishInterval[s] : s \in States} \cup {0})

(* Counting on after Tick, up to a bound above which nothing differs.       *)
UpTo(bound, n) == IF n < bound THEN n + 1 ELSE n

-----------------------------------------------------------------------------
Init ==
  /\ Polls!Init
  /\ running = NoKey
  /\ cacheAge = [k \in Keys |-> Absent]
  /\ known = Devices
  /\ sinceSuccess = [n \in Names |-> Never]
  /\ lastState = [n \in Names |-> ""]
  /\ sincePublish = [n \in Names |-> LongestInterval + LoopPeriod]
  /\ nextPass = 2 * LoopPeriod
  /\ silentFor = [d \in Devices |-> SilentCap]
  /\ failing = {}
  /\ sent = [n \in Names |-> ""]
  /\ lost = {}

-----------------------------------------------------------------------------
(* The runs of the scheduler, with what they store and what is booked.      *)

Begin(k) ==
  /\ running = NoKey
  /\ running' = k
  /\ Polls!Start(k)
  /\ UNCHANGED <<readings, display, nextPass>>

End(k) ==
  /\ running = k
  /\ running' = NoKey
  /\ UNCHANGED <<sinceRun, display, nextPass>>

(* A metric made for a new name is not put into the map. *)
MutantRecordSuccess(n) ==
  /\ sinceSuccess' = [sinceSuccess EXCEPT ![n] = 0]
  /\ UNCHANGED known

(* LastSuccessTime is set once. *)
MutantRecordOnce(n) ==
  /\ known' = known \cup {n}
  /\ sinceSuccess' = [sinceSuccess EXCEPT ![n] = IF @ = Never THEN 0 ELSE @]

RecordSuccess(n) ==
  /\ known' = known \cup {n}
  /\ sinceSuccess' = [sinceSuccess EXCEPT ![n] = 0]

PublishResults(k) ==
  IF Booked(k) = {}
  THEN UNCHANGED <<known, sinceSuccess>>
  ELSE \E n \in Booked(k) : RecordSuccess(n)

MutantFound(k) == TRUE

Found(k) == cacheAge[k] <= TTL

RunSucceeds(k) ==
  /\ End(k)
  /\ cacheAge' = [cacheAge EXCEPT ![k] = 0]
  /\ PublishResults(k)

(* A run that fails leaves nothing behind.                                  *)
RunFails(k) ==
  /\ End(k)
  /\ UNCHANGED <<cacheAge, known, sinceSuccess>>

ReadGroup(g) ==
  \/ /\ RunSucceeds(g)
     /\ silentFor' = [silentFor EXCEPT ![Device[g]] = 0]
     /\ failing' = failing \ {Device[g]}
  \/ /\ RunFails(g)
     /\ failing' = failing \cup {Device[g]}
     /\ UNCHANGED silentFor

(* A formula has a variable (ValidateFormula), and may fail on the values.   *)
Calculate(c) ==
  /\ \/ (\A i \in Inputs[c] : Found(i)) /\ RunSucceeds(c)
     \/ RunFails(c)
  /\ UNCHANGED <<silentFor, failing>>

-----------------------------------------------------------------------------
(* All reads that are recorded succeeded, and ConsecutiveErrors stays 0.    *)
SuccessRate(n) == IF sinceSuccess[n] = Never THEN 0 ELSE 100

CalculateDeviceState(n) ==
  CASE sinceSuccess[n] > OfflineTimeout -> "offline"
    [] sinceSuccess[n] <= OfflineTimeout /\ SuccessRate(n) < ErrorRate -> "error"
    [] sinceSuccess[n] <= OfflineTimeout /\ SuccessRate(n) >= ErrorRate
         /\ SuccessRate(n) < WarningRate -> "warning"
    [] OTHER -> "operational"

MutantShouldPublish(n) ==
  \/ CalculateDeviceState(n) # lastState[n]
  \/ sincePublish[n] > PublishInterval[CalculateDeviceState(n)]

ShouldPublish(n) ==
  \/ CalculateDeviceState(n) # lastState[n]
  \/ sincePublish[n] >= PublishInterval[CalculateDeviceState(n)]

Shown(old, names) ==
  [n \in Names |-> IF n \in names THEN CalculateDeviceState(n) ELSE old[n]]

(* What is published is remembered whether that succeeded or not. *)
MutantPublishDiagnostics ==
  /\ nextPass = 0
  /\ nextPass' = LoopPeriod
  /\ LET tried == {n \in known : ShouldPublish(n)}
     IN  \E failed \in SUBSET tried :
           /\ lastState' = Shown(lastState, tried)
           /\ sent' = Shown(sent, tried \ failed)
           /\ sincePublish' = [n \in Names |-> IF n \in tried THEN 0 ELSE sincePublish[n]]
           /\ lost' = failed
  /\ UNCHANGED <<sinceRun, running, readings>>

(* Only what was published is remembered.                                   *)
PublishDiagnostics ==
  /\ nextPass = 0
  /\ nextPass' = LoopPeriod
  /\ LET tried == {n \in known : ShouldPublish(n)}
     IN  \E failed \in SUBSET tried :
           /\ lastState' = Shown(lastState, tried \ failed)
           /\ sent' = Shown(sent, tried \ failed)
           /\ sincePublish' = [n \in Names |-> IF n \in tried \ failed THEN 0
                                               ELSE sincePublish[n]]
           /\ lost' = failed
  /\ UNCHANGED <<sinceRun, running, readings>>

Tick ==
  /\ Polls!Advance
  /\ running # NoKey => sinceRun[running] < Duration[running]
  /\ nextPass > 0
  /\ nextPass' = nextPass - 1
  /\ cacheAge' = [k \in Keys |-> UpTo(Absent, cacheAge[k])]
  /\ sinceSuccess' = [n \in Names |-> IF sinceSuccess[n] = Never THEN Never
                                      ELSE UpTo(OfflineTimeout + 1, sinceSuccess[n])]
  /\ sincePublish' = [n \in Names |-> UpTo(LongestInterval + LoopPeriod, sincePublish[n])]
  /\ silentFor' = [d \in Devices |-> UpTo(SilentCap, silentFor[d])]
  /\ UNCHANGED <<running, known, failing, lastState, sent, lost>>

Next ==
  \/ \E k \in Keys : Begin(k)
  \/ \E g \in Groups : ReadGroup(g)
  \/ \E c \in Calcs : Calculate(c)
  \/ PublishDiagnostics
  \/ Tick

Spec == Init /\ [][Next]_vars

-----------------------------------------------------------------------------
(* Every variable keeps its range; what was read is in the map.             *)
TypeOK ==
  /\ sinceRun \in [Keys -> Nat] /\ running \in Keys \cup {NoKey}
  /\ cacheAge \in [Keys -> 0..Absent]
  /\ known \in SUBSET Names
  /\ sinceSuccess \in [Names -> {Never} \cup 0..(OfflineTimeout + 1)]
  /\ \A n \in Names : sinceSuccess[n] # Never => n \in known
  /\ lastState \in [Names -> States \cup {""}]
  /\ sincePublish \in [Names -> Nat]
  /\ nextPass \in 0..(2 * LoopPeriod)
  /\ silentFor \in [Devices -> Nat]
  /\ failing \in SUBSET Devices
  /\ sent \in [Names -> States \cup {""}]
  /\ lost \in SUBSET Names

(* A device that stopped answering is not operational for ever, though      *)
(* values calculated from the cache count as reads of it: it may be for the *)
(* offline timeout and one lifetime of the cache for every formula that     *)
(* builds on another.                                                       *)
SilentDeviceNoticed ==
  \A d \in Devices :
    CalculateDeviceState(d) = "operational" =>
      \E k \in Keys : Device[k] = d /\ silentFor[d] <= OfflineTimeout + Lag[k]

(* A device is offline only if a read of it failed since it last answered,  *)
(* or if for none of its groups the offline timeout has room for the time   *)
(* between two starts and for a run: a slow run or a late start is no       *)
(* reason.                                                                  *)
NoFalseAlarm ==
  \A d \in Devices :
    CalculateDeviceState(d) = "offline" =>
      \/ d \in failing
      \/ \A g \in Groups : Device[g] = d => Deadline[g] + Duration[g] > OfflineTimeout

(* A pass leaves no state unpublished but those whose publication fails in  *)
(* it: one that failed is tried again, and a change back is published too.  *)
ChangeGetsThrough ==
  [][PublishDiagnostics =>
       \A n \in known : n \in lost' \/ sent'[n] = CalculateDeviceState(n)]_vars

(* As long as publications succeed each state is sent again within its      *)
(* interval and less than one period of the loop.                           *)
RepublishedInTime ==
  \A n \in known :
    n \in lost \/ sent[n] = "" \/ sincePublish[n] < PublishInterval[sent[n]] + LoopPeriod

(* A device that has answered is not shown in error, whatever the order of  *)
(* its groups, values and passes: a read of it is booked under its own      *)
(* name.  A device whose key has not three parts is, for good: its reads    *)
(* are booked under another name.                                           *)
ErrorMeansUnheard ==
  \A d \in Devices :
    CalculateDeviceState(d) = "error" => silentFor[d] = SilentCap \/ Len(d) # 3

=============================================================================

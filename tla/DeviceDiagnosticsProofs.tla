----------------------- MODULE DeviceDiagnosticsProofs ----------------------
(***************************************************************************)
(* Theorems about DeviceDiagnostics, for any devices whose keys have three *)
(* parts and any intervals, lifetimes and thresholds.                      *)
(***************************************************************************)
EXTENDS DeviceDiagnostics, SequenceTheorems, TLAPS
LOCAL INSTANCE FiniteSetsExt

(* The form of device key that publishGroupResults is written for.         *)
WellNamed == \A k \in Keys : Len(Device[k]) = 3 /\ Sensors[k] # {}

(* What a stored value rests on, and what a booked success rests on, was   *)
(* read no longer ago than the age of the value or the booking and the lag *)
(* of the key.                                                             *)
StoredRestsOnRead ==
  \A k \in Keys :
    cacheAge[k] = Absent \/ silentFor[Device[k]] <= cacheAge[k] + Lag[k]

BookedRestsOnRead ==
  \A d \in Devices :
    \/ sinceSuccess[d] = Never
    \/ sinceSuccess[d] > OfflineTimeout
    \/ \E k \in Keys : Device[k] = d /\ silentFor[d] <= sinceSuccess[d] + Lag[k]

(* While no read fails, each run of a group is a success booked; the one   *)
(* that goes on may have been started up to the deadline after the last.   *)
SinceStart(g) == IF running = g THEN Deadline[g] + sinceRun[g] ELSE sinceRun[g]

RunsAreBooked ==
  \A d \in Devices :
    \/ d \in failing
    \/ sinceSuccess[d] = Never
    \/ \A g \in Groups : Device[g] = d => sinceSuccess[d] <= SinceStart(g)

InDeadline == \A k \in Keys : sinceRun[k] <= Deadline[k]
RunInTime  == running # NoKey => sinceRun[running] <= Duration[running]

IInv ==
  /\ TypeOK
  /\ StoredRestsOnRead
  /\ BookedRestsOnRead
  /\ RunsAreBooked
  /\ InDeadline
  /\ RunInTime

-----------------------------------------------------------------------------
LEMMA LongestIntervalType == LongestInterval \in Nat
<1> DEFINE a == PublishInterval["operational"]
           b == PublishInterval["warning"]
           c == PublishInterval["error"]
           d == PublishInterval["offline"]
           S == {a, b, c, d, 0}
           Higher(x, y) == IF x >= y THEN x ELSE y
           h == Higher(Higher(a, b), Higher(c, d))
<1>1. a \in Nat /\ b \in Nat /\ c \in Nat /\ d \in Nat
  BY DiagnosticsAssumption DEF States
<1>2. {PublishInterval[s] : s \in States} \cup {0} = S
  BY DEF States
<1>3. h \in S /\ \A y \in S : h >= y
  BY <1>1
<1>4. S \subseteq Nat
  BY <1>1
<1> HIDE DEF S, h
<1>5. (CHOOSE x \in S : \A y \in S : x >= y) \in S
  BY <1>3
<1> QED
  BY <1>2, <1>4, <1>5 DEF LongestInterval, Max

(* With three parts the device is found whatever the register is called.   *)
LEMMA BookedOwn ==
  ASSUME WellNamed, NEW k \in Keys
  PROVE  Booked(k) = {Device[k]}
<1>1. Device[k] \in Seq(STRING) /\ Len(Device[k]) = 3 /\ Sensors[k] \subseteq Seq(STRING)
  BY DiagnosticsAssumption DEF WellNamed
<1>2. ASSUME NEW s \in Sensors[k]
      PROVE  Len(Device[k] \o s) >= 3 /\ SubSeq(Device[k] \o s, 1, 3) = Device[k]
  <2> DEFINE q == Device[k] \o s
  <2>1. q \in Seq(STRING) /\ Len(q) >= 3 /\ \A i \in 1..3 : q[i] = Device[k][i]
    BY <1>1
  <2> HIDE DEF q
  <2>2. SubSeq(q, 1, 3) \in Seq(STRING) /\ Len(SubSeq(q, 1, 3)) = 3
    BY <2>1
  <2>3. ASSUME NEW i \in 1..3 PROVE SubSeq(q, 1, 3)[i] = Device[k][i]
    <3>1. SubSeq(q, 1, 3)[i] = q[i]
      BY <2>1
    <3> QED
      BY <2>1, <3>1
  <2>4. SubSeq(q, 1, 3) = Device[k]
    BY <1>1, <2>2, <2>3, SeqEqual
  <2> QED
    BY <2>1, <2>4 DEF q
<1> QED
  BY <1>2 DEF WellNamed, Booked

LEMMA DeviceNames == ASSUME NEW k \in Keys PROVE Device[k] \in Devices /\ Device[k] \in Names
BY DEF Devices, Names

LEMMA ConstantTypes ==
  /\ TTL \in Nat /\ OfflineTimeout \in Nat /\ LoopPeriod \in Nat /\ SilentCap \in Nat
  /\ Interval \in [Keys -> Nat] /\ Deadline \in [Keys -> Nat] /\ Lag \in [Keys -> Nat]
  /\ Duration \in [Keys -> Nat] /\ NoKey \notin Keys
  /\ \A k \in Keys : Interval[k] <= Deadline[k]
BY DiagnosticsAssumption

LEMMA ZeroInRange == 0 \in 0..Absent /\ 0 \in 0..(OfflineTimeout + 1)
BY ConstantTypes DEF Absent

LEMMA VariableTypes ==
  ASSUME TypeOK
  PROVE  /\ sinceRun \in [Keys -> Nat]
         /\ cacheAge \in [Keys -> Int] /\ \A k \in Keys : cacheAge[k] \in 0..Absent
         /\ sinceSuccess \in [Names -> Int]
         /\ silentFor \in [Devices -> Nat]
<1>1. sinceRun \in [Keys -> Nat] /\ silentFor \in [Devices -> Nat]
  BY DEF TypeOK
<1>2. cacheAge \in [Keys -> 0..Absent]
  BY DEF TypeOK
<1>3. sinceSuccess \in [Names -> {Never} \cup 0..(OfflineTimeout + 1)]
  BY DEF TypeOK
<1>4. 0..Absent \subseteq Int /\ {Never} \cup 0..(OfflineTimeout + 1) \subseteq Int
  BY DEF Never
<1> QED
  BY <1>1, <1>2, <1>3, <1>4

LEMMA InitIInv == Init => IInv
<1> SUFFICES ASSUME Init PROVE IInv
  OBVIOUS
<1>1. Interval \in [Keys -> Nat] /\ sinceRun = Interval
  BY ConstantTypes DEF Init, Polls!Init
<1>2. sincePublish \in [Names -> Nat]
  <2>1. LongestInterval + LoopPeriod \in Nat
    BY LongestIntervalType, ConstantTypes
  <2> QED
    BY <2>1 DEF Init
<1>3. Devices \subseteq Names
  BY DEF Names
<1>4. TypeOK
  <2>1. cacheAge \in [Keys -> 0..Absent]
    <3>1. Absent \in 0..Absent
      BY ConstantTypes DEF Absent
    <3> QED
      BY <3>1 DEF Init
  <2>2. nextPass \in 0..(2 * LoopPeriod)
    <3>1. LoopPeriod \in Nat /\ nextPass = 2 * LoopPeriod
      BY ConstantTypes DEF Init
    <3> QED
      BY <3>1
  <2>3. sinceSuccess \in [Names -> {Never} \cup 0..(OfflineTimeout + 1)]
    BY DEF Init
  <2>4. \A n \in Names : sinceSuccess[n] = Never
    BY DEF Init
  <2>5. silentFor \in [Devices -> Nat]
    BY ConstantTypes DEF Init
  <2>6. lastState \in [Names -> States \cup {""}] /\ sent \in [Names -> States \cup {""}]
    BY DEF Init
  <2>7. known = Devices /\ failing = {} /\ lost = {} /\ running = NoKey
    BY DEF Init
  <2> QED
    BY <1>1, <1>2, <1>3, <2>1, <2>2, <2>3, <2>4, <2>5, <2>6, <2>7 DEF TypeOK
<1>5. StoredRestsOnRead /\ BookedRestsOnRead /\ RunsAreBooked /\ RunInTime
  BY <1>3 DEF Init, RunInTime, StoredRestsOnRead, BookedRestsOnRead, RunsAreBooked
<1>6. InDeadline
  BY <1>1, ConstantTypes DEF InDeadline
<1> QED
  BY <1>4, <1>5, <1>6 DEF IInv

-----------------------------------------------------------------------------
(* The start of a run, which is never later than the deadline.             *)
LEMMA BeginIInv == ASSUME IInv, NEW k \in Keys, Begin(k) PROVE IInv'
<1>1. /\ sinceRun' = [sinceRun EXCEPT ![k] = 0]
      /\ running = NoKey /\ running' = k
      /\ UNCHANGED <<readings, display, nextPass>>
  BY DEF Begin, Polls!Start
<1>2. sinceRun \in [Keys -> Nat] /\ sinceRun' \in [Keys -> Nat] /\ sinceRun'[k] = 0
  BY <1>1 DEF IInv, TypeOK
<1>3. TypeOK'
  BY <1>1, <1>2 DEF IInv, TypeOK, readings, display
<1>4. StoredRestsOnRead' /\ BookedRestsOnRead'
  BY <1>1 DEF IInv, StoredRestsOnRead, BookedRestsOnRead, readings
<1>5. InDeadline'
  <2> SUFFICES ASSUME NEW j \in Keys PROVE sinceRun'[j] <= Deadline[j]
    BY DEF InDeadline
  <2>1. sinceRun'[j] = IF j = k THEN 0 ELSE sinceRun[j]
    BY <1>1, <1>2
  <2>2. 0 <= Deadline[j] /\ sinceRun[j] <= Deadline[j]
    BY ConstantTypes DEF IInv, InDeadline
  <2> QED
    BY <2>1, <2>2
<1>6. RunInTime'
  BY <1>1, <1>2, ConstantTypes DEF RunInTime
<1>7. RunsAreBooked'
  <2> SUFFICES ASSUME NEW d \in Devices, d \notin failing, sinceSuccess[d] # Never,
                      NEW g \in Groups, Device[g] = d
               PROVE  sinceSuccess[d] <= SinceStart(g)'
    BY <1>1 DEF RunsAreBooked, readings
  <2>1. g \in Keys /\ running # g
    BY <1>1, ConstantTypes DEF Keys
  <2>2. sinceSuccess[d] <= sinceRun[g]
    BY <2>1 DEF IInv, RunsAreBooked, SinceStart
  <2>3. CASE g = k
    <3>1. SinceStart(g)' = Deadline[g] + 0
      BY <2>3, <1>1, <1>2 DEF SinceStart
    <3>2. sinceRun[g] <= Deadline[g]
      BY <2>1 DEF IInv, InDeadline
    <3>3. sinceSuccess[d] \in Int /\ sinceRun[g] \in Nat /\ Deadline[g] \in Nat
      BY <2>1, VariableTypes, ConstantTypes DEF IInv, Names
    <3> QED
      BY <2>2, <3>1, <3>2, <3>3
  <2>4. CASE g # k
    BY <1>1, <1>2, <2>1, <2>2, <2>4 DEF SinceStart
  <2> QED
    BY <2>3, <2>4
<1> QED
  BY <1>3, <1>4, <1>5, <1>6, <1>7 DEF IInv

(* What an end and a booking change.                                       *)
LEMMA EndEffect ==
  ASSUME IInv, NEW k \in Keys, End(k)
  PROVE  /\ running = k /\ running' = NoKey
         /\ UNCHANGED <<sinceRun, display, nextPass>>
         /\ InDeadline' /\ RunInTime'
         /\ \A g \in Groups : g # k => SinceStart(g)' = SinceStart(g)
<1>1. running = k /\ running' = NoKey /\ UNCHANGED <<sinceRun, display, nextPass>>
  BY DEF End
<1>2. InDeadline' /\ RunInTime'
  BY <1>1 DEF IInv, InDeadline, RunInTime
<1>3. ASSUME NEW g \in Groups, g # k PROVE SinceStart(g)' = SinceStart(g)
  BY <1>1, <1>3, ConstantTypes DEF SinceStart, Keys
<1> QED
  BY <1>1, <1>2, <1>3

LEMMA BookingEffect ==
  ASSUME WellNamed, NEW k \in Keys, PublishResults(k)
  PROVE  /\ known' = known \cup {Device[k]}
         /\ sinceSuccess' = [sinceSuccess EXCEPT ![Device[k]] = 0]
BY BookedOwn DEF PublishResults, RecordSuccess

(* A run that succeeds and rests on readings of its device no older than   *)
(* its lag keeps the invariant, be it a group or a calculated value.       *)
LEMMA SuccessIInv ==
  ASSUME WellNamed, IInv, NEW k \in Keys, RunSucceeds(k),
         silentFor' \in [Devices -> Nat],
         \A d \in Devices : silentFor'[d] <= silentFor[d],
         silentFor'[Device[k]] <= Lag[k],
         failing' \in SUBSET Devices,
         failing \ {Device[k]} \subseteq failing'
  PROVE  IInv'
<1> USE ConstantTypes DEF IInv
<1>a. Device[k] \in Devices /\ Device[k] \in Names
  BY DeviceNames
<1>b. /\ known' = known \cup {Device[k]}
      /\ sinceSuccess' = [sinceSuccess EXCEPT ![Device[k]] = 0]
      /\ cacheAge' = [cacheAge EXCEPT ![k] = 0]
  BY BookingEffect DEF RunSucceeds
<1>c. /\ running' = NoKey /\ UNCHANGED <<sinceRun, display, nextPass>>
      /\ InDeadline' /\ RunInTime'
      /\ \A g \in Groups : g # k => SinceStart(g)' = SinceStart(g)
  BY EndEffect DEF RunSucceeds
<1>d. /\ sinceRun \in [Keys -> Nat]
      /\ cacheAge \in [Keys -> Int] /\ \A j \in Keys : cacheAge[j] \in 0..Absent
      /\ sinceSuccess \in [Names -> Int]
      /\ silentFor \in [Devices -> Nat]
  BY VariableTypes
<1>1. TypeOK'
  <2>1. cacheAge' \in [Keys -> 0..Absent]
    <3>1. cacheAge \in [Keys -> 0..Absent]
      BY DEF TypeOK
    <3> QED
      BY <3>1, <1>b, ZeroInRange
  <2>2. sinceSuccess' \in [Names -> {Never} \cup 0..(OfflineTimeout + 1)]
    <3>1. sinceSuccess \in [Names -> {Never} \cup 0..(OfflineTimeout + 1)]
      BY DEF TypeOK
    <3> QED
      BY <3>1, <1>b, ZeroInRange
  <2>3. \A n \in Names : sinceSuccess'[n] # Never => n \in known'
    BY <1>a, <1>b, <1>d DEF TypeOK
  <2>4. known' \in SUBSET Names
    BY <1>a, <1>b DEF TypeOK
  <2> QED
    BY <2>1, <2>2, <2>3, <2>4, <1>b, <1>c DEF TypeOK, display, Absent, Never
<1>2. StoredRestsOnRead'
  <2> SUFFICES ASSUME NEW j \in Keys
               PROVE  cacheAge'[j] = Absent \/ silentFor'[Device[j]] <= cacheAge'[j] + Lag[j]
    BY DEF StoredRestsOnRead, Absent
  <2>1. CASE j = k
    BY <2>1, <1>b, <1>d
  <2>2. CASE j # k
    <3>1. cacheAge'[j] = cacheAge[j] /\ cacheAge[j] \in 0..Absent
      BY <2>2, <1>b, <1>d
    <3>2. Device[j] \in Devices
      BY DeviceNames
    <3>3. silentFor'[Device[j]] <= silentFor[Device[j]]
          /\ silentFor'[Device[j]] \in Nat /\ silentFor[Device[j]] \in Nat
      BY <3>2, <1>d
    <3> QED
      BY <3>1, <3>3, <1>d DEF StoredRestsOnRead, Absent
  <2> QED
    BY <2>1, <2>2
<1>3. BookedRestsOnRead'
  <2> SUFFICES ASSUME NEW d \in Devices
               PROVE  \/ sinceSuccess'[d] = Never
                      \/ sinceSuccess'[d] > OfflineTimeout
                      \/ \E j \in Keys : Device[j] = d /\ silentFor'[d] <= sinceSuccess'[d] + Lag[j]
    BY DEF BookedRestsOnRead, Never
  <2>0. d \in Names
    BY DEF Names
  <2>1. CASE d = Device[k]
    <3>1. sinceSuccess'[d] = 0 /\ silentFor'[d] <= 0 + Lag[k]
      BY <2>0, <2>1, <1>b, <1>d
    <3> QED
      BY <2>1, <3>1
  <2>2. CASE d # Device[k]
    <3>1. sinceSuccess'[d] = sinceSuccess[d] /\ sinceSuccess[d] \in Int
      BY <2>0, <2>2, <1>b, <1>d
    <3>2. silentFor'[d] <= silentFor[d] /\ silentFor'[d] \in Nat /\ silentFor[d] \in Nat
      BY <1>d
    <3> QED
      BY <3>1, <3>2, <1>d DEF BookedRestsOnRead
  <2> QED
    BY <2>1, <2>2
<1>4. RunsAreBooked'
  <2> SUFFICES ASSUME NEW d \in Devices, d \notin failing', sinceSuccess'[d] # Never,
                      NEW g \in Groups, Device[g] = d
               PROVE  sinceSuccess'[d] <= SinceStart(g)'
    BY DEF RunsAreBooked, Never
  <2>0. d \in Names /\ g \in Keys
    BY DEF Names, Keys
  <2>1. CASE d = Device[k]
    <3>1. sinceSuccess'[d] = 0
      BY <2>0, <2>1, <1>b, <1>d
    <3>2. SinceStart(g)' = sinceRun[g] /\ sinceRun[g] \in Nat
      BY <2>0, <1>c, <1>d DEF SinceStart
    <3> QED
      BY <3>1, <3>2
  <2>2. CASE d # Device[k]
    <3>1. d \notin failing /\ sinceSuccess'[d] = sinceSuccess[d]
      BY <2>0, <2>2, <1>b, <1>d
    <3>2. sinceSuccess[d] <= SinceStart(g)
      BY <3>1 DEF RunsAreBooked
    <3>3. g # k
      BY <2>2
    <3> QED
      BY <3>1, <3>2, <3>3, <1>c
  <2> QED
    BY <2>1, <2>2
<1> QED
  BY <1>1, <1>2, <1>3, <1>4, <1>c

(* A run that fails books nothing.  If it was a group's, its device fails. *)
LEMMA FailureIInv ==
  ASSUME IInv, NEW k \in Keys, RunFails(k), UNCHANGED silentFor,
         failing' \in SUBSET Devices,
         failing \subseteq failing',
         k \in Groups => Device[k] \in failing'
  PROVE  IInv'
<1>1. /\ running' = NoKey /\ UNCHANGED <<sinceRun, display, nextPass>>
      /\ InDeadline' /\ RunInTime'
      /\ \A g \in Groups : g # k => SinceStart(g)' = SinceStart(g)
  BY EndEffect DEF RunFails
<1>2. UNCHANGED <<cacheAge, known, sinceSuccess, silentFor>>
  BY DEF RunFails
<1>3. TypeOK'
  BY <1>1, <1>2 DEF IInv, TypeOK, display
<1>4. StoredRestsOnRead' /\ BookedRestsOnRead'
  BY <1>2 DEF IInv, StoredRestsOnRead, BookedRestsOnRead
<1>5. RunsAreBooked'
  <2> SUFFICES ASSUME NEW d \in Devices, d \notin failing', sinceSuccess[d] # Never,
                      NEW g \in Groups, Device[g] = d
               PROVE  sinceSuccess[d] <= SinceStart(g)'
    BY <1>2 DEF RunsAreBooked
  <2>1. d \notin failing /\ g # k
    OBVIOUS
  <2>2. sinceSuccess[d] <= SinceStart(g)
    BY <2>1 DEF IInv, RunsAreBooked
  <2> QED
    BY <1>1, <2>1, <2>2
<1> QED
  BY <1>1, <1>3, <1>4, <1>5 DEF IInv

LEMMA ReadGroupIInv == ASSUME WellNamed, IInv, NEW g \in Groups, ReadGroup(g) PROVE IInv'
<1>0. g \in Keys /\ Device[g] \in Devices /\ failing \in SUBSET Devices
  BY DeviceNames DEF Keys, IInv, TypeOK
<1>1. CASE RunFails(g) /\ failing' = failing \cup {Device[g]} /\ UNCHANGED silentFor
  <2>1. failing' \in SUBSET Devices /\ failing \subseteq failing' /\ Device[g] \in failing'
    BY <1>0, <1>1
  <2> QED
    BY <1>0, <1>1, <2>1, FailureIInv
<1>2. CASE /\ RunSucceeds(g)
           /\ silentFor' = [silentFor EXCEPT ![Device[g]] = 0]
           /\ failing' = failing \ {Device[g]}
  <2>1. silentFor \in [Devices -> Nat]
    BY DEF IInv, TypeOK
  <2>2. silentFor' \in [Devices -> Nat] /\ \A d \in Devices : silentFor'[d] <= silentFor[d]
    <3>1. /\ silentFor' \in [Devices -> Nat]
          /\ \A d \in Devices : silentFor'[d] = IF d = Device[g] THEN 0 ELSE silentFor[d]
      BY <1>2, <2>1
    <3>2. \A d \in Devices : silentFor[d] \in Nat
      BY <2>1
    <3> QED
      BY <3>1, <3>2
  <2>3. silentFor'[Device[g]] <= Lag[g]
    <3>1. silentFor'[Device[g]] = 0 /\ Lag[g] \in Nat
      BY <1>0, <1>2, <2>1, ConstantTypes
    <3> QED
      BY <3>1
  <2>4. failing' \in SUBSET Devices /\ failing \ {Device[g]} \subseteq failing'
    BY <1>0, <1>2
  <2> QED
    BY <1>0, <1>2, <2>2, <2>3, <2>4, SuccessIInv
<1> QED
  BY <1>1, <1>2 DEF ReadGroup

(* A value that was found in the cache rests on what is at most one        *)
(* lifetime older than what its input rests on.                            *)
LEMMA CalculateIInv == ASSUME WellNamed, IInv, NEW c \in Calcs, Calculate(c) PROVE IInv'
<1>0. c \in Keys /\ c \notin Groups /\ Device[c] \in Devices /\ failing \in SUBSET Devices
  BY DeviceNames, DiagnosticsAssumption DEF Keys, IInv, TypeOK
<1>1. CASE RunFails(c)
  BY <1>0, <1>1, FailureIInv DEF Calculate
<1>3. CASE RunSucceeds(c) /\ \A i \in Inputs[c] : Found(i)
  <2>1. UNCHANGED <<silentFor, failing>> /\ silentFor \in [Devices -> Nat]
    BY DEF Calculate, IInv, TypeOK
  <2>2. silentFor' \in [Devices -> Nat] /\ \A d \in Devices : silentFor'[d] <= silentFor[d]
    BY <2>1
  <2>3. PICK i \in Inputs[c] : i \in Keys /\ Device[i] = Device[c] /\ Lag[i] + TTL <= Lag[c]
    <3>1. Inputs[c] \in (SUBSET Keys) \ {{}}
      BY DiagnosticsAssumption
    <3>2. \A i \in Inputs[c] : Device[i] = Device[c] /\ Lag[i] + TTL <= Lag[c]
      BY DiagnosticsAssumption
    <3> QED
      BY <3>1, <3>2
  <2>4. cacheAge[i] <= TTL
    BY <1>3 DEF Found
  <2>5. cacheAge[i] # Absent /\ cacheAge[i] \in Int
    BY <2>3, <2>4, VariableTypes, ConstantTypes DEF IInv, Absent
  <2>6. silentFor[Device[c]] <= cacheAge[i] + Lag[i]
    BY <2>3, <2>5 DEF IInv, StoredRestsOnRead
  <2>7. Lag[i] \in Nat /\ Lag[c] \in Nat /\ TTL \in Nat /\ silentFor[Device[c]] \in Nat
    BY <1>0, <2>1, <2>3, ConstantTypes
  <2>8. silentFor'[Device[c]] <= Lag[c]
    BY <2>1, <2>3, <2>4, <2>5, <2>6, <2>7
  <2>9. failing' \in SUBSET Devices /\ failing \ {Device[c]} \subseteq failing'
    BY <1>0, <2>1
  <2> QED
    BY <1>0, <1>3, <2>2, <2>8, <2>9, SuccessIInv
<1> QED
  BY <1>1, <1>3 DEF Calculate

-----------------------------------------------------------------------------
LEMMA PassIInv == ASSUME IInv, PublishDiagnostics PROVE IInv'
<1>1. \A n \in Names : CalculateDeviceState(n) \in States
  BY DEF CalculateDeviceState, States
<1>2. /\ UNCHANGED <<sinceRun, running, cacheAge, known, sinceSuccess, silentFor, failing>>
      /\ nextPass' = LoopPeriod
  BY DEF PublishDiagnostics, readings
<1>3. PICK tried \in SUBSET known, failed \in SUBSET known :
        /\ lastState' = Shown(lastState, tried \ failed)
        /\ sent' = Shown(sent, tried \ failed)
        /\ sincePublish' = [n \in Names |-> IF n \in tried \ failed THEN 0 ELSE sincePublish[n]]
        /\ lost' = failed
  <2> DEFINE tried == {n \in known : ShouldPublish(n)}
  <2>1. tried \in SUBSET known
    OBVIOUS
  <2> QED
    BY <2>1 DEF PublishDiagnostics
<1>4. ASSUME NEW old \in [Names -> States \cup {""}], NEW names
      PROVE  Shown(old, names) \in [Names -> States \cup {""}]
  BY <1>1 DEF Shown
<1>5. /\ lastState' \in [Names -> States \cup {""}]
      /\ sent' \in [Names -> States \cup {""}]
  BY <1>3, <1>4 DEF IInv, TypeOK
<1>6. sincePublish' \in [Names -> Nat] /\ lost' \in SUBSET Names
  BY <1>3 DEF IInv, TypeOK
<1>7. nextPass' \in 0..(2 * LoopPeriod)
  BY <1>2, ConstantTypes
<1>8. TypeOK'
  BY <1>2, <1>5, <1>6, <1>7 DEF IInv, TypeOK
<1>9. (StoredRestsOnRead /\ BookedRestsOnRead)'
  BY <1>2 DEF IInv, StoredRestsOnRead, BookedRestsOnRead
<1>10. (RunsAreBooked /\ InDeadline /\ RunInTime)'
  BY <1>2 DEF IInv, RunsAreBooked, SinceStart, InDeadline, RunInTime
<1> QED
  BY <1>8, <1>9, <1>10 DEF IInv

(* Time passes: ages grow by one, up to where they no longer matter, and   *)
(* silences grow by one at the most.                                       *)
LEMMA TickIInv == ASSUME IInv, Tick PROVE IInv'
<1>1. /\ sinceRun \in [Keys -> Nat]
      /\ cacheAge \in [Keys -> Int] /\ \A k \in Keys : cacheAge[k] \in 0..Absent
      /\ sinceSuccess \in [Names -> Int]
      /\ silentFor \in [Devices -> Nat]
  BY VariableTypes DEF IInv
<1>2. /\ \A k \in Keys : sinceRun[k] < Deadline[k]
      /\ sinceRun' = [k \in Keys |-> sinceRun[k] + 1]
      /\ running # NoKey => sinceRun[running] < Duration[running]
  BY DEF Tick, Polls!Advance
<1>3. /\ cacheAge' = [k \in Keys |-> UpTo(Absent, cacheAge[k])]
      /\ sinceSuccess' = [n \in Names |-> IF sinceSuccess[n] = Never THEN Never
                                          ELSE UpTo(OfflineTimeout + 1, sinceSuccess[n])]
      /\ silentFor' = [d \in Devices |-> UpTo(SilentCap, silentFor[d])]
      /\ sincePublish' = [n \in Names |-> UpTo(LongestInterval + LoopPeriod, sincePublish[n])]
      /\ nextPass > 0 /\ nextPass' = nextPass - 1
      /\ UNCHANGED <<running, known, failing, lastState, sent, lost>>
  BY DEF Tick
<1>4. \A d \in Devices : silentFor'[d] \in Nat /\ silentFor'[d] <= silentFor[d] + 1
  BY <1>1, <1>3 DEF UpTo
<1>5. \A k \in Keys :
        /\ cacheAge'[k] \in 0..Absent
        /\ cacheAge[k] = Absent => cacheAge'[k] = Absent
        /\ cacheAge[k] # Absent => cacheAge'[k] = cacheAge[k] + 1
  BY <1>1, <1>3, ConstantTypes DEF UpTo, Absent
<1>6. \A n \in Names :
        /\ sinceSuccess[n] = Never => sinceSuccess'[n] = Never
        /\ sinceSuccess[n] > OfflineTimeout => sinceSuccess'[n] > OfflineTimeout
        /\ sinceSuccess'[n] \in {sinceSuccess[n], sinceSuccess[n] + 1}
        /\ sinceSuccess[n] # Never /\ sinceSuccess[n] <= OfflineTimeout =>
             sinceSuccess'[n] = sinceSuccess[n] + 1
  BY <1>1, <1>3, ConstantTypes DEF UpTo, Never
<1>7. TypeOK'
  <2>1. sinceRun' \in [Keys -> Nat]
    BY <1>1, <1>2
  <2>2. cacheAge' \in [Keys -> 0..Absent]
    BY <1>3, <1>5
  <2>3. sinceSuccess' \in [Names -> {Never} \cup 0..(OfflineTimeout + 1)]
    <3>1. ASSUME NEW n \in Names
          PROVE  (IF sinceSuccess[n] = Never THEN Never
                  ELSE UpTo(OfflineTimeout + 1, sinceSuccess[n]))
                 \in {Never} \cup 0..(OfflineTimeout + 1)
      <4>1. sinceSuccess[n] = Never \/ sinceSuccess[n] \in 0..(OfflineTimeout + 1)
        BY DEF IInv, TypeOK
      <4>2. CASE sinceSuccess[n] = Never
        BY <4>2
      <4>3. CASE sinceSuccess[n] \in 0..(OfflineTimeout + 1)
        BY <4>3, ConstantTypes DEF UpTo, Never
      <4> QED
        BY <4>1, <4>2, <4>3
    <3> QED
      BY <3>1, <1>3
  <2>4. silentFor' \in [Devices -> Nat]
    BY <1>3, <1>4
  <2>5. sincePublish' \in [Names -> Nat]
    <3>1. \A n \in Names : sincePublish[n] \in Nat
      BY DEF IInv, TypeOK
    <3>2. \A n \in Names : UpTo(LongestInterval + LoopPeriod, sincePublish[n]) \in Nat
      BY <3>1 DEF UpTo
    <3> QED
      BY <3>2, <1>3
  <2>6. nextPass' \in 0..(2 * LoopPeriod)
    <3>1. nextPass \in 0..(2 * LoopPeriod) /\ LoopPeriod \in Nat
      BY ConstantTypes DEF IInv, TypeOK
    <3> QED
      BY <3>1, <1>3
  <2>7. \A n \in Names : sinceSuccess'[n] # Never => n \in known
    BY <1>6 DEF IInv, TypeOK
  <2> QED
    BY <1>3, <2>1, <2>2, <2>3, <2>4, <2>5, <2>6, <2>7 DEF IInv, TypeOK
<1>8. StoredRestsOnRead'
  <2> SUFFICES ASSUME NEW k \in Keys, cacheAge'[k] # Absent
               PROVE  silentFor'[Device[k]] <= cacheAge'[k] + Lag[k]
    BY DEF StoredRestsOnRead, Absent
  <2>1. cacheAge[k] # Absent /\ cacheAge'[k] = cacheAge[k] + 1
    BY <1>5
  <2>2. silentFor[Device[k]] <= cacheAge[k] + Lag[k]
    BY <2>1 DEF IInv, StoredRestsOnRead
  <2>3. silentFor'[Device[k]] <= silentFor[Device[k]] + 1 /\ silentFor'[Device[k]] \in Nat
        /\ silentFor[Device[k]] \in Nat /\ cacheAge[k] \in Int /\ Lag[k] \in Nat
    BY <1>1, <1>4, DeviceNames, ConstantTypes
  <2> QED
    BY <2>1, <2>2, <2>3
<1>9. BookedRestsOnRead'
  <2> SUFFICES ASSUME NEW d \in Devices, sinceSuccess'[d] # Never,
                      ~(sinceSuccess'[d] > OfflineTimeout)
               PROVE  \E k \in Keys : Device[k] = d /\ silentFor'[d] <= sinceSuccess'[d] + Lag[k]
    BY DEF BookedRestsOnRead, Never
  <2>0. d \in Names
    BY DEF Names
  <2>1. sinceSuccess[d] # Never /\ ~(sinceSuccess[d] > OfflineTimeout)
    BY <2>0, <1>6
  <2>2. PICK k \in Keys : Device[k] = d /\ silentFor[d] <= sinceSuccess[d] + Lag[k]
    BY <2>1 DEF IInv, BookedRestsOnRead
  <2>3. sinceSuccess'[d] = sinceSuccess[d] + 1
    <3>1. sinceSuccess[d] <= OfflineTimeout
      BY <2>0, <2>1, <1>1, ConstantTypes
    <3> QED
      BY <2>0, <2>1, <3>1, <1>6
  <2>4. silentFor'[d] <= silentFor[d] + 1 /\ silentFor'[d] \in Nat
        /\ silentFor[d] \in Nat /\ sinceSuccess[d] \in Int /\ Lag[k] \in Nat
    BY <2>0, <1>1, <1>4, ConstantTypes
  <2>5. silentFor'[d] <= sinceSuccess'[d] + Lag[k]
    BY <2>2, <2>3, <2>4
  <2> QED
    BY <2>2, <2>5
<1>10. RunsAreBooked'
  <2> SUFFICES ASSUME NEW d \in Devices, d \notin failing, sinceSuccess'[d] # Never,
                      NEW g \in Groups, Device[g] = d
               PROVE  sinceSuccess'[d] <= SinceStart(g)'
    BY <1>3 DEF RunsAreBooked, Never
  <2>0. d \in Names /\ g \in Keys
    BY DEF Names, Keys
  <2>1. sinceSuccess[d] # Never
    BY <2>0, <1>6
  <2>2. sinceSuccess[d] <= SinceStart(g)
    BY <2>1 DEF IInv, RunsAreBooked
  <2>3. sinceSuccess'[d] = sinceSuccess[d] + 1 \/ sinceSuccess'[d] = sinceSuccess[d]
    BY <2>0, <1>6
  <2>4. SinceStart(g)' = SinceStart(g) + 1 /\ SinceStart(g) \in Nat /\ sinceSuccess[d] \in Int
    BY <2>0, <1>1, <1>2, <1>3, ConstantTypes DEF SinceStart
  <2> QED
    BY <2>2, <2>3, <2>4
<1>11. InDeadline'
  BY <1>1, <1>2, ConstantTypes DEF InDeadline
<1>12. RunInTime'
  <2> SUFFICES ASSUME running # NoKey PROVE sinceRun'[running] <= Duration[running]
    BY <1>3 DEF RunInTime
  <2>1. running \in Keys
    BY DEF IInv, TypeOK
  <2>2. sinceRun'[running] = sinceRun[running] + 1 /\ sinceRun[running] \in Nat
        /\ Duration[running] \in Nat
    BY <2>1, <1>1, <1>2, ConstantTypes
  <2> QED
    BY <2>2, <1>2
<1> QED
  BY <1>7, <1>8, <1>9, <1>10, <1>11, <1>12 DEF IInv

LEMMA NextIInv == ASSUME WellNamed, IInv, [Next]_vars PROVE IInv'
<1>1. CASE UNCHANGED vars
  BY <1>1 DEF IInv, vars, readings, display, TypeOK, StoredRestsOnRead, BookedRestsOnRead,
              RunsAreBooked, SinceStart, InDeadline, RunInTime
<1> QED
  BY <1>1, BeginIInv, ReadGroupIInv, CalculateIInv, PassIInv, TickIInv DEF Next

-----------------------------------------------------------------------------
(* The conjunction below holds in every reachable state.                   *)
THEOREM Invariance == ASSUME WellNamed PROVE Spec => []IInv
<1>1. IInv /\ [Next]_vars => IInv'
  BY NextIInv
<1> QED
  BY InitIInv, <1>1, PTL DEF Spec

(* Every variable keeps its range, and no name outside the map is read.    *)
THEOREM TypeCorrect == ASSUME WellNamed PROVE Spec => []TypeOK
<1>1. IInv => TypeOK
  BY DEF IInv
<1> QED
  BY Invariance, <1>1, PTL

(* A silent device stops being operational after the offline timeout and   *)
(* the lag of its calculated values.                                       *)
THEOREM SilenceIsNoticed == ASSUME WellNamed PROVE Spec => []SilentDeviceNoticed
<1>1. IInv => SilentDeviceNoticed
  <2> SUFFICES ASSUME IInv, NEW d \in Devices, CalculateDeviceState(d) = "operational"
               PROVE  \E k \in Keys : Device[k] = d /\ silentFor[d] <= OfflineTimeout + Lag[k]
    BY DEF SilentDeviceNoticed
  <2>1. sinceSuccess[d] \in Int /\ silentFor[d] \in Nat
    BY VariableTypes DEF IInv, Names
  <2>2. ~(sinceSuccess[d] > OfflineTimeout)
    BY DEF CalculateDeviceState
  <2>3. sinceSuccess[d] # Never
    <3>1. ErrorRate \in Nat /\ 0 < ErrorRate /\ OfflineTimeout \in Nat
      BY DiagnosticsAssumption
    <3> QED
      BY <3>1 DEF CalculateDeviceState, SuccessRate, Never
  <2>4. PICK k \in Keys : Device[k] = d /\ silentFor[d] <= sinceSuccess[d] + Lag[k]
    BY <2>2, <2>3 DEF IInv, BookedRestsOnRead
  <2>5. Lag[k] \in Nat
    BY ConstantTypes
  <2> QED
    BY <2>1, <2>2, <2>4, <2>5, ConstantTypes
<1> QED
  BY Invariance, <1>1, PTL

(* A device polled often enough and answering is never shown offline.      *)
THEOREM NoFalseAlarms == ASSUME WellNamed PROVE Spec => []NoFalseAlarm
<1>1. IInv => NoFalseAlarm
  <2> SUFFICES ASSUME IInv, NEW d \in Devices, CalculateDeviceState(d) = "offline", d \notin failing,
                      NEW g \in Groups, Device[g] = d
               PROVE  Deadline[g] + Duration[g] > OfflineTimeout
    BY DEF NoFalseAlarm
  <2>1. sinceSuccess[d] \in Int /\ g \in Keys /\ sinceRun[g] \in Nat
    BY VariableTypes DEF IInv, Names, Keys
  <2>2. sinceSuccess[d] > OfflineTimeout
    BY DEF CalculateDeviceState
  <2>3. sinceSuccess[d] # Never
    BY <2>2, ConstantTypes DEF Never
  <2>4. sinceSuccess[d] <= SinceStart(g)
    BY <2>3 DEF IInv, RunsAreBooked
  <2>5. SinceStart(g) <= Deadline[g] + Duration[g]
    <3>1. /\ sinceRun[g] <= Deadline[g]
          /\ running = g => sinceRun[g] <= Duration[g]
      BY <2>1, ConstantTypes DEF IInv, InDeadline, RunInTime
    <3>2. Deadline[g] \in Nat /\ Duration[g] \in Nat
      BY <2>1, ConstantTypes
    <3> QED
      BY <2>1, <3>1, <3>2 DEF SinceStart
  <2>6. SinceStart(g) \in Int /\ Deadline[g] + Duration[g] \in Int
    BY <2>1, ConstantTypes DEF SinceStart
  <2> QED
    BY <2>1, <2>2, <2>4, <2>5, <2>6, ConstantTypes
<1> QED
  BY Invariance, <1>1, PTL

-----------------------------------------------------------------------------
(* What Home Assistant was sent, for any device keys.                      *)

(* A pass remembers what it has sent, sends what differs or is due, and    *)
(* sends only what is in the map.                                          *)
SentIsRemembered == lastState = sent /\ \A n \in Names \ known : sent[n] = ""

(* What was sent last is sent again before its interval and one period of  *)
(* the loop are over; what is left of the period is counted in.            *)
DueInTime ==
  \A n \in known :
    \/ n \in lost
    \/ sent[n] = ""
    \/ sincePublish[n] + nextPass < PublishInterval[sent[n]] + LoopPeriod

DisplayTypes ==
  /\ known \in SUBSET Names /\ sent \in [Names -> States \cup {""}]
  /\ sincePublish \in [Names -> Nat] /\ nextPass \in Nat

Positive == \A s \in States : PublishInterval[s] > 0

DisplayInv == DisplayTypes /\ SentIsRemembered /\ (Positive => DueInTime)

LEMMA Sums ==
  ASSUME NEW p \in Nat, NEW i \in Nat, NEW n \in Nat, NEW l \in Nat
  PROVE  /\ p < i => p + l < i + l
         /\ p < i \/ p >= i
         /\ p + n < i + l => p < i + l
         /\ \A q \in Nat : p + n < i + l /\ q <= p + 1 => q + (n - 1) < i + l
OBVIOUS

(* The runs of the scheduler touch only the map, where a new name was sent *)
(* nothing yet.                                                            *)
LEMMA RunDisplay ==
  ASSUME DisplayInv, NEW k \in Keys, RunSucceeds(k) \/ RunFails(k)
  PROVE  DisplayInv'
<1>1. UNCHANGED <<lastState, sincePublish, sent, lost, nextPass>>
  BY DEF RunSucceeds, RunFails, End, display
<1>2. PICK more \in SUBSET Names : known' = known \cup more
  <2>1. Booked(k) \subseteq Names
    BY DEF Names
  <2>2. CASE UNCHANGED known
    <3>1. known' = known \cup {}
      BY <2>2
    <3> QED
      BY <3>1
  <2>3. CASE \E n \in Booked(k) : known' = known \cup {n}
    BY <2>1, <2>3
  <2> QED
    BY <2>2, <2>3 DEF RunSucceeds, RunFails, PublishResults, RecordSuccess
<1>3. DisplayTypes' /\ SentIsRemembered'
  BY <1>1, <1>2 DEF DisplayInv, DisplayTypes, SentIsRemembered
<1>4. ASSUME Positive PROVE DueInTime'
  <2> SUFFICES ASSUME NEW n \in known', n \notin lost, sent[n] # ""
               PROVE  sincePublish[n] + nextPass < PublishInterval[sent[n]] + LoopPeriod
    BY <1>1 DEF DueInTime
  <2>1. n \in known
    BY <1>2 DEF DisplayInv, SentIsRemembered
  <2> QED
    BY <1>4, <2>1 DEF DisplayInv, DueInTime
<1> QED
  BY <1>3, <1>4 DEF DisplayInv, Positive

LEMMA PassDisplay ==
  ASSUME DisplayInv, PublishDiagnostics
  PROVE  DisplayInv'
<1> DEFINE tried == {n \in known : ShouldPublish(n)}
<1>1. PICK failed \in SUBSET tried :
        /\ lastState' = Shown(lastState, tried \ failed)
        /\ sent' = Shown(sent, tried \ failed)
        /\ sincePublish' = [n \in Names |-> IF n \in tried \ failed THEN 0 ELSE sincePublish[n]]
        /\ lost' = failed
  BY DEF PublishDiagnostics
<1>2. known' = known /\ nextPass' = LoopPeriod /\ LoopPeriod \in Nat
  BY ConstantTypes DEF PublishDiagnostics, readings
<1>3. \A n \in Names : CalculateDeviceState(n) \in States
  BY DEF CalculateDeviceState, States
<1>4. \A n \in Names :
        /\ n \in tried \ failed => sent'[n] = CalculateDeviceState(n) /\ sincePublish'[n] = 0
        /\ n \notin tried \ failed => sent'[n] = sent[n] /\ sincePublish'[n] = sincePublish[n]
  BY <1>1 DEF Shown
<1>5. DisplayTypes'
  <2>1. sent' \in [Names -> States \cup {""}]
    BY <1>1, <1>3 DEF DisplayInv, DisplayTypes, Shown
  <2>2. sincePublish' \in [Names -> Nat]
    BY <1>1 DEF DisplayInv, DisplayTypes
  <2> QED
    BY <1>2, <2>1, <2>2 DEF DisplayInv, DisplayTypes
<1>6. SentIsRemembered'
  <2>1. lastState' = sent'
    BY <1>1 DEF DisplayInv, SentIsRemembered
  <2> QED
    BY <1>2, <1>4, <2>1 DEF DisplayInv, SentIsRemembered
<1>7. ASSUME Positive PROVE DueInTime'
  <2> SUFFICES ASSUME NEW n \in known, n \notin failed, sent'[n] # ""
               PROVE  sincePublish'[n] + LoopPeriod < PublishInterval[sent'[n]] + LoopPeriod
    BY <1>1, <1>2 DEF DueInTime
  <2>1. n \in Names /\ sent'[n] \in States
    BY <1>5, <1>2 DEF DisplayTypes
  <2>2. PublishInterval[sent'[n]] \in Nat /\ PublishInterval[sent'[n]] > 0
    BY <1>7, <2>1, DiagnosticsAssumption DEF Positive
  <2>5. \A p, i \in Nat : p < i => p + LoopPeriod < i + LoopPeriod
    BY <1>2, Sums, Zenon
  <2>3. CASE n \in tried
    BY <1>2, <1>4, <2>1, <2>2, <2>3, <2>5
  <2>4. CASE n \notin tried
    <3>1. ~ShouldPublish(n) /\ sent'[n] = sent[n] /\ sincePublish'[n] = sincePublish[n]
      BY <1>4, <2>1, <2>4
    <3>2. CalculateDeviceState(n) = sent[n]
      BY <3>1 DEF ShouldPublish, DisplayInv, SentIsRemembered
    <3>3. ~(sincePublish[n] >= PublishInterval[sent[n]])
      BY <3>1, <3>2 DEF ShouldPublish
    <3>4. sincePublish[n] \in Nat
      BY <2>1 DEF DisplayInv, DisplayTypes
    <3>5. PublishInterval[sent[n]] \in Nat
      BY <2>2, <3>1
    <3>6. sincePublish[n] < PublishInterval[sent[n]]
      BY <3>3, <3>4, <3>5, Sums, Zenon
    <3> QED
      BY <2>5, <3>1, <3>4, <3>5, <3>6
  <2> QED
    BY <2>3, <2>4
<1> QED
  BY <1>5, <1>6, <1>7 DEF DisplayInv, Positive

LEMMA TickDisplay == ASSUME DisplayInv, Tick PROVE DisplayInv'
<1>1. /\ sincePublish' = [n \in Names |-> UpTo(LongestInterval + LoopPeriod, sincePublish[n])]
      /\ nextPass > 0 /\ nextPass' = nextPass - 1
      /\ UNCHANGED <<known, lastState, sent, lost>>
  BY DEF Tick
<1>2. /\ known \subseteq Names /\ sincePublish \in [Names -> Nat] /\ nextPass \in Nat
      /\ LoopPeriod \in Nat
  BY ConstantTypes DEF DisplayInv, DisplayTypes
<1>3. \A n \in Names : sincePublish'[n] \in Nat /\ sincePublish'[n] <= sincePublish[n] + 1
  BY <1>1, <1>2 DEF UpTo
<1>4. DisplayTypes'
  <2>1. \A n \in Names : UpTo(LongestInterval + LoopPeriod, sincePublish[n]) \in Nat
    BY <1>2 DEF UpTo
  <2>2. sincePublish' \in [Names -> Nat]
    BY <1>1, <2>1
  <2>3. nextPass' \in Nat
    BY <1>1, <1>2
  <2> QED
    BY <1>1, <2>2, <2>3 DEF DisplayInv, DisplayTypes
<1>5. SentIsRemembered'
  BY <1>1 DEF DisplayInv, SentIsRemembered
<1>6. ASSUME Positive PROVE DueInTime'
  <2> SUFFICES ASSUME NEW n \in known, n \notin lost, sent[n] # ""
               PROVE  sincePublish'[n] + nextPass' < PublishInterval[sent[n]] + LoopPeriod
    BY <1>1 DEF DueInTime
  <2>1. sincePublish[n] + nextPass < PublishInterval[sent[n]] + LoopPeriod
    BY <1>6 DEF DisplayInv, DueInTime
  <2>2. PublishInterval[sent[n]] \in Nat
    <3>1. sent[n] \in States
      BY <1>2 DEF DisplayInv, DisplayTypes
    <3> QED
      BY <3>1, DiagnosticsAssumption
  <2>3. sincePublish[n] \in Nat /\ sincePublish'[n] \in Nat /\ sincePublish'[n] <= sincePublish[n] + 1
    BY <1>2, <1>3
  <2>4. sincePublish'[n] + (nextPass - 1) < PublishInterval[sent[n]] + LoopPeriod
    BY <1>2, <2>1, <2>2, <2>3, Sums, Zenon
  <2> QED
    BY <1>1, <2>4
<1> QED
  BY <1>4, <1>5, <1>6 DEF DisplayInv, Positive

LEMMA DisplayInvariance == Spec => []DisplayInv
<1>1. Init => DisplayInv
  <2> SUFFICES ASSUME Init PROVE DisplayInv
    OBVIOUS
  <2>1. \A n \in Names : sent[n] = "" /\ lastState[n] = ""
    BY DEF Init
  <2>2. DisplayTypes
    <3>1. TypeOK /\ LoopPeriod \in Nat
      BY InitIInv, ConstantTypes DEF IInv
    <3>2. nextPass = 2 * LoopPeriod
      BY DEF Init
    <3>3. nextPass \in Nat
      BY <3>1, <3>2
    <3> QED
      BY <3>1, <3>3 DEF TypeOK, DisplayTypes
  <2> QED
    BY <2>1, <2>2 DEF Init, DisplayInv, SentIsRemembered, DueInTime, DisplayTypes
<1>2. DisplayInv /\ [Next]_vars => DisplayInv'
  <2> SUFFICES ASSUME DisplayInv, [Next]_vars PROVE DisplayInv'
    OBVIOUS
  <2>1. ASSUME NEW g \in Groups, ReadGroup(g) PROVE DisplayInv'
    BY <2>1, RunDisplay DEF ReadGroup, Keys
  <2>2. ASSUME NEW c \in Calcs, Calculate(c) PROVE DisplayInv'
    BY <2>2, RunDisplay DEF Calculate, Keys
  <2>3. CASE UNCHANGED vars \/ \E k \in Keys : Begin(k)
    BY <2>3 DEF Begin, vars, readings, display, DisplayInv, DisplayTypes, SentIsRemembered,
                DueInTime, Positive
  <2> QED
    BY <2>1, <2>2, <2>3, PassDisplay, TickDisplay DEF Next
<1> QED
  BY <1>1, <1>2, PTL DEF Spec

(* Each state is sent again within its interval and less than one period   *)
(* of the loop, as long as publications succeed: for any intervals but 0,  *)
(* with which a pass sends and the next comes one whole period later.      *)
THEOREM Republished == ASSUME Positive PROVE Spec => []RepublishedInTime
<1>1. DisplayInv => RepublishedInTime
  <2> SUFFICES ASSUME DisplayInv, NEW n \in known, n \notin lost, sent[n] # ""
               PROVE  sincePublish[n] < PublishInterval[sent[n]] + LoopPeriod
    BY DEF RepublishedInTime
  <2>1. sincePublish[n] + nextPass < PublishInterval[sent[n]] + LoopPeriod
    BY DEF DisplayInv, DueInTime
  <2>2. /\ sincePublish[n] \in Nat /\ nextPass \in Nat /\ LoopPeriod \in Nat
        /\ sent[n] \in States
    BY ConstantTypes DEF DisplayInv, DisplayTypes
  <2>3. PublishInterval[sent[n]] \in Nat
    BY <2>2, DiagnosticsAssumption
  <2> QED
    BY <2>1, <2>2, <2>3, Sums, Zenon
<1> QED
  BY DisplayInvariance, <1>1, PTL

(* No pass leaves a state unpublished whose publication did not fail in it, *)
(* whatever failed in the passes before and whatever changed back since.    *)
THEOREM ChangesGetThrough == Spec => ChangeGetsThrough
<1>1. DisplayInv =>
        [PublishDiagnostics =>
           \A n \in known : n \in lost' \/ sent'[n] = CalculateDeviceState(n)]_vars
  <2> SUFFICES ASSUME DisplayInv, PublishDiagnostics, NEW n \in known
               PROVE  n \in lost' \/ sent'[n] = CalculateDeviceState(n)
    OBVIOUS
  <2> DEFINE tried == {m \in known : ShouldPublish(m)}
  <2>1. PICK failed \in SUBSET tried :
          sent' = Shown(sent, tried \ failed) /\ lost' = failed
    BY DEF PublishDiagnostics
  <2>2. n \in Names /\ lastState = sent
    BY DEF DisplayInv, DisplayTypes, SentIsRemembered
  <2>3. sent'[n] = IF n \in tried \ failed THEN CalculateDeviceState(n) ELSE sent[n]
    BY <2>1, <2>2 DEF Shown
  <2>4. n \in tried \/ CalculateDeviceState(n) = sent[n]
    BY <2>2 DEF ShouldPublish
  <2> QED
    BY <2>1, <2>3, <2>4
<1> QED
  BY DisplayInvariance, <1>1, PTL DEF ChangeGetsThrough

-----------------------------------------------------------------------------
(* A device that nothing was booked for has answered nothing.              *)
NothingBooked ==
  \A d \in Devices : sinceSuccess[d] = Never => silentFor[d] = SilentCap

LEMMA NextNothingBooked ==
  ASSUME WellNamed, IInv, NothingBooked, [Next]_vars
  PROVE  NothingBooked'
<1>1. /\ sinceSuccess \in [Names -> Int] /\ silentFor \in [Devices -> Nat]
      /\ Devices \subseteq Names
  BY VariableTypes DEF IInv, Names
<1>2. ASSUME NEW k \in Keys, RunSucceeds(k),
             \A d \in Devices : d # Device[k] => silentFor'[d] = silentFor[d]
      PROVE  NothingBooked'
  <2>1. sinceSuccess' = [sinceSuccess EXCEPT ![Device[k]] = 0]
    BY <1>2, BookingEffect DEF RunSucceeds
  <2>2. \A d \in Devices : sinceSuccess'[d] = IF d = Device[k] THEN 0 ELSE sinceSuccess[d]
    BY <1>1, <2>1
  <2> QED
    BY <1>2, <2>2 DEF NothingBooked, Never
<1>3. ASSUME NEW g \in Groups, ReadGroup(g) PROVE NothingBooked'
  <2>1. g \in Keys
    BY DEF Keys
  <2>2. CASE RunSucceeds(g) /\ silentFor' = [silentFor EXCEPT ![Device[g]] = 0]
    <3>1. \A d \in Devices : d # Device[g] => silentFor'[d] = silentFor[d]
      BY <1>1, <2>2
    <3> QED
      BY <1>2, <2>1, <2>2, <3>1
  <2>3. CASE RunFails(g) /\ UNCHANGED silentFor
    BY <2>3 DEF RunFails, NothingBooked, Never
  <2> QED
    BY <1>3, <2>2, <2>3 DEF ReadGroup
<1>4. ASSUME NEW c \in Calcs, Calculate(c) PROVE NothingBooked'
  <2>1. c \in Keys /\ UNCHANGED silentFor
    BY <1>4 DEF Keys, Calculate
  <2>2. CASE RunSucceeds(c)
    BY <1>2, <2>1, <2>2
  <2>3. CASE RunFails(c)
    BY <2>1, <2>3 DEF RunFails, NothingBooked, Never
  <2> QED
    BY <1>4, <2>2, <2>3 DEF Calculate
<1>5. CASE Tick
  <2>1. /\ \A d \in Devices : silentFor'[d] = UpTo(SilentCap, silentFor[d])
        /\ \A n \in Names : sinceSuccess'[n] = Never => sinceSuccess[n] = Never
    <3>1. \A n \in Names : sinceSuccess[n] # Never => sinceSuccess[n] \in 0..(OfflineTimeout + 1)
      BY DEF IInv, TypeOK
    <3>2. \A n \in Names : sinceSuccess[n] # Never =>
            UpTo(OfflineTimeout + 1, sinceSuccess[n]) # Never
      BY <3>1 DEF UpTo, Never
    <3> QED
      BY <1>1, <1>5, <3>2 DEF Tick
  <2>2. UpTo(SilentCap, SilentCap) = SilentCap
    BY ConstantTypes DEF UpTo
  <2> QED
    BY <1>1, <2>1, <2>2 DEF NothingBooked, Never
<1>6. CASE PublishDiagnostics \/ (\E k \in Keys : Begin(k)) \/ UNCHANGED vars
  BY <1>6 DEF PublishDiagnostics, Begin, vars, readings, NothingBooked, Never
<1> QED
  BY <1>3, <1>4, <1>5, <1>6 DEF Next

(* A device that has answered is not shown in error: without RecordError   *)
(* that state is left for devices no read was booked for.                  *)
THEOREM ErrorIsUnheard == ASSUME WellNamed PROVE Spec => []ErrorMeansUnheard
<1>1. Init => NothingBooked
  BY DEF Init, NothingBooked
<1>2. IInv /\ NothingBooked /\ [Next]_vars => NothingBooked'
  BY NextNothingBooked
<1>3. NothingBooked => ErrorMeansUnheard
  <2> SUFFICES ASSUME NothingBooked, NEW d \in Devices, CalculateDeviceState(d) = "error"
               PROVE  silentFor[d] = SilentCap
    BY DEF ErrorMeansUnheard
  <2>1. ErrorRate <= 100 /\ ErrorRate \in Nat
    <3>1. ErrorRate \in 1..100
      BY DiagnosticsAssumption
    <3> QED
      BY <3>1
  <2>2. sinceSuccess[d] = Never
    BY <2>1 DEF CalculateDeviceState, SuccessRate
  <2> QED
    BY <2>2 DEF NothingBooked
<1> QED
  BY Invariance, <1>1, <1>2, <1>3, PTL DEF Spec
=============================================================================

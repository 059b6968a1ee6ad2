---------------------------- MODULE PollingProofs ----------------------------
(***************************************************************************)
(* Theorems about GroupScheduler, for every configuration and every        *)
(* running time, and about Polling, which adds the cache to it.  What the  *)
(* scheduler remembers is the time of the last start, except while that    *)
(* run is under way; what a pass still has to run was due when it was      *)
(* decided, and can only have got older (IInv).                            *)
(*                                                                         *)
(* That every key is started in time needs to know how much longer the     *)
(* pass and the wait for the next tick can take (TInv), and with it how    *)
(* sums over sets of keys behave.  Then a value that was read when its     *)
(* turn came is no older than the scheduler can be late.                   *)
(***************************************************************************)
EXTENDS Polling, FiniteSetTheorems, TLAPS

Remembered ==
  \A k \in Keys :
    (phase # "executing" \/ current # k) =>
      \/ sinceLast[k] = Never /\ sinceStart[k] >= Interval[k]
      \/ sinceLast[k] = sinceStart[k]

QueueIsDue == \A k \in queue : sinceStart[k] >= Interval[k]

IInv == TypeOK /\ Remembered /\ QueueIsDue

-----------------------------------------------------------------------------
(* What Min and Max return here. *)
LEMMA MinOfNats ==
  ASSUME NEW T, T \subseteq Nat, T # {}
  PROVE  Min(T) \in T
<1>1. PICK x \in T : \A y \in T : ~(<<y, x>> \in OpToRel(<, Nat))
  BY NatLessThanWellFounded, WFMin
<1>2. \A y \in T : x =< y
  <2> SUFFICES ASSUME NEW y \in T PROVE x =< y
    OBVIOUS
  <2>1. ~(y < x)
    BY <1>1 DEF OpToRel
  <2> QED
    BY <2>1
<1> QED
  BY <1>2 DEF Min

LEMMA MaxOfTwo ==
  ASSUME NEW a \in Int, NEW b \in Int
  PROVE  Max({a, b}) \in {a, b} /\ Max({a, b}) >= a
<1>1. \E x \in {a, b} : \A y \in {a, b} : x >= y
  <2>1. CASE a >= b
    BY <2>1
  <2>2. CASE b >= a
    BY <2>2
  <2> QED
    BY <2>1, <2>2
<1> QED
  BY <1>1 DEF Max

(* Every key has a positive interval, and the check interval is positive.   *)
LEMMA IntervalType == Interval \in [Keys -> Positive]
<1> SUFFICES ASSUME NEW k \in Keys
             PROVE  (IF k \in Calcs THEN FastestInterval(Device[k]) ELSE PollInterval[k])
                      \in Positive
  BY DEF Interval
<1>1. CASE k \in Calcs
  <2> DEFINE own == {h \in Groups : Device[h] = Device[k]}
             T == {DefaultInterval} \cup {PollInterval[g] : g \in own}
  <2>1. T \subseteq Positive /\ T # {}
    BY SchedulerAssumption
  <2>2. Min(T) \in T
    BY <2>1, MinOfNats DEF Positive
  <2> QED
    BY <1>1, <2>1, <2>2 DEF FastestInterval
<1>2. CASE k \notin Calcs
  BY <1>2, SchedulerAssumption DEF Keys
<1> QED
  BY <1>1, <1>2

LEMMA MinCheckIntervalType == MinCheckInterval \in Positive
<1>1. CASE Keys = {}
  BY <1>1, SchedulerAssumption DEF MinCheckInterval
<1>2. CASE Keys # {}
  <2> DEFINE T == {Interval[k] : k \in Keys}
  <2>1. T \subseteq Nat /\ T # {}
    BY <1>2, IntervalType DEF Positive
  <2> HIDE DEF T
  <2>2. Min(T) \in Nat
    BY <2>1, MinOfNats
  <2> DEFINE a == LeastCheck
             b == Min(T) \div CheckDivisor
  <2>3. a \in Positive /\ b \in Int
    BY <2>2, SchedulerAssumption DEF Positive
  <2> HIDE DEF a, b
  <2>4. Max({a, b}) \in {a, b} /\ Max({a, b}) >= a
    BY <2>3, MaxOfTwo DEF Positive
  <2>5. Max({a, b}) \in Positive
    BY <2>3, <2>4 DEF Positive
  <2> QED
    BY <1>2, <2>5 DEF MinCheckInterval, a, b, T
<1> QED
  BY <1>1, <1>2

-----------------------------------------------------------------------------
LEMMA InitIInv == Init => IInv
<1> SUFFICES ASSUME Init PROVE IInv
  OBVIOUS
<1> USE DEF Init
<1>1. TypeOK
  <2>1. sinceLast \in [Keys -> Nat \cup {Never}] /\ sinceStart \in [Keys -> Nat]
    BY IntervalType DEF Positive
  <2>2. nextTick \in 1..MinCheckInterval
    BY MinCheckIntervalType DEF Positive
  <2> QED
    BY <2>1, <2>2 DEF TypeOK, Phases
<1>2. Remembered /\ QueueIsDue
  BY IntervalType DEF Remembered, QueueIsDue, Positive
<1> QED
  BY <1>1, <1>2 DEF IInv

(* checkAndExecuteGroups puts in the pass only what was started an interval *)
(* ago.                                                                     *)
LEMMA CheckIInv == ASSUME IInv, Check PROVE IInv'
<1> USE DEF Check, IInv
<1>1. TypeOK'
  BY DEF TypeOK, Phases, clock
<1>2. Remembered'
  BY DEF Remembered, TypeOK
<1>3. QueueIsDue'
  BY DEF QueueIsDue, Remembered, Due, Never, TypeOK
<1> QED
  BY <1>1, <1>2, <1>3

LEMMA BeginIInv == ASSUME IInv, NEW k \in Keys, Begin(k) PROVE IInv'
<1> USE DEF Begin, IInv, clock
<1>1. TypeOK'
  BY SchedulerAssumption DEF TypeOK, Phases, Keys
<1>2. Remembered'
  BY SchedulerAssumption DEF Remembered, TypeOK, Keys
<1>3. QueueIsDue'
  BY DEF QueueIsDue, TypeOK
<1> QED
  BY <1>1, <1>2, <1>3

(* The end of a run, good or bad: what is remembered becomes the real start. *)
LEMMA RunIInv == ASSUME IInv, Run PROVE IInv'
<1> PICK ok \in BOOLEAN : Executed(ok)
  BY DEF Run
<1> USE DEF Executed, GoOn, IInv, clock
<1>0. current \in Keys
  BY DEF TypeOK
<1>1. TypeOK'
  BY <1>0, SchedulerAssumption DEF TypeOK, Phases, Keys
<1>2. Remembered'
  BY <1>0 DEF Remembered, TypeOK
<1>3. QueueIsDue'
  BY DEF QueueIsDue, TypeOK
<1> QED
  BY <1>1, <1>2, <1>3

LEMMA PublishedIInv == ASSUME IInv, Published PROVE IInv'
<1> USE DEF Published, GoOn, IInv, clock
<1>1. TypeOK'
  BY DEF TypeOK, Phases
<1>2. Remembered' /\ QueueIsDue'
  BY DEF Remembered, QueueIsDue, TypeOK
<1> QED
  BY <1>1, <1>2

LEMMA StopCancelIInv == ASSUME IInv, Stop \/ Cancel PROVE IInv'
<1>1. CASE Stop
  BY <1>1 DEF Stop, IInv, TypeOK, Phases, Remembered, QueueIsDue, clock
<1>2. CASE Cancel
  BY <1>2 DEF Cancel, IInv, TypeOK, Remembered, QueueIsDue, clock
<1> QED
  BY <1>1, <1>2

LEMMA TickIInv == ASSUME IInv, Tick PROVE IInv'
<1> USE DEF Tick, IInv
<1>1. TypeOK'
  <2>1. nextTick' \in 1..MinCheckInterval
    BY MinCheckIntervalType DEF TypeOK, Positive
  <2>2. ticked' \in BOOLEAN
    BY DEF TypeOK
  <2>3. sinceLast' \in [Keys -> Nat \cup {Never}] /\ sinceStart' \in [Keys -> Nat]
    BY DEF TypeOK, Never
  <2> QED
    BY <2>1, <2>2, <2>3 DEF TypeOK
<1>2. Remembered'
  BY IntervalType DEF Remembered, TypeOK, Never, Positive
<1>3. QueueIsDue'
  BY IntervalType DEF QueueIsDue, TypeOK, Positive
<1> QED
  BY <1>1, <1>2, <1>3

LEMMA StutterIInv == ASSUME IInv, UNCHANGED schedulerVars PROVE IInv'
BY DEF schedulerVars, clock, IInv, TypeOK, Remembered, QueueIsDue

LEMMA NextIInv == IInv /\ [Next]_schedulerVars => IInv'
BY CheckIInv, BeginIInv, RunIInv, PublishedIInv, StopCancelIInv, TickIInv,
   StutterIInv DEF Next

-----------------------------------------------------------------------------
(* The inductive invariant holds of every behaviour. *)
THEOREM Invariance == Spec => []IInv
<1>1. Init => IInv
  BY InitIInv
<1>2. IInv /\ [Next]_schedulerVars => IInv'
  BY NextIInv
<1> QED
  BY <1>1, <1>2, PTL DEF Spec

(* Every variable keeps its range; the ticker's period stays positive.      *)
THEOREM TypeCorrect == Spec => []TypeOK
<1>1. IInv => TypeOK
  BY DEF IInv
<1> QED
  BY <1>1, Invariance, PTL

(* No key is ever started again before its interval has passed, whatever    *)
(* fails and however long a pass lasts.                                     *)
THEOREM NoStorm == Spec => NoRetryStorm
<1> DEFINE Patient == \A k \in Keys : Begin(k) => sinceStart[k] >= Interval[k]
<1>1. IInv => [Patient]_schedulerVars
  BY DEF IInv, QueueIsDue, Begin
<1> QED
  BY <1>1, Invariance, PTL DEF NoRetryStorm

-----------------------------------------------------------------------------
(* Busy is a sum over a finite set.  The library computes it by a recursive *)
(* function on subsets, which takes the elements out in an order of its     *)
(* own: the lemmas below show that the function exists and that the order   *)
(* does not matter, by a smallest set for which it would not be so.         *)
Cost(k) == Execution[k] + Publishing
Any(s) == CHOOSE x \in s : TRUE
SumStep(g, s) == IF s = {} THEN 0 ELSE Cost(Any(s)) + g[s \ {Any(s)}]
IsSum(g, S) == g = [s \in SUBSET S |-> SumStep(g, s)]
SumOf(S) == CHOOSE g : IsSum(g, S)

LEMMA BusyIsSum == ASSUME NEW S PROVE Busy(S) = SumOf(S)[S]
BY DEF Busy, MapThenSumSet, MapThenFoldSet, SumOf, IsSum, SumStep, Any, Cost

(* A set of finite sets that is not empty has a least one. *)
LEMMA LeastSet ==
  ASSUME NEW S, IsFiniteSet(S), NEW B, B \subseteq SUBSET S, B # {}
  PROVE  \E T \in B : \A U \in B : U \subseteq T => U = T
<1>1. FiniteSubsetsOf(S) = SUBSET S
  BY FS_FiniteSubsetsOfFinite
<1>2. IsWellFoundedOn(StrictSubsetOrdering(S), SUBSET S)
  BY <1>1, FS_StrictSubsetOrderingWellFounded
<1>3. PICK T \in B : \A U \in B : ~(<<U, T>> \in StrictSubsetOrdering(S))
  BY <1>2, WFMin
<1>4. ASSUME NEW U \in B, U \subseteq T, U # T PROVE FALSE
  BY <1>3, <1>4 DEF StrictSubsetOrdering
<1> QED
  BY <1>4

LEMMA AnyIn == ASSUME NEW s, s # {} PROVE Any(s) \in s
BY DEF Any

LEMMA SumUnique ==
  ASSUME NEW S, IsFiniteSet(S), NEW T, NEW g, NEW h, IsSum(g, S), IsSum(h, T),
         NEW u \in SUBSET (S \cap T)
  PROVE  g[u] = h[u]
<1> SUFFICES ASSUME g[u] # h[u] PROVE FALSE
  OBVIOUS
<1> DEFINE B == {v \in SUBSET (S \cap T) : g[v] # h[v]}
<1>1. PICK v \in B : \A w \in B : w \subseteq v => w = v
  <2>1. B \subseteq SUBSET S /\ B # {}
    OBVIOUS
  <2> HIDE DEF B
  <2> QED
    BY <2>1, LeastSet
<1>2. g[v] = SumStep(g, v) /\ h[v] = SumStep(h, v)
  BY DEF IsSum
<1>3. CASE v = {}
  BY <1>2, <1>3 DEF SumStep
<1>4. CASE v # {}
  <2>1. Any(v) \in v
    BY <1>4, AnyIn
  <2>2. v \ {Any(v)} \notin B
    BY <1>1, <2>1
  <2> QED
    BY <1>1, <1>2, <1>4, <2>2 DEF SumStep
<1> QED
  BY <1>3, <1>4

LEMMA SumExists ==
  ASSUME NEW S, IsFiniteSet(S)
  PROVE  \A T \in SUBSET S : IsSum(SumOf(T), T)
<1> SUFFICES ASSUME \E T \in SUBSET S : ~IsSum(SumOf(T), T) PROVE FALSE
  OBVIOUS
<1> DEFINE B == {T \in SUBSET S : ~IsSum(SumOf(T), T)}
<1>1. PICK T \in B : \A U \in B : U \subseteq T => U = T
  <2>1. B \subseteq SUBSET S /\ B # {}
    OBVIOUS
  <2> HIDE DEF B
  <2> QED
    BY <2>1, LeastSet
<1>2. IsFiniteSet(T)
  BY FS_Subset
<1> DEFINE rest(s) == s \ {Any(s)}
           g == [s \in SUBSET T |->
                   IF s = {} THEN 0 ELSE Cost(Any(s)) + SumOf(rest(s))[rest(s)]]
<1>3. ASSUME NEW t \in SUBSET T, t # T PROVE IsSum(SumOf(t), t)
  BY <1>1, <1>3
<1>4. ASSUME NEW s \in SUBSET T PROVE g[s] = SumStep(g, s)
  <2>1. CASE s = {}
    BY <2>1 DEF SumStep
  <2>2. CASE s # {}
    <3> DEFINE t == rest(s)
    <3>1. t \in SUBSET T /\ t # T
      BY <2>2, AnyIn
    <3>2. IsSum(SumOf(t), t) /\ IsFiniteSet(t)
      BY <1>2, <1>3, <3>1, FS_Subset
    <3>3. SumOf(t)[t] = SumStep(SumOf(t), t)
      BY <3>2 DEF IsSum
    <3>4. g[t] = SumOf(t)[t]
      <4>1. CASE t = {}
        BY <3>1, <3>3, <4>1 DEF SumStep
      <4>2. CASE t # {}
        <5>1. rest(t) \in SUBSET t /\ rest(t) \in SUBSET T /\ rest(t) # T
          BY <3>1, <4>2, AnyIn
        <5>2. IsSum(SumOf(rest(t)), rest(t))
          BY <1>3, <5>1
        <5>3. SumOf(t)[rest(t)] = SumOf(rest(t))[rest(t)]
          BY <3>2, <5>1, <5>2, SumUnique
        <5> QED
          BY <3>1, <3>3, <4>2, <5>3 DEF SumStep
      <4> QED
        BY <4>1, <4>2
    <3> QED
      BY <2>2, <3>4 DEF SumStep
  <2> QED
    BY <2>1, <2>2
<1>5. IsSum(g, T)
  BY <1>4 DEF IsSum
<1> HIDE DEF g
<1>6. IsSum(SumOf(T), T)
  BY <1>5 DEF SumOf
<1> QED
  BY <1>6

LEMMA BusyAny ==
  ASSUME NEW S, IsFiniteSet(S)
  PROVE  /\ S = {} => Busy(S) = 0
         /\ S # {} => /\ Any(S) \in S
                      /\ Busy(S) = Cost(Any(S)) + Busy(S \ {Any(S)})
<1>1. IsSum(SumOf(S), S)
  BY SumExists
<1>2. Busy(S) = SumStep(SumOf(S), S)
  BY <1>1, BusyIsSum DEF IsSum
<1>3. CASE S # {}
  <2> DEFINE T == S \ {Any(S)}
  <2>1. T \in SUBSET S /\ Any(S) \in S
    BY <1>3, AnyIn
  <2>2. IsSum(SumOf(T), T)
    BY <2>1, SumExists
  <2>3. SumOf(S)[T] = SumOf(T)[T]
    BY <1>1, <2>1, <2>2, SumUnique
  <2> QED
    BY <1>2, <1>3, <2>1, <2>3, BusyIsSum DEF SumStep
<1> QED
  BY <1>2, <1>3 DEF SumStep

LEMMA CostType == ASSUME NEW k \in Keys PROVE Cost(k) \in Nat
BY SchedulerAssumption DEF Cost

LEMMA KeysFinite == IsFiniteSet(Keys)
BY SchedulerAssumption, FS_Subset, FS_Union DEF Keys

LEMMA BusyType ==
  ASSUME NEW S \in SUBSET Keys
  PROVE  Busy(S) \in Nat /\ IsFiniteSet(S)
<1> SUFFICES ASSUME Busy(S) \notin Nat PROVE FALSE
  BY KeysFinite, FS_Subset
<1> DEFINE B == {T \in SUBSET Keys : Busy(T) \notin Nat}
<1>1. PICK T \in B : \A U \in B : U \subseteq T => U = T
  <2>1. B \subseteq SUBSET Keys /\ B # {}
    OBVIOUS
  <2> HIDE DEF B
  <2> QED
    BY <2>1, KeysFinite, LeastSet
<1>2. IsFiniteSet(T)
  BY KeysFinite, FS_Subset
<1>3. CASE T = {}
  <2>1. Busy(T) = 0
    BY <1>2, <1>3, BusyAny
  <2> QED
    BY <1>1, <2>1
<1>4. CASE T # {}
  <2>1. Any(T) \in T /\ Busy(T) = Cost(Any(T)) + Busy(T \ {Any(T)})
    BY <1>2, <1>4, BusyAny
  <2>2. Busy(T \ {Any(T)}) \in Nat
    BY <1>1, <2>1
  <2>3. Cost(Any(T)) \in Nat
    BY <2>1, CostType
  <2> QED
    BY <1>1, <2>1, <2>2, <2>3
<1> QED
  BY <1>3, <1>4

LEMMA BusyWithout ==
  ASSUME NEW S \in SUBSET Keys, NEW k \in S
  PROVE  Busy(S) = Cost(k) + Busy(S \ {k})
<1> SUFFICES ASSUME Busy(S) # Cost(k) + Busy(S \ {k}) PROVE FALSE
  OBVIOUS
<1> DEFINE B == {T \in SUBSET Keys : \E x \in T : Busy(T) # Cost(x) + Busy(T \ {x})}
<1>1. PICK T \in B : \A U \in B : U \subseteq T => U = T
  <2>1. B \subseteq SUBSET Keys /\ B # {}
    OBVIOUS
  <2> HIDE DEF B
  <2> QED
    BY <2>1, KeysFinite, LeastSet
<1>2. PICK x \in T : Busy(T) # Cost(x) + Busy(T \ {x})
  BY <1>1
<1> DEFINE y == Any(T)
<1>3. y \in T /\ Busy(T) = Cost(y) + Busy(T \ {y})
  BY BusyType, BusyAny
<1>4. x # y
  BY <1>2, <1>3
<1>5. T \ {x} \notin B /\ T \ {y} \notin B
  BY <1>1, <1>3
<1>6. Busy(T \ {x}) = Cost(y) + Busy((T \ {x}) \ {y})
  BY <1>3, <1>4, <1>5
<1>7. Busy(T \ {y}) = Cost(x) + Busy((T \ {y}) \ {x})
  BY <1>4, <1>5
<1>8. (T \ {x}) \ {y} = (T \ {y}) \ {x}
  OBVIOUS
<1>9. Cost(x) \in Nat /\ Cost(y) \in Nat /\ Busy((T \ {y}) \ {x}) \in Nat
  BY <1>3, CostType, BusyType
<1> HIDE DEF y
<1> QED
  BY <1>2, <1>3, <1>6, <1>7, <1>8, <1>9

LEMMA BusyMonotonic ==
  ASSUME NEW S \in SUBSET Keys, NEW T \in SUBSET S
  PROVE  Busy(T) <= Busy(S)
<1> SUFFICES ASSUME ~(Busy(T) <= Busy(S)) PROVE FALSE
  OBVIOUS
<1> DEFINE B == {U \in SUBSET S : T \subseteq U /\ ~(Busy(T) <= Busy(U))}
<1>1. PICK U \in B : \A V \in B : V \subseteq U => V = U
  <2>1. B \subseteq SUBSET S /\ S \in B /\ IsFiniteSet(S)
    BY BusyType
  <2> HIDE DEF B
  <2> QED
    BY <2>1, LeastSet
<1>2. U # T
  BY <1>1, BusyType
<1>3. PICK k \in U : k \notin T
  BY <1>1, <1>2
<1>4. Busy(U) = Cost(k) + Busy(U \ {k})
  BY <1>3, BusyWithout
<1>5. Busy(T) <= Busy(U \ {k})
  BY <1>1, <1>3
<1>6. Cost(k) \in Nat /\ Busy(U \ {k}) \in Nat /\ Busy(T) \in Nat
  BY CostType, BusyType
<1> QED
  BY <1>1, <1>4, <1>5, <1>6

-----------------------------------------------------------------------------
(* What the pass under way may still take, the time to the next check of a  *)
(* loop that waits, and how old a start may get until then: a key without   *)
(* an execution waits for the first tick.                                   *)
RunLeft == IF current = NoKey THEN 0 ELSE Cost(current) - sinceStart[current]
InPass  == phase \in {"passing", "executing", "publishing"}
ToCheck == IF ticked THEN 0 ELSE nextTick

Wait(k) ==
  IF sinceLast[k] = Never THEN Max({LongestWait(k), Interval[k] + MinCheckInterval})
  ELSE LongestWait(k)

RunInTime ==
  /\ phase = "executing" => sinceStart[current] <= Execution[current]
  /\ phase = "publishing" => sinceStart[current] <= Cost(current)
  /\ current \notin queue
  /\ ~InPass => queue = {}

WaitingInTime ==
  phase = "waiting" => \A k \in Keys : sinceStart[k] + ToCheck <= Wait(k)

(* A key of the pass may have to let every other one go first.              *)
QueueInTime ==
  \A k \in queue : sinceStart[k] + Busy(queue \ {k}) + RunLeft <= Others(k) + Wait(k)

(* A key that has had its turn, or was not due, will be looked at after the *)
(* pass, and if the tick is still to come, when it comes.                   *)
RestInTime ==
  InPass => \A k \in Keys \ queue :
    /\ k # current => sinceStart[k] + Busy(queue) + RunLeft <= LongestWait(k)
    /\ ~ticked => sinceStart[k] + nextTick <= Interval[k] - 1 + MinCheckInterval

InTime == RunInTime /\ WaitingInTime /\ QueueInTime /\ RestInTime

TInv == IInv /\ InTime

LEMMA MaxOfThree ==
  ASSUME NEW a \in Int, NEW b \in Int, NEW c \in Int
  PROVE  LET m == Max({a, b, c}) IN m \in Int /\ m >= a /\ m >= b /\ m >= c
<1>1. \E x \in {a, b, c} : \A y \in {a, b, c} : x >= y
  <2>1. CASE a >= b /\ a >= c
    BY <2>1
  <2>2. CASE b >= a /\ b >= c
    BY <2>2
  <2>3. CASE c >= a /\ c >= b
    BY <2>3
  <2> QED
    BY <2>1, <2>2, <2>3
<1> QED
  BY <1>1 DEF Max

(* The bounds, and how they lie to one another.                             *)
LEMMA Bounds ==
  ASSUME NEW k \in Keys
  PROVE  /\ Interval[k] \in Nat /\ Interval[k] >= 1
         /\ MinCheckInterval \in Nat /\ MinCheckInterval >= 1
         /\ Others(k) \in Nat /\ Busy(Keys) = Cost(k) + Others(k)
         /\ LongestWait(k) \in Int
         /\ LongestWait(k) >= Interval[k] - 1 + MinCheckInterval
         /\ LongestWait(k) >= Interval[k] - 1 + Others(k)
         /\ LongestWait(k) >= Busy(Keys)
         /\ Wait(k) \in Int /\ Wait(k) >= LongestWait(k)
         /\ sinceLast[k] = Never => Wait(k) >= Interval[k] + MinCheckInterval
         /\ Deadline[k] \in Int /\ Deadline[k] >= Others(k) + Wait(k)
<1>1. /\ Interval[k] \in Nat /\ Interval[k] >= 1
      /\ MinCheckInterval \in Nat /\ MinCheckInterval >= 1
  BY IntervalType, MinCheckIntervalType DEF Positive
<1>2. Others(k) \in Nat /\ Busy(Keys) \in Nat /\ Busy(Keys) = Cost(k) + Others(k)
  BY BusyType, BusyWithout DEF Others
<1> DEFINE a == Interval[k] - 1 + MinCheckInterval
           b == Interval[k] - 1 + Others(k)
           c == Busy(Keys)
           d == Interval[k] + MinCheckInterval
           m == LongestWait(k)
           n == Max({m, d})
<1>3. m \in Int /\ m >= a /\ m >= b /\ m >= c
  <2>1. a \in Int /\ b \in Int /\ c \in Int
    BY <1>1, <1>2
  <2>2. m = Max({a, b, c})
    BY DEF LongestWait
  <2> HIDE DEF a, b, c, m
  <2> QED
    BY <2>1, <2>2, MaxOfThree
<1>4. d \in Int
  BY <1>1
<1>5. n \in Int /\ n >= m /\ n >= d
  <2> HIDE DEF m, d
  <2>1. {m, d} = {d, m}
    OBVIOUS
  <2> QED
    BY <1>3, <1>4, <2>1, MaxOfTwo
<1>6. Wait(k) = IF sinceLast[k] = Never THEN n ELSE m
  BY DEF Wait
<1>7. Deadline[k] = Others(k) + n
  BY DEF Deadline
<1> HIDE DEF m, n
<1>8. Wait(k) \in Int /\ Wait(k) >= m /\ n >= Wait(k)
  BY <1>3, <1>5, <1>6
<1> QED
  BY <1>1, <1>2, <1>3, <1>5, <1>6, <1>7, <1>8 DEF m

-----------------------------------------------------------------------------
LEMMA InitInTime == Init => InTime
<1> SUFFICES ASSUME Init PROVE InTime
  OBVIOUS
<1>1. WaitingInTime
  <2> SUFFICES ASSUME NEW k \in Keys PROVE sinceStart[k] + ToCheck <= Wait(k)
    BY DEF WaitingInTime
  <2>1. sinceStart[k] = Interval[k] /\ ToCheck = MinCheckInterval /\ sinceLast[k] = Never
    BY DEF Init, ToCheck
  <2> QED
    BY <2>1, Bounds
<1>2. RunInTime /\ QueueInTime /\ RestInTime
  BY DEF Init, RunInTime, QueueInTime, RestInTime, InPass
<1> QED
  BY <1>1, <1>2 DEF InTime

(* A check that finds keys due starts a pass in which each may come last.   *)
LEMMA CheckInTime == ASSUME TInv, Check PROVE InTime'
<1> USE DEF Check, clock
<1>0. /\ sinceStart \in [Keys -> Nat] /\ sinceStart' = sinceStart /\ nextTick' = nextTick
      /\ nextTick \in 1..MinCheckInterval /\ current = NoKey /\ current' = NoKey
      /\ sinceLast' = sinceLast /\ queue \in SUBSET Keys /\ queue' \in SUBSET Keys
  BY DEF TInv, IInv, TypeOK
<1>1. ASSUME NEW k \in Keys
      PROVE  /\ sinceStart[k] <= Wait(k)
             /\ k \notin queue' => sinceLast[k] # Never /\ sinceStart[k] <= Interval[k] - 1
  <2>1. sinceStart[k] <= Wait(k)
    <3>1. sinceStart[k] + 0 <= Wait(k) /\ sinceStart[k] \in Nat
      BY <1>0 DEF TInv, InTime, WaitingInTime, ToCheck
    <3> QED
      BY <3>1
  <2>2. ASSUME k \notin queue'
        PROVE  sinceLast[k] # Never /\ sinceStart[k] <= Interval[k] - 1
    <3>1. sinceLast[k] # Never /\ ~(sinceLast[k] >= Interval[k])
      BY <2>2 DEF Due
    <3>2. sinceLast[k] = sinceStart[k]
      BY <3>1 DEF TInv, IInv, Remembered
    <3>3. sinceStart[k] \in Nat /\ Interval[k] \in Nat
      BY <1>0, Bounds
    <3> QED
      BY <3>1, <3>2, <3>3
  <2> QED
    BY <2>1, <2>2
<1>2. RunLeft' = 0 /\ \A j \in Keys : Wait(j)' = Wait(j)
  BY <1>0 DEF RunLeft, Wait
<1>3. RunInTime'
  BY <1>0, SchedulerAssumption DEF RunInTime, InPass, Keys
<1>4. WaitingInTime'
  <2> SUFFICES ASSUME phase' = "waiting", NEW k \in Keys
               PROVE  sinceStart[k] + ToCheck' <= Wait(k)
    BY <1>0, <1>2 DEF WaitingInTime
  <2>1. queue' = {}
    OBVIOUS
  <2>2. ToCheck' = nextTick
    BY <1>0 DEF ToCheck
  <2>3. sinceStart[k] <= Interval[k] - 1
    BY <1>1, <2>1
  <2> QED
    BY <1>0, <2>2, <2>3, Bounds
<1>5. QueueInTime'
  <2> SUFFICES ASSUME NEW k \in queue'
               PROVE  sinceStart[k] + Busy(queue' \ {k}) <= Others(k) + Wait(k)
    <3>1. \A k \in queue' : Busy(queue' \ {k}) \in Nat /\ sinceStart[k] \in Nat
      BY <1>0, BusyType
    <3> QED
      BY <1>0, <1>2, <3>1 DEF QueueInTime
  <2>1. k \in Keys /\ Busy(queue' \ {k}) <= Others(k)
    BY <1>0, BusyMonotonic DEF Others
  <2>2. Busy(queue' \ {k}) \in Nat
    BY <1>0, BusyType
  <2> QED
    BY <1>0, <1>1, <2>1, <2>2, Bounds
<1>6. RestInTime'
  <2> SUFFICES ASSUME NEW k \in Keys, k \notin queue'
               PROVE  /\ sinceStart[k] + Busy(queue') + 0 <= LongestWait(k)
                      /\ sinceStart[k] + nextTick <= Interval[k] - 1 + MinCheckInterval
    BY <1>0, <1>2 DEF RestInTime
  <2>1. Busy(queue') <= Others(k) /\ Busy(queue') \in Nat
    BY <1>0, BusyMonotonic, BusyType DEF Others
  <2> QED
    BY <1>0, <1>1, <2>1, Bounds
<1> QED
  BY <1>3, <1>4, <1>5, <1>6 DEF InTime

(* The key that is taken leaves the rest of the pass its share.             *)
LEMMA BeginInTime == ASSUME TInv, NEW k \in Keys, Begin(k) PROVE InTime'
<1>0. /\ sinceStart \in [Keys -> Nat] /\ nextTick \in 1..MinCheckInterval
      /\ queue \in SUBSET Keys /\ k \in queue /\ queue' = queue \ {k}
      /\ phase = "passing" /\ phase' = "executing" /\ current = NoKey /\ current' = k
      /\ nextTick' = nextTick /\ ticked' = ticked /\ sinceLast' = sinceLast
      /\ \A j \in Keys : sinceStart'[j] = IF j = k THEN 0 ELSE sinceStart[j]
      /\ NoKey \notin Keys
  BY SchedulerAssumption DEF Begin, clock, TInv, IInv, TypeOK, Keys
<1>1. RunLeft = 0 /\ RunLeft' = Cost(k) /\ \A j \in Keys : Wait(j)' = Wait(j)
  BY <1>0, CostType DEF RunLeft, Wait
<1>2. Cost(k) \in Nat /\ Busy(queue) = Cost(k) + Busy(queue')
  BY <1>0, BusyWithout, CostType
<1>3. queue' \in SUBSET Keys /\ Busy(queue') \in Nat
  BY <1>0, BusyType
<1>4. RunInTime'
  BY <1>0, SchedulerAssumption DEF RunInTime, InPass
<1>5. WaitingInTime'
  BY <1>0 DEF WaitingInTime
<1>6. QueueInTime'
  <2> SUFFICES ASSUME NEW j \in queue'
               PROVE  sinceStart[j] + Busy(queue' \ {j}) + Cost(k) <= Others(j) + Wait(j)
    BY <1>0, <1>1 DEF QueueInTime
  <2>1. Busy(queue \ {j}) = Cost(k) + Busy((queue \ {j}) \ {k})
    BY <1>0, BusyWithout
  <2>2. (queue \ {j}) \ {k} = queue' \ {j}
    BY <1>0
  <2>3. sinceStart[j] + Busy(queue \ {j}) + 0 <= Others(j) + Wait(j)
    BY <1>0, <1>1 DEF TInv, InTime, QueueInTime
  <2>4. sinceStart[j] \in Nat /\ Busy(queue' \ {j}) \in Nat /\ Others(j) + Wait(j) \in Int
    BY <1>0, <1>3, BusyType, Bounds
  <2> QED
    BY <1>2, <2>1, <2>2, <2>3, <2>4
<1>7. RestInTime'
  <2> SUFFICES ASSUME NEW j \in Keys \ queue'
               PROVE  /\ j # k => sinceStart'[j] + Busy(queue') + Cost(k) <= LongestWait(j)
                      /\ ~ticked => sinceStart'[j] + nextTick <= Interval[j] - 1 + MinCheckInterval
    BY <1>0, <1>1 DEF RestInTime
  <2>1. CASE j = k
    <3>1. /\ sinceStart'[j] = 0 /\ Interval[j] \in Nat /\ Interval[j] >= 1
          /\ MinCheckInterval \in Nat
      BY <1>0, <2>1, Bounds
    <3> QED
      BY <1>0, <2>1, <3>1
  <2>2. CASE j # k
    <3>1. /\ sinceStart[j] + Busy(queue) + 0 <= LongestWait(j)
          /\ ~ticked => sinceStart[j] + nextTick <= Interval[j] - 1 + MinCheckInterval
      BY <1>0, <1>1, <2>2 DEF TInv, InTime, RestInTime, InPass
    <3>2. /\ sinceStart'[j] = sinceStart[j] /\ sinceStart[j] \in Nat
          /\ LongestWait(j) \in Int
      BY <1>0, <2>2, Bounds
    <3> QED
      BY <1>2, <1>3, <3>1, <3>2
  <2> QED
    BY <2>1, <2>2
<1> QED
  BY <1>4, <1>5, <1>6, <1>7 DEF InTime

(* The end of a run, as the rest of the pass sees it: the key has had its   *)
(* turn, and what is left of its share falls away.                          *)
LEMMA GoOnInTime ==
  ASSUME TInv, current \in Keys, phase \in {"executing", "publishing"}, GoOn,
         sinceStart' = sinceStart, queue' = queue, nextTick' = nextTick, ticked' = ticked,
         \A k \in Keys : sinceLast[k] = sinceLast'[k] \/ k = current
  PROVE  InTime'
<1>0. /\ sinceStart \in [Keys -> Nat] /\ nextTick \in 1..MinCheckInterval
      /\ queue \in SUBSET Keys /\ current' = NoKey /\ NoKey \notin Keys
      /\ current \notin queue
      /\ phase' = IF queue = {} THEN "waiting" ELSE "passing"
  BY SchedulerAssumption DEF GoOn, TInv, IInv, TypeOK, Keys, InTime, RunInTime
<1>1. /\ sinceStart[current] <= Cost(current)
      /\ RunLeft \in Nat /\ RunLeft = Cost(current) - sinceStart[current]
  <2>1. Cost(current) \in Nat /\ sinceStart[current] \in Nat /\ Execution[current] \in Nat
        /\ Publishing \in Nat
    BY <1>0, CostType, SchedulerAssumption
  <2>2. sinceStart[current] <= Cost(current)
    BY <2>1 DEF TInv, InTime, RunInTime, Cost
  <2> QED
    BY <1>0, <2>1, <2>2 DEF RunLeft
<1>2. RunLeft' = 0 /\ Busy(queue) \in Nat
  BY <1>0, BusyType DEF RunLeft
<1>3. ASSUME NEW k \in Keys \ queue
      PROVE  /\ sinceStart[k] + Busy(queue) <= LongestWait(k)
             /\ ~ticked => sinceStart[k] + nextTick <= Interval[k] - 1 + MinCheckInterval
  <2>1. /\ k # current => sinceStart[k] + Busy(queue) + RunLeft <= LongestWait(k)
        /\ ~ticked => sinceStart[k] + nextTick <= Interval[k] - 1 + MinCheckInterval
    BY DEF TInv, InTime, RestInTime, InPass
  <2>2. sinceStart[k] \in Nat /\ LongestWait(k) \in Int
    BY <1>0, Bounds
  <2>3. CASE k = current
    <3>1. Busy(queue) <= Others(k)
      BY <1>0, <2>3, BusyMonotonic DEF Others
    <3>2. /\ Others(k) \in Nat /\ Busy(Keys) = Cost(k) + Others(k)
          /\ LongestWait(k) >= Busy(Keys) /\ Cost(k) \in Nat
      BY Bounds, CostType
    <3> QED
      BY <1>1, <1>2, <2>1, <2>2, <2>3, <3>1, <3>2
  <2>4. CASE k # current
    BY <1>1, <1>2, <2>1, <2>2, <2>4
  <2> QED
    BY <2>3, <2>4
<1>4. RunInTime'
  BY <1>0 DEF RunInTime, InPass
<1>5. WaitingInTime'
  <2> SUFFICES ASSUME queue = {}, NEW k \in Keys
               PROVE  sinceStart[k] + ToCheck' <= Wait(k)'
    BY <1>0 DEF WaitingInTime
  <2>1. Wait(k)' \in Int /\ Wait(k)' >= LongestWait(k) /\ LongestWait(k) \in Int
    <3>1. Wait(k)' = IF sinceLast'[k] = Never
                     THEN Max({LongestWait(k), Interval[k] + MinCheckInterval})
                     ELSE LongestWait(k)
      BY DEF Wait
    <3>2. LongestWait(k) \in Int /\ Interval[k] + MinCheckInterval \in Int
      BY Bounds
    <3> QED
      BY <3>1, <3>2, MaxOfTwo
  <2>2. /\ sinceStart[k] + Busy(queue) <= LongestWait(k)
        /\ ~ticked => sinceStart[k] + nextTick <= Interval[k] - 1 + MinCheckInterval
    BY <1>3
  <2>3. ToCheck' = IF ticked THEN 0 ELSE nextTick
    BY DEF ToCheck
  <2>4. LongestWait(k) >= Interval[k] - 1 + MinCheckInterval
        /\ Interval[k] \in Nat /\ MinCheckInterval \in Nat
    BY Bounds
  <2> QED
    BY <1>0, <1>2, <2>1, <2>2, <2>3, <2>4
<1>6. QueueInTime'
  <2> SUFFICES ASSUME NEW k \in queue
               PROVE  sinceStart[k] + Busy(queue \ {k}) + 0 <= Others(k) + Wait(k)'
    BY <1>0, <1>2 DEF QueueInTime
  <2>1. Wait(k)' = Wait(k)
    BY <1>0 DEF Wait
  <2>2. sinceStart[k] + Busy(queue \ {k}) + RunLeft <= Others(k) + Wait(k)
    BY DEF TInv, InTime, QueueInTime
  <2>3. sinceStart[k] \in Nat /\ Busy(queue \ {k}) \in Nat /\ Others(k) + Wait(k) \in Int
    BY <1>0, BusyType, Bounds
  <2> QED
    BY <1>1, <2>1, <2>2, <2>3
<1>7. RestInTime'
  <2> SUFFICES ASSUME NEW k \in Keys \ queue
               PROVE  /\ sinceStart[k] + Busy(queue) + 0 <= LongestWait(k)
                      /\ ~ticked => sinceStart[k] + nextTick <= Interval[k] - 1 + MinCheckInterval
    BY <1>0, <1>2 DEF RestInTime
  <2>1. sinceStart[k] \in Nat
    BY <1>0
  <2> QED
    BY <1>2, <1>3, <2>1
<1> QED
  BY <1>4, <1>5, <1>6, <1>7 DEF InTime

LEMMA ExecutedInTime == ASSUME TInv, Run PROVE InTime'
<1> PICK ok \in BOOLEAN : Executed(ok)
  BY DEF Run
<1>0. /\ current \in Keys /\ phase = "executing" /\ queue' = queue
      /\ sinceStart' = sinceStart /\ nextTick' = nextTick /\ ticked' = ticked
      /\ sinceLast \in [Keys -> Nat \cup {Never}]
      /\ sinceLast' = [sinceLast EXCEPT ![current] = sinceStart[current]]
  BY DEF Executed, clock, TInv, IInv, TypeOK
<1>1. \A k \in Keys : sinceLast[k] = sinceLast'[k] \/ k = current
  BY <1>0
<1>2. CASE GoOn
  BY <1>0, <1>1, <1>2, GoOnInTime
<1>3. CASE phase' = "publishing" /\ UNCHANGED current
  <2> USE <1>0, <1>3
  <2>0. current \notin queue
    BY DEF TInv, InTime, RunInTime
  <2>1. RunLeft' = RunLeft /\ \A k \in queue : Wait(k)' = Wait(k)
    BY <1>1, <2>0 DEF RunLeft, Wait
  <2>2. RunInTime'
    <3>1. Execution[current] \in Nat /\ Publishing \in Nat /\ sinceStart[current] \in Nat
          /\ sinceStart[current] <= Execution[current]
      BY SchedulerAssumption DEF TInv, IInv, TypeOK, InTime, RunInTime
    <3>2. sinceStart[current] <= Cost(current)
      BY <3>1 DEF Cost
    <3> QED
      BY <2>0, <3>2 DEF RunInTime, InPass
  <2>3. WaitingInTime' /\ QueueInTime' /\ RestInTime'
    BY <2>1 DEF TInv, InTime, WaitingInTime, QueueInTime, RestInTime, InPass
  <2> QED
    BY <2>2, <2>3 DEF InTime
<1> QED
  BY <1>2, <1>3 DEF Executed

LEMMA PublishedInTime == ASSUME TInv, Published PROVE InTime'
<1>1. current \in Keys
  BY DEF Published, TInv, IInv, TypeOK
<1> QED
  BY <1>1, GoOnInTime DEF Published, clock

LEMMA StopCancelInTime == ASSUME TInv, Stop \/ Cancel PROVE InTime'
<1>1. RunLeft' = RunLeft /\ ToCheck' = ToCheck /\ \A k \in Keys : Wait(k)' = Wait(k)
  BY DEF Stop, Cancel, clock, RunLeft, ToCheck, Wait
<1>2. queue \in SUBSET Keys
  BY DEF TInv, IInv, TypeOK
<1>3. CASE Stop
  BY <1>1, <1>2, <1>3 DEF Stop, clock, TInv, InTime, RunInTime, WaitingInTime, QueueInTime,
     RestInTime, InPass
<1>4. CASE Cancel
  BY <1>1, <1>2, <1>4 DEF Cancel, clock, TInv, InTime, RunInTime, WaitingInTime, QueueInTime,
     RestInTime, InPass
<1> QED
  BY <1>3, <1>4

(* Time passes only while a run goes on, which uses up its own share, or    *)
(* while the loop waits, which brings the tick nearer.                      *)
LEMMA TickInTime ==
  ASSUME TInv, Tick
  PROVE  InTime' /\ \A k \in Keys : sinceStart[k] < Deadline[k]
<1>0. /\ sinceStart \in [Keys -> Nat] /\ nextTick \in 1..MinCheckInterval
      /\ nextTick \in Nat \ {0}
      /\ \A k \in Keys : sinceStart'[k] = sinceStart[k] + 1
      /\ queue \in SUBSET Keys /\ queue' = queue /\ current' = current /\ phase' = phase
      /\ ticked \in BOOLEAN /\ NoKey \notin Keys /\ current \in Keys \cup {NoKey}
      /\ phase \in {"executing", "publishing"} <=> current # NoKey
      /\ nextTick' = IF nextTick = 1 THEN MinCheckInterval ELSE nextTick - 1
      /\ ticked' = (ticked \/ nextTick = 1)
  BY SchedulerAssumption, MinCheckIntervalType DEF Tick, TInv, IInv, TypeOK, Keys, Positive
<1>1. \A k \in Keys : Wait(k)' = Wait(k)
  BY DEF Tick, Wait, Never, TInv, IInv, TypeOK
<1>2. \A k \in Keys : sinceStart[k] \in Nat
  BY <1>0
<1>3. CASE phase \in {"executing", "publishing"}
  <2>1. current \in Keys /\ current \notin queue
    BY <1>0, <1>3 DEF TInv, InTime, RunInTime
  <2>2. sinceStart[current] < Cost(current) /\ Cost(current) \in Nat
    <3>1. Execution[current] \in Nat /\ Publishing \in Nat
      BY <2>1, SchedulerAssumption
    <3> QED
      BY <1>0, <1>2, <1>3, <2>1, <3>1 DEF Tick, MayTakeLonger, Cost
  <2>3. RunLeft \in Nat \ {0} /\ RunLeft' = RunLeft - 1
    BY <1>0, <1>2, <2>1, <2>2 DEF RunLeft
  <2>4. RunInTime'
    <3>1. phase = "executing" => sinceStart[current] < Execution[current]
      BY <1>3 DEF Tick, MayTakeLonger
    <3>2. Execution[current] \in Nat
      BY <2>1, SchedulerAssumption
    <3> QED
      BY <1>0, <1>2, <1>3, <2>1, <2>2, <3>1, <3>2 DEF RunInTime, InPass
  <2>5. WaitingInTime'
    BY <1>0, <1>3 DEF WaitingInTime
  <2>6. QueueInTime'
    <3> SUFFICES ASSUME NEW k \in queue
                 PROVE  sinceStart[k] + 1 + Busy(queue \ {k}) + (RunLeft - 1) <= Others(k) + Wait(k)
      BY <1>0, <1>1, <2>3 DEF QueueInTime
    <3>1. sinceStart[k] + Busy(queue \ {k}) + RunLeft <= Others(k) + Wait(k)
      BY DEF TInv, InTime, QueueInTime
    <3>2. Busy(queue \ {k}) \in Nat /\ sinceStart[k] \in Nat /\ Others(k) + Wait(k) \in Int
      BY <1>0, <1>2, BusyType, Bounds
    <3> QED
      BY <2>3, <3>1, <3>2
  <2>7. RestInTime'
    <3> SUFFICES ASSUME NEW k \in Keys \ queue
                 PROVE  /\ k # current =>
                             sinceStart[k] + 1 + Busy(queue) + (RunLeft - 1) <= LongestWait(k)
                        /\ ~ticked' => sinceStart[k] + 1 + nextTick' <= Interval[k] - 1 + MinCheckInterval
      BY <1>0, <2>3 DEF RestInTime
    <3>1. /\ k # current => sinceStart[k] + Busy(queue) + RunLeft <= LongestWait(k)
          /\ ~ticked => sinceStart[k] + nextTick <= Interval[k] - 1 + MinCheckInterval
      BY <1>3 DEF TInv, InTime, RestInTime, InPass
    <3>2. /\ Busy(queue) \in Nat /\ sinceStart[k] \in Nat /\ LongestWait(k) \in Int
          /\ Interval[k] \in Nat /\ MinCheckInterval \in Nat
      BY <1>0, <1>2, BusyType, Bounds
    <3>3. ~ticked' => ~ticked /\ nextTick' = nextTick - 1
      BY <1>0
    <3> QED
      BY <1>0, <2>3, <3>1, <3>2, <3>3
  <2>8. ASSUME NEW k \in Keys PROVE sinceStart[k] < Deadline[k]
    <3>1. /\ Others(k) \in Nat /\ LongestWait(k) \in Int /\ Wait(k) \in Int
          /\ Deadline[k] \in Int /\ Deadline[k] >= Others(k) + Wait(k)
          /\ Wait(k) >= LongestWait(k) /\ LongestWait(k) >= Busy(Keys)
          /\ Busy(Keys) = Cost(k) + Others(k) /\ sinceStart[k] \in Nat
      BY <1>2, Bounds
    <3>2. CASE k = current
      BY <2>2, <3>1, <3>2
    <3>3. CASE k \in queue
      <4>1. sinceStart[k] + Busy(queue \ {k}) + RunLeft <= Others(k) + Wait(k)
        BY <3>3 DEF TInv, InTime, QueueInTime
      <4>2. Busy(queue \ {k}) \in Nat
        BY <1>0, BusyType
      <4> QED
        BY <2>3, <3>1, <4>1, <4>2
    <3>4. CASE k # current /\ k \notin queue
      <4>1. sinceStart[k] + Busy(queue) + RunLeft <= LongestWait(k)
        BY <1>3, <3>4 DEF TInv, InTime, RestInTime, InPass
      <4>2. Busy(queue) \in Nat
        BY <1>0, BusyType
      <4> QED
        BY <2>3, <3>1, <4>1, <4>2
    <3> QED
      BY <3>2, <3>3, <3>4
  <2> QED
    BY <2>4, <2>5, <2>6, <2>7, <2>8 DEF InTime
<1>4. CASE phase = "waiting" /\ ~ticked
  <2>1. queue = {} /\ current = NoKey
    BY <1>0, <1>4 DEF TInv, InTime, RunInTime, InPass
  <2>2. RunInTime' /\ QueueInTime' /\ RestInTime'
    BY <1>0, <1>4, <2>1 DEF RunInTime, QueueInTime, RestInTime, InPass
  <2>3. ASSUME NEW k \in Keys
        PROVE  sinceStart[k] + nextTick <= Wait(k) /\ Wait(k) \in Int
    BY <1>4, Bounds DEF TInv, InTime, WaitingInTime, ToCheck
  <2>4. WaitingInTime'
    <3> SUFFICES ASSUME NEW k \in Keys PROVE sinceStart[k] + 1 + ToCheck' <= Wait(k)
      BY <1>0, <1>1 DEF WaitingInTime
    <3>1. ToCheck' = nextTick - 1
      <4>1. CASE nextTick = 1
        <5>1. ticked'
          BY <1>0, <4>1
        <5> QED
          BY <4>1, <5>1 DEF ToCheck
      <4>2. CASE nextTick # 1
        <5>1. ~ticked' /\ nextTick' = nextTick - 1
          BY <1>0, <1>4, <4>2
        <5> QED
          BY <5>1 DEF ToCheck
      <4> QED
        BY <4>1, <4>2
    <3> QED
      BY <1>0, <1>2, <2>3, <3>1
  <2>5. ASSUME NEW k \in Keys PROVE sinceStart[k] < Deadline[k]
    <3>1. /\ Deadline[k] \in Int /\ Deadline[k] >= Others(k) + Wait(k)
          /\ Others(k) \in Nat /\ sinceStart[k] \in Nat
      BY <1>2, Bounds
    <3> QED
      BY <1>0, <2>3, <3>1
  <2> QED
    BY <2>2, <2>4, <2>5 DEF InTime
<1> QED
  BY <1>3, <1>4 DEF Tick, MayTakeLonger

LEMMA StutterInTime == ASSUME TInv, UNCHANGED schedulerVars PROVE InTime'
<1>1. /\ RunLeft' = RunLeft /\ ToCheck' = ToCheck /\ \A k \in Keys : Wait(k)' = Wait(k)
      /\ queue \in SUBSET Keys
  BY DEF schedulerVars, clock, RunLeft, ToCheck, Wait, TInv, IInv, TypeOK
<1> QED
  BY <1>1 DEF schedulerVars, clock, TInv, InTime, RunInTime, WaitingInTime, QueueInTime,
     RestInTime, InPass

LEMMA NextTInv == TInv /\ [Next]_schedulerVars => TInv'
<1> SUFFICES ASSUME TInv, [Next]_schedulerVars PROVE TInv'
  OBVIOUS
<1>1. IInv'
  BY NextIInv DEF TInv
<1>2. InTime'
  BY CheckInTime, BeginInTime, ExecutedInTime, PublishedInTime, StopCancelInTime, TickInTime,
     StutterInTime DEF Next
<1> QED
  BY <1>1, <1>2 DEF TInv

(* Passes and waits never take longer than what TInv says is left of them. *)
THEOREM TimelyInvariance == Spec => []TInv
<1>1. Init => TInv
  BY InitIInv, InitInTime DEF TInv
<1> QED
  BY <1>1, NextTInv, PTL DEF Spec

(* A start is the abstract start, time is the abstract time, and nothing    *)
(* else touches it.                                                         *)
LEMMA NextPeriodic == TInv /\ [Next]_schedulerVars => [Periodic!Next]_sinceStart
<1> SUFFICES ASSUME TInv, [Next]_schedulerVars PROVE Periodic!Next \/ UNCHANGED sinceStart
  BY Zenon
<1>1. ASSUME NEW k \in Keys, Begin(k) PROVE Periodic!Start(k)
  <2>1. k \in queue /\ sinceStart[k] >= Interval[k]
    BY <1>1 DEF Begin, TInv, IInv, QueueIsDue
  <2> QED
    BY <1>1, <2>1 DEF Begin, Periodic!Start
<1>2. ASSUME Tick PROVE Periodic!Advance
  BY <1>2, TickInTime DEF Tick, Periodic!Advance
<1>3. ASSUME Check \/ Run \/ Published \/ Stop \/ Cancel \/ UNCHANGED schedulerVars
      PROVE  UNCHANGED sinceStart
  BY <1>3 DEF Check, Run, Executed, Published, Stop, Cancel, schedulerVars
<1> QED
  BY <1>1, <1>2, <1>3 DEF Next, Periodic!Next

(* Every key is started at its own rate, and late by no more than the other *)
(* keys and one check take: the scheduler implements PeriodicPolling.       *)
THEOREM PollsInTime == Spec => PollsPeriodically
<1>1. Init => Periodic!Init
  BY DEF Init, Periodic!Init
<1> QED
  BY <1>1, NextPeriodic, TimelyInvariance, PTL DEF Spec, PollsPeriodically, Periodic!Spec

-----------------------------------------------------------------------------
(* Polling *)

CacheType ==
  /\ cacheAge \in [Groups \cup Calcs -> 0..Absent]
  /\ outcome \in [Groups \cup Calcs -> Outcomes]

(* What the last run of a key has cached is no older than its start.        *)
ReadIsCached ==
  \A k \in Groups \cup Calcs : outcome[k] = "ok" =>
    k \in Keys /\ sinceLast[k] # Never /\ cacheAge[k] <= sinceLast[k]

PollingInv == TInv /\ CacheType /\ ReadIsCached

-----------------------------------------------------------------------------
(* A run of Polling is a run of the scheduler.                              *)
LEMMA NextScheduled == PollingNext => [Next]_schedulerVars
<1>1. ASSUME NEW o, Report(o) PROVE Run
  BY <1>1 DEF Report, Run
<1> QED
  BY <1>1 DEF PollingNext, ReadGroup, Calculate, PollingTick, Next

LEMMA ReportCached == ASSUME PollingInv, NEW o \in Outcomes, Report(o)
                      PROVE  CacheType' /\ ReadIsCached'
<1>0. /\ current \in Keys /\ phase = "executing"
      /\ sinceStart[current] \in Nat /\ sinceLast \in [Keys -> Nat \cup {Never}]
      /\ sinceLast' = [sinceLast EXCEPT ![current] = sinceStart[current]]
      /\ outcome' = [outcome EXCEPT ![current] = o]
      /\ cacheAge' = IF o = "ok" THEN [cacheAge EXCEPT ![current] = 0] ELSE cacheAge
  BY DEF Report, Executed, Set, PollingInv, TInv, IInv, TypeOK
<1>1. Keys \subseteq Groups \cup Calcs /\ Absent \in Nat
  BY SchedulerAssumption, PollingAssumption DEF Keys, Absent
<1>2. CacheType'
  BY <1>0, <1>1 DEF PollingInv, CacheType
<1>3. ReadIsCached'
  BY <1>0, <1>1 DEF PollingInv, CacheType, ReadIsCached, Never
<1> QED
  BY <1>2, <1>3

LEMMA TickCached == ASSUME PollingInv, PollingTick PROVE CacheType' /\ ReadIsCached'
<1>0. /\ sinceLast \in [Keys -> Nat \cup {Never}]
      /\ \A k \in Keys : sinceLast'[k] = IF sinceLast[k] = Never THEN Never ELSE sinceLast[k] + 1
      /\ outcome' = outcome /\ Absent \in Nat
      /\ \A k \in Groups \cup Calcs :
           cacheAge'[k] = IF cacheAge[k] = Absent THEN Absent ELSE cacheAge[k] + 1
  BY PollingAssumption DEF PollingTick, Tick, PollingInv, TInv, IInv, TypeOK, Absent
<1>1. CacheType'
  BY <1>0 DEF PollingInv, CacheType, PollingTick
<1>2. ReadIsCached'
  BY <1>0 DEF PollingInv, CacheType, ReadIsCached, Never
<1> QED
  BY <1>1, <1>2

LEMMA InitPollingInv == PollingInit => PollingInv
<1> SUFFICES ASSUME PollingInit PROVE PollingInv
  OBVIOUS
<1>1. TInv
  BY InitIInv, InitInTime DEF PollingInit, TInv
<1>2. CacheType /\ ReadIsCached
  BY PollingAssumption DEF PollingInit, CacheType, ReadIsCached, Absent, Outcomes
<1> QED
  BY <1>1, <1>2 DEF PollingInv

LEMMA NextPollingInv == PollingInv /\ [PollingNext]_vars => PollingInv'
<1> SUFFICES ASSUME PollingInv, [PollingNext]_vars PROVE PollingInv'
  OBVIOUS
<1>1. TInv'
  BY NextScheduled, NextTInv DEF PollingInv, vars
<1>2. CASE ReadGroup \/ Calculate
  <2>1. PICK o \in Outcomes : Report(o)
    BY <1>2 DEF ReadGroup, Calculate, Outcomes
  <2> QED
    BY <1>1, <2>1, ReportCached DEF PollingInv
<1>3. CASE PollingTick
  BY <1>1, <1>3, TickCached DEF PollingInv
<1>4. CASE /\ Check \/ (\E k \in Keys : Begin(k)) \/ Published \/ Stop \/ Cancel
           /\ UNCHANGED <<cacheAge, outcome>>
  <2>1. sinceLast' = sinceLast
    BY <1>4 DEF Check, Begin, Published, Stop, Cancel
  <2> QED
    BY <1>1, <1>4, <2>1 DEF PollingInv, CacheType, ReadIsCached
<1>5. CASE UNCHANGED vars
  BY <1>1, <1>5 DEF vars, schedulerVars, PollingInv, CacheType, ReadIsCached
<1> QED
  BY <1>2, <1>3, <1>4, <1>5 DEF PollingNext

(* The inductive invariant of the scheduler with its cache. *)
THEOREM PollingInvariance == PollingSpec => []PollingInv
BY InitPollingInv, NextPollingInv, PTL DEF PollingSpec

-----------------------------------------------------------------------------
(* While another key runs, a key that has run before was started at most    *)
(* LongestAge ago.                                                          *)
LEMMA StartedAgainInTime ==
  ASSUME TInv, phase = "executing", NEW k \in Keys, k # current, sinceLast[k] # Never
  PROVE  sinceLast[k] \in Nat /\ sinceLast[k] <= LongestAge(k)
<1>1. sinceLast[k] = sinceStart[k] /\ sinceStart[k] \in Nat
  BY DEF TInv, IInv, TypeOK, Remembered
<1>2. current \in Keys /\ queue \in SUBSET Keys
  BY DEF TInv, IInv, TypeOK
<1>3. RunLeft \in Nat
  <2>1. /\ Execution[current] \in Nat /\ Publishing \in Nat /\ sinceStart[current] \in Nat
        /\ sinceStart[current] <= Execution[current] /\ current # NoKey
    BY <1>2, SchedulerAssumption DEF TInv, IInv, TypeOK, InTime, RunInTime, Keys
  <2> QED
    BY <2>1 DEF RunLeft, Cost
<1>4. Others(k) \in Nat /\ LongestWait(k) \in Int
  BY Bounds
<1>5. CASE k \in queue
  <2>1. Wait(k) = LongestWait(k)
    BY DEF Wait
  <2>2. sinceStart[k] + Busy(queue \ {k}) + RunLeft <= Others(k) + LongestWait(k)
    BY <1>5, <2>1 DEF TInv, InTime, QueueInTime
  <2>3. Busy(queue \ {k}) \in Nat
    BY <1>2, BusyType
  <2> QED
    BY <1>1, <1>3, <1>4, <2>2, <2>3 DEF LongestAge
<1>6. CASE k \notin queue
  <2>1. sinceStart[k] + Busy(queue) + RunLeft <= LongestWait(k)
    BY <1>6 DEF TInv, InTime, RestInTime, InPass
  <2>2. Busy(queue) \in Nat
    BY <1>2, BusyType
  <2> QED
    BY <1>1, <1>3, <1>4, <2>1, <2>2 DEF LongestAge
<1> QED
  BY <1>5, <1>6

(* With a cache that outlasts the longest wait, a formula lacks a variable  *)
(* only if the last read of it failed or there was none.                    *)
THEOREM InputsAreThere ==
  CacheOutlastsPolling => (PollingSpec => MissingOnlyIfUnread)
<1> DEFINE Excused == \A c \in Calcs :
             Calculate /\ current = c /\ outcome'[c] = "missing"
               => \E i \in Inputs[c] : outcome[i] # "ok"
<1>1. ASSUME CacheOutlastsPolling, PollingInv PROVE Excused
  <2> SUFFICES ASSUME NEW c \in Calcs, Calculate, current = c, outcome'[c] = "missing",
                      \A i \in Inputs[c] : outcome[i] = "ok"
               PROVE  FALSE
    OBVIOUS
  <2>0. c \in Groups \cup Calcs /\ phase = "executing"
    BY DEF Calculate, Report, Executed
  <2>1. \A o : Report(o) => outcome'[c] = o
    BY <1>1, <2>0 DEF Report, PollingInv, CacheType
  <2>2. PICK i \in Inputs[c] : ~Found(i)
    BY <2>1 DEF Calculate
  <2>3. i # c /\ i \in Groups \cup Calcs
    BY PollingAssumption
  <2>4. i \in Keys /\ sinceLast[i] # Never /\ cacheAge[i] <= sinceLast[i]
    BY <1>1, <2>2, <2>3 DEF PollingInv, ReadIsCached
  <2>5. sinceLast[i] \in Nat /\ sinceLast[i] <= LongestAge(i)
    BY <1>1, <2>0, <2>3, <2>4, StartedAgainInTime DEF PollingInv
  <2>6. cacheAge[i] \in Nat /\ TTL \in Nat /\ ~(cacheAge[i] <= TTL)
    BY <1>1, <2>2, <2>3, PollingAssumption DEF Found, PollingInv, CacheType, Absent
  <2>7. LongestAge(i) \in Int /\ LongestAge(i) <= TTL
    BY <1>1, <2>4, Bounds DEF CacheOutlastsPolling, LongestAge
  <2> QED
    BY <2>4, <2>5, <2>6, <2>7
<1>2. ASSUME CacheOutlastsPolling PROVE PollingInv => [Excused]_vars
  BY <1>1, <1>2
<1>3. ASSUME CacheOutlastsPolling PROVE PollingSpec => MissingOnlyIfUnread
  <2>1. PollingInv => [Excused]_vars
    BY <1>2, <1>3
  <2> QED
    BY <2>1, PollingInvariance, PTL DEF MissingOnlyIfUnread
<1> QED
  BY <1>3
==============================================================================

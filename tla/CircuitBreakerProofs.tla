------------------------ MODULE CircuitBreakerProofs ------------------------
(***************************************************************************)
(* Theorems about CircuitBreaker, for every set of callers and every       *)
(* configuration.  All of them come from one inductive invariant: the four *)
(* invariants the runs check support each other, and the hold time of OPEN *)
(* needs OpenSinceFailure, which relates the breaker's two time stamps.    *)
(***************************************************************************)
EXTENDS CircuitBreaker, FiniteSetTheorems, TLAPS

(* While OPEN the last failure is never older than the change to OPEN.     *)
OpenSinceFailure == state = "OPEN" => sinceFailure <= sinceChange

IInv ==
  /\ TypeOK
  /\ TripThreshold
  /\ NeverWedged
  /\ TrialAccounting
  /\ OpenSinceFailure

-----------------------------------------------------------------------------
LEMMA InitIInv == Init => IInv
<1> SUFFICES ASSUME Init PROVE IInv
  OBVIOUS
<1> USE BreakerAssumption DEF Init
<1>1. TypeOK
  BY DEF TypeOK, States, Results, Long, NoTrial
<1>2. TripThreshold /\ NeverWedged /\ TrialAccounting /\ OpenSinceFailure
  BY DEF TripThreshold, NeverWedged, TrialAccounting, OpenSinceFailure
<1> QED
  BY <1>1, <1>2 DEF IInv

(* A set of callers is finite, so that probes can be counted.              *)
LEMMA ProbesFinite == ASSUME TypeOK PROVE IsFiniteSet(trial.probes)
BY BreakerAssumption, FS_Subset DEF TypeOK

-----------------------------------------------------------------------------
(* A call admitted, or rejected, by beforeCall.                            *)
LEMMA BeforeCallIInv ==
  ASSUME IInv, NEW c \in Callers, BeforeCall(c)
  PROVE  IInv'
<1> USE BreakerAssumption
<1> USE DEF IInv
<1>1. CASE AllowClosed(c)
  BY <1>1 DEF AllowClosed, Admit, BeforeCall, breaker, TypeOK, TripThreshold,
              NeverWedged, TrialAccounting, OpenSinceFailure
<1>2. CASE EnterHalfOpen(c)
  <2>1. TypeOK'
    BY <1>2 DEF EnterHalfOpen, Admit, GoTo, BeforeCall, TypeOK, States, Long
  <2>2. TripThreshold'
    BY <1>2 DEF EnterHalfOpen, GoTo, TripThreshold, TypeOK
  <2>3. NeverWedged' /\ OpenSinceFailure'
    BY <1>2 DEF EnterHalfOpen, GoTo, Admit, NeverWedged, OpenSinceFailure
  <2>4. TrialAccounting'
    <3>1. Cardinality({c}) = 1
      BY FS_Singleton
    <3>2. /\ trial' = [admitted |-> 1, ok |-> 0, probes |-> {c}]
          /\ halfOpenAttempts' = 0
          /\ running' = running \cup {c}
      BY <1>2 DEF EnterHalfOpen, Admit
    <3> QED
      BY <3>1, <3>2 DEF TrialAccounting
  <2> QED
    BY <2>1, <2>2, <2>3, <2>4
<1>3. CASE AllowTest(c)
  <2>1. TypeOK'
    <3>1. trial' \in [admitted : Nat, ok : Nat, probes : SUBSET Callers]
      BY <1>3 DEF AllowTest, TypeOK
    <3>2. halfOpenAttempts' \in 0..HalfOpenMaxTries
      BY <1>3 DEF AllowTest, TypeOK
    <3> QED
      BY <1>3, <3>1, <3>2 DEF AllowTest, Admit, BeforeCall, TypeOK
  <2>2. TripThreshold' /\ NeverWedged' /\ OpenSinceFailure'
    BY <1>3 DEF AllowTest, Admit, TripThreshold, NeverWedged, OpenSinceFailure
  <2>3. c \notin trial.probes
    BY <1>3 DEF AllowTest, BeforeCall, TrialAccounting
  <2>4. Cardinality(trial.probes \cup {c}) = Cardinality(trial.probes) + 1
    BY <2>3, ProbesFinite, FS_AddElement
  <2>5. Cardinality(trial.probes) \in Nat
    BY ProbesFinite, FS_CardinalityType
  <2>6. TrialAccounting'
    BY <1>3, <2>4, <2>5 DEF AllowTest, Admit, TrialAccounting, TypeOK
  <2> QED
    BY <2>1, <2>2, <2>6
<1>4. CASE Reject(c)
  BY <1>4 DEF Reject, BeforeCall, breaker, TypeOK, Results, TripThreshold,
              NeverWedged, TrialAccounting, OpenSinceFailure
<1> QED
  BY <1>1, <1>2, <1>3, <1>4 DEF BeforeCall

(* A failure counted by afterCall, under whatever state it finds.          *)
LEMMA FailureIInv ==
  ASSUME IInv, NEW c \in Callers, AfterCall(c), OnFailure,
         result' = [result EXCEPT ![c] = "failed"]
  PROVE  IInv'
<1> USE BreakerAssumption
<1> USE DEF IInv
<1>1. /\ failures' \in 0..FailureCap
      /\ failures + 1 >= MaxFailures => failures' >= MaxFailures
      /\ failures + 1 < MaxFailures => failures' < MaxFailures
      /\ sinceFailure' = 0
  BY DEF OnFailure, CountFailure, TypeOK
<1>2. TypeOK'
  BY <1>1 DEF OnFailure, GoTo, AfterCall, TypeOK, States, Results, Long, NoTrial
<1>3. TripThreshold'
  BY <1>1 DEF OnFailure, GoTo, TripThreshold, TypeOK
<1>4. NeverWedged' /\ TrialAccounting'
  BY DEF OnFailure, GoTo, NeverWedged, TrialAccounting
<1>5. OpenSinceFailure'
  BY <1>1, <1>2 DEF OpenSinceFailure, TypeOK
<1> QED
  BY <1>2, <1>3, <1>4, <1>5

(* A success that closes the circuit, or passes by.                        *)
LEMMA SuccessIInv ==
  ASSUME IInv, NEW c \in Callers, AfterCall(c), OnSuccess(c),
         result' = [result EXCEPT ![c] = "ok"]
  PROVE  IInv'
<1> USE BreakerAssumption
<1> USE DEF IInv
<1>1. c \in running /\ running' = running \ {c} /\ UNCHANGED serviceUp
  BY DEF AfterCall
<1>2. CASE /\ state = "CLOSED"
           /\ failures' = 0
           /\ UNCHANGED <<state, halfOpenAttempts, sinceFailure, sinceChange, trial>>
  BY <1>1, <1>2 DEF TypeOK, Results, TripThreshold, NeverWedged,
                    TrialAccounting, OpenSinceFailure
<1>3. CASE state = "HALF-OPEN" /\ CloseCircuit
  BY <1>1, <1>3 DEF CloseCircuit, GoTo, TypeOK, States, Results, Long, NoTrial,
                    TripThreshold, NeverWedged, TrialAccounting, OpenSinceFailure
<1>4. CASE /\ state = "HALF-OPEN"
           /\ halfOpenAttempts < HalfOpenMaxTries
           /\ TestPassed(c)
  <2>1. UNCHANGED <<state, failures, halfOpenAttempts, sinceFailure, sinceChange>>
    BY <1>4 DEF TestPassed, breaker
  <2>2. TypeOK'
    <3>1. trial' \in [admitted : Nat, ok : Nat, probes : SUBSET Callers]
      BY <1>4 DEF TestPassed, TypeOK
    <3> QED
      BY <1>1, <2>1, <3>1 DEF TypeOK, Results
  <2>3. TripThreshold' /\ NeverWedged' /\ OpenSinceFailure'
    BY <1>4, <2>1 DEF TripThreshold, NeverWedged, OpenSinceFailure, TypeOK
  <2>4. IsFiniteSet(trial.probes) /\ Cardinality(trial.probes) \in Nat
    BY ProbesFinite, FS_CardinalityType
  <2>5. CASE c \in trial.probes
    <3>1. Cardinality(trial.probes \ {c}) = Cardinality(trial.probes) - 1
      BY <2>4, <2>5, FS_RemoveElement
    <3> QED
      BY <1>1, <1>4, <2>1, <2>2, <2>3, <2>4, <2>5, <3>1
      DEF TestPassed, TrialAccounting, TypeOK
  <2>6. CASE c \notin trial.probes
    <3>1. TrialAccounting'
      BY <1>1, <1>4, <2>1, <2>6 DEF TestPassed, TrialAccounting
    <3> QED
      BY <2>2, <2>3, <3>1
  <2> QED
    BY <2>5, <2>6
<1>5. CASE state = "OPEN" /\ UNCHANGED <<breaker, trial>>
  BY <1>1, <1>5 DEF breaker, TypeOK, Results, TripThreshold, NeverWedged,
                    TrialAccounting, OpenSinceFailure
<1> QED
  BY <1>2, <1>3, <1>4, <1>5 DEF OnSuccess

(* The steps that are no call: Reset, time, and the service coming and     *)
(* going.                                                                  *)
LEMMA OtherIInv ==
  ASSUME IInv, Reset \/ Tick \/ ServiceFlips
  PROVE  IInv'
<1> USE BreakerAssumption
<1> USE DEF IInv
<1>1. CASE Reset
  BY <1>1 DEF Reset, GoTo, TypeOK, States, Long, NoTrial, TripThreshold,
              NeverWedged, TrialAccounting, OpenSinceFailure
<1>2. CASE Tick
  <2>1. TypeOK'
    BY <1>2 DEF Tick, Later, TypeOK, Long
  <2>2. OpenSinceFailure'
    BY <1>2 DEF Tick, Later, TypeOK, Long, OpenSinceFailure
  <2>3. TripThreshold' /\ NeverWedged' /\ TrialAccounting'
    BY <1>2 DEF Tick, TripThreshold, NeverWedged, TrialAccounting
  <2> QED
    BY <2>1, <2>2, <2>3
<1>3. CASE ServiceFlips
  BY <1>3 DEF ServiceFlips, breaker, TypeOK, TripThreshold, NeverWedged,
              TrialAccounting, OpenSinceFailure
<1> QED
  BY <1>1, <1>2, <1>3

LEMMA NextIInv == IInv /\ [Next]_vars => IInv'
<1> SUFFICES ASSUME IInv, [Next]_vars PROVE IInv'
  OBVIOUS
<1>1. ASSUME NEW c \in Callers, BeforeCall(c) PROVE IInv'
  BY <1>1, BeforeCallIInv
<1>2. ASSUME NEW c \in Callers, AfterCall(c) PROVE IInv'
  <2>1. CASE OnFailure /\ result' = [result EXCEPT ![c] = "failed"]
    BY <1>2, <2>1, FailureIInv
  <2>2. CASE OnSuccess(c) /\ result' = [result EXCEPT ![c] = "ok"]
    BY <1>2, <2>2, SuccessIInv
  <2> QED
    BY <1>2, <2>1, <2>2 DEF AfterCall
<1>3. CASE Reset \/ Tick \/ ServiceFlips
  BY <1>3, OtherIInv
<1>4. CASE UNCHANGED vars
  BY <1>4 DEF IInv, vars, breaker, TypeOK, TripThreshold, NeverWedged,
              TrialAccounting, OpenSinceFailure
<1> QED
  BY <1>1, <1>2, <1>3, <1>4 DEF Next

-----------------------------------------------------------------------------
(* The conjunction below holds in every reachable state.                   *)
THEOREM Invariance == Spec => []IInv
BY InitIInv, NextIInv, PTL DEF Spec

(* The breaker's counters and states keep their ranges; in particular      *)
(* beforeCall never hands out more than HalfOpenMaxTries tries.            *)
THEOREM TypeCorrect == Spec => []TypeOK
<1>1. IInv => TypeOK
  BY DEF IInv
<1> QED
  BY Invariance, <1>1, PTL

(* The circuit is closed exactly while fewer than maxFailures failures are *)
(* on its count, however calls overlap.                                    *)
THEOREM ThresholdCorrect == Spec => []TripThreshold
<1>1. IInv => TripThreshold
  BY DEF IInv
<1> QED
  BY Invariance, <1>1, PTL

(* With all tries handed out, a call that will leave HALF-OPEN is running. *)
THEOREM NotWedged == Spec => []NeverWedged
<1>1. IInv => NeverWedged
  BY DEF IInv
<1> QED
  BY Invariance, <1>1, PTL

(* The calls let through in HALF-OPEN are accounted for: tries plus one,   *)
(* each succeeded or running.                                              *)
THEOREM TrialsAccounted == Spec => []TrialAccounting
<1>1. IInv => TrialAccounting
  BY DEF IInv
<1> QED
  BY Invariance, <1>1, PTL

(* No test call is let through until the circuit has been open for more    *)
(* than the timeout.                                                       *)
THEOREM OpenHolds == Spec => OpenHoldsForTimeout
<1>1. IInv /\ [Next]_vars
      => [state = "OPEN" /\ state' = "HALF-OPEN" => sinceChange > Timeout]_vars
  <2> SUFFICES ASSUME IInv, [Next]_vars, state = "OPEN", state' = "HALF-OPEN"
               PROVE  sinceChange > Timeout
    OBVIOUS
  <2>1. PICK c \in Callers : EnterHalfOpen(c)
    BY DEF Next, vars, breaker, BeforeCall, AllowClosed, AllowTest, Reject,
           AfterCall, OnFailure, OnSuccess, CloseCircuit, TestPassed, GoTo,
           Reset, Tick, ServiceFlips
  <2>2. sinceFailure > Timeout /\ sinceFailure <= sinceChange
    BY <2>1 DEF EnterHalfOpen, IInv, OpenSinceFailure
  <2> QED
    BY <2>2, BreakerAssumption DEF IInv, TypeOK, Long
<1> QED
  BY Invariance, <1>1, PTL DEF Spec, OpenHoldsForTimeout

=============================================================================

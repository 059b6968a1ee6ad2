--------------------------- MODULE CircuitBreaker ---------------------------
(***************************************************************************)
(* pkg/recovery/circuit_breaker.go, as pkg/gateway/circuit_breaker_wrapper *)
(* drives it: concurrent callers run Call(fn), where fn is one Modbus      *)
(* transaction.  Call is not atomic: beforeCall and afterCall each hold    *)
(* the mutex, fn runs between them with no lock, so calls admitted in one  *)
(* state finish in another.                                                *)
(*                                                                         *)
(* Time is counted in ticks and only compared with the timeout, so a       *)
(* duration is saturated at Timeout + 1; failures is only compared with    *)
(* maxFailures, so it is saturated at FailureCap.                          *)
(***************************************************************************)
EXTENDS Integers, FiniteSets

CONSTANTS
  Callers,           \* goroutines that use the breaker
  MaxFailures,       \* config.MaxFailures
  Timeout,           \* config.Timeout, in ticks
  HalfOpenMaxTries,  \* config.HalfOpenMaxTries
  FailureCap         \* bound: failures counts no further than this

ASSUME BreakerAssumption ==
  /\ IsFiniteSet(Callers)
  /\ MaxFailures \in Nat \ {0}
  /\ Timeout \in Nat \ {0}
  /\ HalfOpenMaxTries \in Nat \ {0}
  /\ FailureCap \in Nat
  /\ FailureCap >= MaxFailures

VARIABLES
  state,             \* cb.state
  failures,          \* cb.failures
  halfOpenAttempts,  \* cb.halfOpenAttempts
  sinceFailure,      \* time.Since(cb.lastFailureTime)
  sinceChange,       \* time.Since(cb.lastStateChange)
  running,           \* callers inside fn, between beforeCall and afterCall
  result,            \* what the last Call of each caller returned
  serviceUp,         \* the gateway and the slaves answer
  trial              \* history: the calls admitted since HALF-OPEN was entered

breaker == <<state, failures, halfOpenAttempts, sinceFailure, sinceChange>>
vars == <<breaker, running, result, serviceUp, trial>>

States  == {"CLOSED", "OPEN", "HALF-OPEN"}
Results == {"none", "ok", "failed", "rejected"}
Long    == Timeout + 1
NoTrial == [admitted |-> 0, ok |-> 0, probes |-> {}]

-----------------------------------------------------------------------------
(* NewCircuitBreaker: the zero lastFailureTime lies far in the past. *)
Init ==
  /\ state = "CLOSED"
  /\ failures = 0
  /\ halfOpenAttempts = 0
  /\ sinceFailure = Long
  /\ sinceChange = 0
  /\ running = {}
  /\ result = [c \in Callers |-> "none"]
  /\ serviceUp \in BOOLEAN
  /\ trial = NoTrial

(* A definition named Mutant... is a wrong version of the definition that   *)
(* follows it: it is no part of the model, and PROJECT.json names the       *)
(* property that tells it from the code.                                    *)

MutantCountFailure ==
  /\ failures' = IF failures < FailureCap THEN failures + 1 ELSE failures
  /\ UNCHANGED sinceFailure

(* One more failure, and the moment it was recorded. *)
CountFailure ==
  /\ failures' = IF failures < FailureCap THEN failures + 1 ELSE failures
  /\ sinceFailure' = 0

GoTo(s) == state' = s /\ sinceChange' = 0

Admit(c) == running' = running \cup {c} /\ UNCHANGED result

-----------------------------------------------------------------------------
(* beforeCall, one action per way through its switch. *)

AllowClosed(c) ==
  /\ state = "CLOSED"
  /\ Admit(c)
  /\ UNCHANGED <<breaker, trial>>

(* The call that finds the timeout elapsed opens the trial and is admitted  *)
(* itself, without being counted in halfOpenAttempts.                       *)
EnterHalfOpen(c) ==
  /\ state = "OPEN"
  /\ sinceFailure > Timeout
  /\ GoTo("HALF-OPEN")
  /\ halfOpenAttempts' = 0
  /\ Admit(c)
  /\ trial' = [admitted |-> 1, ok |-> 0, probes |-> {c}]
  /\ UNCHANGED <<failures, sinceFailure>>

MutantAllowTest(c) ==
  /\ state = "HALF-OPEN"
  /\ halfOpenAttempts <= HalfOpenMaxTries
  /\ halfOpenAttempts' = halfOpenAttempts + 1
  /\ Admit(c)
  /\ trial' = [admitted |-> trial.admitted + 1, ok |-> trial.ok,
               probes |-> trial.probes \cup {c}]
  /\ UNCHANGED <<state, failures, sinceFailure, sinceChange>>

AllowTest(c) ==
  /\ state = "HALF-OPEN"
  /\ halfOpenAttempts < HalfOpenMaxTries
  /\ halfOpenAttempts' = halfOpenAttempts + 1
  /\ Admit(c)
  /\ trial' = [admitted |-> trial.admitted + 1, ok |-> trial.ok,
               probes |-> trial.probes \cup {c}]
  /\ UNCHANGED <<state, failures, sinceFailure, sinceChange>>

MutantReject(c) ==
  /\ \/ state = "OPEN" /\ sinceFailure <= Timeout
     \/ state = "HALF-OPEN" /\ halfOpenAttempts >= HalfOpenMaxTries
  /\ result' = [result EXCEPT ![c] = "rejected"]
  /\ sinceFailure' = 0
  /\ UNCHANGED <<state, failures, halfOpenAttempts, sinceChange, running, trial>>

Reject(c) ==
  /\ \/ state = "OPEN" /\ sinceFailure <= Timeout
     \/ state = "HALF-OPEN" /\ halfOpenAttempts >= HalfOpenMaxTries
  /\ result' = [result EXCEPT ![c] = "rejected"]
  /\ UNCHANGED <<breaker, running, trial>>

BeforeCall(c) ==
  /\ c \notin running
  /\ AllowClosed(c) \/ EnterHalfOpen(c) \/ AllowTest(c) \/ Reject(c)
  /\ UNCHANGED serviceUp

-----------------------------------------------------------------------------
(* afterCall *)

MutantOnFailure ==
  /\ CountFailure
  /\ \/ /\ state = "CLOSED" /\ failures + 1 >= MaxFailures
        /\ GoTo("OPEN")
        /\ UNCHANGED <<halfOpenAttempts, trial>>
     \/ /\ state # "CLOSED" \/ failures + 1 < MaxFailures
        /\ UNCHANGED <<state, sinceChange, halfOpenAttempts, trial>>

OnFailure ==
  /\ CountFailure
  /\ \/ /\ state = "CLOSED" /\ failures + 1 >= MaxFailures
        /\ GoTo("OPEN")
        /\ UNCHANGED <<halfOpenAttempts, trial>>
     \/ /\ state = "HALF-OPEN"
        /\ GoTo("OPEN")
        /\ halfOpenAttempts' = 0
        /\ trial' = NoTrial
     \/ /\ \/ state = "CLOSED" /\ failures + 1 < MaxFailures
           \/ state = "OPEN"
        /\ UNCHANGED <<state, sinceChange, halfOpenAttempts, trial>>

MutantCloseCircuit ==
  /\ GoTo("CLOSED")
  /\ halfOpenAttempts' = 0
  /\ trial' = NoTrial
  /\ UNCHANGED <<failures, sinceFailure>>

(* Any success seen once all tries are handed out closes the circuit,       *)
(* whichever call it came from; earlier successes only pass by.             *)
CloseCircuit ==
  /\ GoTo("CLOSED")
  /\ failures' = 0
  /\ halfOpenAttempts' = 0
  /\ trial' = NoTrial
  /\ UNCHANGED sinceFailure

TestPassed(c) ==
  /\ trial' = IF c \in trial.probes
              THEN [admitted |-> trial.admitted, ok |-> trial.ok + 1,
                    probes |-> trial.probes \ {c}]
              ELSE trial
  /\ UNCHANGED breaker

MutantOnSuccess(c) ==
  \/ /\ state = "CLOSED"
     /\ failures' = 0
     /\ UNCHANGED <<state, halfOpenAttempts, sinceFailure, sinceChange, trial>>
  \/ state = "HALF-OPEN" /\ TestPassed(c)
  \/ state = "OPEN" /\ UNCHANGED <<breaker, trial>>

OnSuccess(c) ==
  \/ /\ state = "CLOSED"
     /\ failures' = 0
     /\ UNCHANGED <<state, halfOpenAttempts, sinceFailure, sinceChange, trial>>
  \/ /\ state = "HALF-OPEN"
     /\ halfOpenAttempts >= HalfOpenMaxTries
     /\ CloseCircuit
  \/ /\ state = "HALF-OPEN"
     /\ halfOpenAttempts < HalfOpenMaxTries
     /\ TestPassed(c)
  \/ state = "OPEN" /\ UNCHANGED <<breaker, trial>>

(* fn fails only while the service is down, and may succeed even then.      *)
AfterCall(c) ==
  /\ c \in running
  /\ running' = running \ {c}
  /\ \/ ~serviceUp /\ OnFailure /\ result' = [result EXCEPT ![c] = "failed"]
     \/ OnSuccess(c) /\ result' = [result EXCEPT ![c] = "ok"]
  /\ UNCHANGED serviceUp

(* Reset, behind ResetCircuitBreaker of the wrapper. *)
Reset ==
  /\ GoTo("CLOSED")
  /\ failures' = 0
  /\ halfOpenAttempts' = 0
  /\ trial' = NoTrial
  /\ UNCHANGED <<sinceFailure, running, result, serviceUp>>

-----------------------------------------------------------------------------
Later(d) == IF d < Long THEN d + 1 ELSE d

Tick ==
  /\ sinceFailure' = Later(sinceFailure)
  /\ sinceChange' = Later(sinceChange)
  /\ UNCHANGED <<state, failures, halfOpenAttempts, running, result,
                 serviceUp, trial>>

ServiceFlips ==
  /\ serviceUp' = ~serviceUp
  /\ UNCHANGED <<breaker, running, result, trial>>

Next ==
  \/ \E c \in Callers : BeforeCall(c) \/ AfterCall(c)
  \/ Reset
  \/ Tick
  \/ ServiceFlips

Spec == Init /\ [][Next]_vars

(* The scheduler polls for ever and every transaction ends in a bounded     *)
(* time (see USRGateway), so callers keep calling and returning.            *)
Fairness ==
  /\ WF_vars(Tick)
  /\ \A c \in Callers : WF_vars(BeforeCall(c)) /\ WF_vars(AfterCall(c))

FairSpec == Spec /\ Fairness

-----------------------------------------------------------------------------
(* Every variable keeps its range, and the saturated counters their bound. *)
TypeOK ==
  /\ state \in States
  /\ failures \in 0..FailureCap
  /\ halfOpenAttempts \in 0..HalfOpenMaxTries
  /\ sinceFailure \in 0..Long
  /\ sinceChange \in 0..Long
  /\ running \in SUBSET Callers
  /\ result \in [Callers -> Results]
  /\ serviceUp \in BOOLEAN
  /\ trial \in [admitted : Nat, ok : Nat, probes : SUBSET Callers]

(* The failure count and the state never disagree, however late a call that *)
(* was admitted under another state reports (onFailure, onSuccess, Reset).  *)
TripThreshold ==
  (state = "CLOSED") <=> (failures < MaxFailures)

(* Once every try is handed out some call is still running: its end leaves  *)
(* HALF-OPEN, so the branch of beforeCall that rejects for want of tries    *)
(* cannot reject for ever.                                                  *)
NeverWedged ==
  state = "HALF-OPEN" /\ halfOpenAttempts = HalfOpenMaxTries => running # {}

(* In HALF-OPEN every call admitted since it was entered has succeeded or   *)
(* is still running; none failed unnoticed, and there are never more than   *)
(* one above the tries counted.                                             *)
TrialAccounting ==
  state = "HALF-OPEN" =>
    /\ trial.admitted = halfOpenAttempts + 1
    /\ trial.admitted = trial.ok + Cardinality(trial.probes)
    /\ trial.probes \subseteq running

(* The circuit stays open for more than the timeout before a test call is   *)
(* let through, although beforeCall looks at the last failure and not at    *)
(* the last state change.                                                   *)
OpenHoldsForTimeout ==
  [][state = "OPEN" /\ state' = "HALF-OPEN" => sinceChange > Timeout]_vars

(* A service that stays up is in the end used normally again.               *)
Recovers == <>[]serviceUp => <>[](state = "CLOSED")

=============================================================================

---------------------------- MODULE GatewayHealth ----------------------------
(***************************************************************************)
(* pkg/health/gateway_health_monitor.go with the ErrorRecoveryManager it   *)
(* keeps (pkg/recovery/error_recovery_manager.go): the gateway is online   *)
(* until errors without a success between them have lasted a grace period. *)
(* Each operation holds the monitor's mutex and is one step.  The counts   *)
(* of errors and successes only reach the log and the health page.         *)
(***************************************************************************)
EXTENDS Naturals

CONSTANT GracePeriod

NoError == GracePeriod + 1

ASSUME GraceAssumption == GracePeriod \in Nat \ {0}

VARIABLES
  isOnline,
  errorAge,           \* time since firstErrorTime; NoError if that is zero
  statusSetToOffline

health == <<isOnline, errorAge, statusSetToOffline>>

HealthInit ==
  /\ isOnline = TRUE
  /\ errorAge = NoError
  /\ statusSetToOffline = FALSE

RecordError == errorAge' = IF errorAge = NoError THEN 0 ELSE errorAge

ShouldMarkOffline == ~statusSetToOffline /\ errorAge' = GracePeriod

MarkOffline ==
  /\ isOnline' = FALSE
  /\ statusSetToOffline' = TRUE

RecordSuccess ==
  /\ isOnline' = TRUE
  /\ errorAge' = NoError
  /\ statusSetToOffline' = FALSE

(* Ages above the grace period are not told apart.                         *)
ErrorAges == errorAge' = IF errorAge < GracePeriod THEN errorAge + 1 ELSE errorAge

HealthTypeOK ==
  /\ isOnline \in BOOLEAN
  /\ errorAge \in 0..NoError
  /\ statusSetToOffline \in BOOLEAN
=============================================================================

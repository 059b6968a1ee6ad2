------------------------------- MODULE Polling ------------------------------
(***************************************************************************)
(* GroupScheduler composed with what its runs do: the strategies of        *)
(* pkg/modbus and the value cache between them.  A group is read in one    *)
(* Modbus transaction, which succeeds or fails, and caches all of its      *)
(* registers; a calculated value finds every variable of its formula in    *)
(* the cache or gives up.  A variable stands for the group it is read      *)
(* with, or for an earlier calculated value of the device; the group need  *)
(* not be enabled (Device.Validate looks at all groups).                   *)
(***************************************************************************)
EXTENDS GroupScheduler

CONSTANTS
  Inputs,   \* what the formula of each calculated value refers to
  TTL       \* of the cache (5 minutes)

ASSUME PollingAssumption ==
  /\ Inputs \in [Calcs -> SUBSET (Groups \cup Calcs)]
  /\ \A c \in Calcs : c \notin Inputs[c]
  /\ TTL \in Nat

VARIABLES
  cacheAge,   \* time since Set; Absent if it never was, or longer ago than TTL
  outcome     \* history: how the last run of each key went

vars == <<schedulerVars, cacheAge, outcome>>

Absent == TTL + 1
Outcomes == {"none", "ok", "missing", "failed"}

PollingInit ==
  /\ Init
  /\ cacheAge = [k \in Groups \cup Calcs |-> Absent]
  /\ outcome = [k \in Groups \cup Calcs |-> "none"]

-----------------------------------------------------------------------------
(* ValueCache *)

(* The timestamp is kept from the first time on. *)
MutantSet(k) ==
  cacheAge' = [cacheAge EXCEPT ![k] = IF @ = Absent THEN 0 ELSE @]

Set(k) == cacheAge' = [cacheAge EXCEPT ![k] = 0]

MutantFound(k) == cacheAge[k] < TTL

Found(k) == cacheAge[k] <= TTL

(* A run stores its values if and only if it succeeds. *)
Report(o) ==
  /\ Executed(o = "ok")
  /\ outcome' = [outcome EXCEPT ![current] = o]
  /\ IF o = "ok" THEN Set(current) ELSE UNCHANGED cacheAge

(* GroupRegisterStrategy.Execute.  The offsets were validated with the      *)
(* configuration, so an answer of the right length is cached as a whole.    *)
ReadGroup ==
  /\ current \in Enabled
  /\ \E o \in {"ok", "failed"} : Report(o)

(* CalculatedRegisterStrategy.Execute.  Evaluate may fail on the values.    *)
Calculate ==
  /\ current \in Calcs
  /\ \/ /\ \A i \in Inputs[current] : Found(i)
        /\ \E o \in {"ok", "failed"} : Report(o)
     \/ /\ \E i \in Inputs[current] : ~Found(i)
        /\ Report("missing")

PollingTick ==
  /\ Tick
  /\ cacheAge' = [k \in Groups \cup Calcs |->
                    IF cacheAge[k] = Absent THEN Absent ELSE cacheAge[k] + 1]
  /\ UNCHANGED outcome

PollingNext ==
  \/ ReadGroup
  \/ Calculate
  \/ PollingTick
  \/ /\ Check \/ (\E k \in Keys : Begin(k)) \/ Published \/ Stop \/ Cancel
     /\ UNCHANGED <<cacheAge, outcome>>

PollingSpec == PollingInit /\ [][PollingNext]_vars

-----------------------------------------------------------------------------
(* A value that is read at every turn gets at most this old before the next *)
(* turn, and the cache keeps it until then.  The configuration does not see *)
(* to that: it lets an interval be as long as the TTL.                      *)
LongestAge(k) == Others(k) + LongestWait(k)
CacheOutlastsPolling == \A k \in Keys : LongestAge(k) <= TTL

(* A calculated value lacks a variable only if the last read of it failed   *)
(* or there was none: as long as reads succeed, no value expires between    *)
(* two of them, however late the scheduler is ("All dependencies are        *)
(* available when formulas execute", docs/FORMULAS.md:57).  It takes        *)
(* CacheOutlastsPolling.                                                    *)
MissingOnlyIfUnread ==
  [][\A c \in Calcs :
       Calculate /\ current = c /\ outcome'[c] = "missing"
       => \E i \in Inputs[c] : outcome[i] # "ok"]_vars

=============================================================================

--------------------------- MODULE PeriodicPolling --------------------------
(***************************************************************************)
(* What per-group polling promises (docs/PER_GROUP_POLLING.md), with no    *)
(* ticker, queue or mutex: two starts of one key lie at least its interval *)
(* and at most its deadline apart.                                         *)
(***************************************************************************)
EXTENDS Integers

CONSTANTS
  Keys,       \* what is polled
  Interval,   \* the time that lies between two starts at the least
  Deadline    \* and at the most

VARIABLE since   \* time since each key was last started

Init == since = Interval

Start(k) ==
  /\ since[k] >= Interval[k]
  /\ since' = [since EXCEPT ![k] = 0]

Advance ==
  /\ \A k \in Keys : since[k] < Deadline[k]
  /\ since' = [k \in Keys |-> since[k] + 1]

Next == Advance \/ \E k \in Keys : Start(k)

Spec == Init /\ [][Next]_since
=============================================================================

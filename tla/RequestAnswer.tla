---------------------------- MODULE RequestAnswer ---------------------------
(***************************************************************************)
(* What the callers of pkg/gateway.Gateway may rely on, whatever the link  *)
(* does: SendCommandAndWaitForResponse hands a request at most one frame,  *)
(* and a frame to at most one request.  When the calls are made one after  *)
(* the other, as the scheduler makes them, the frames are also handed out  *)
(* in the order in which they were asked for, and none before its request. *)
(* It does not promise that a request gets its own frame.                  *)
(***************************************************************************)
EXTENDS Integers

CONSTANT InOrder   \* are the calls made one after the other?

VARIABLES
  issued,     \* requests numbered so far: 1..issued
  accepted    \* the pairs <<r, a>>: request r was given the frame asked for by a

vars == <<issued, accepted>>

Init == issued = 0 /\ accepted = {}

Issue == issued' = issued + 1 /\ UNCHANGED accepted

Fits(r, a) ==
  \A p \in accepted :
    /\ p[1] # r /\ p[2] # a
    /\ InOrder => p[1] < r /\ p[2] < a

Accept(r, a) ==
  /\ InOrder => a <= r
  /\ Fits(r, a)
  /\ accepted' = accepted \cup {<<r, a>>}
  /\ UNCHANGED issued

Next == Issue \/ \E r, a \in 1..issued : Accept(r, a)

Spec == Init /\ [][Next]_vars

-----------------------------------------------------------------------------
(* Only numbered requests are answered, and only with frames they asked for. *)
TypeOK ==
  /\ issued \in Nat
  /\ accepted \subseteq (1..issued) \X (1..issued)

(* Neither a request nor a frame is used twice.                            *)
AnsweredOnce ==
  \A p, q \in accepted : p[1] = q[1] <=> p[2] = q[2]

(* A later request never gets an older frame than an earlier one got.      *)
AnsweredInOrder ==
  InOrder => \A p, q \in accepted :
               /\ p[2] <= p[1]
               /\ p[1] < q[1] => p[2] < q[2]
=============================================================================

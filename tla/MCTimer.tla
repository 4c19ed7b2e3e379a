------------------------------- MODULE MCTimer -------------------------------
(* Instances of Timer for TLC.                                             *)
EXTENDS Timer

CONSTANTS e1, e2, e3

(* e1 is a short timer, the others take twice as long.                     *)
MCInterval == [e \in Events |-> IF e = e1 THEN 1 ELSE 2]

(* The case that is kindest to the timer: an operation takes no time, and  *)
(* an event is added at the instant it is constructed.                     *)
Instant == resetting = "no" /\ DOMAIN arrive = added
PromptSpec ==
  /\ Init /\ [][Next /\ (now' # now => Instant)]_vars
  /\ WF_vars(Tick /\ Instant) /\ WF_vars(Loop)
=============================================================================

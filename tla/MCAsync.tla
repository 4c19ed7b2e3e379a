------------------------------- MODULE MCAsync -------------------------------
(* What src/async synchronises coroutines with, in one program: a thread    *)
(* makes one sync_wait(when_all(tasks)), and once nothing of it is left     *)
(* running, coroutines use an event for ever.                               *)
EXTENDS WhenAll, Event

Over == mpc = "returned" /\ apc = "final"

AsyncInit == WhenAllInit /\ EventInit

AsyncNext ==
  \/ WhenAllNext /\ UNCHANGED evars
  \/ Over /\ EventNext /\ UNCHANGED wvars

AsyncSpec ==
  AsyncInit /\ [][AsyncNext]_<<wvars, evars>> /\ WhenAllFairness /\ EventFairness
=============================================================================

----------------------------- MODULE AsyncEvent -----------------------------
(***************************************************************************)
(* What async::event promises: a flag and a line of waiting coroutines.    *)
(* set() raises the flag and takes the whole line in one step, then        *)
(* resumes it in the order of its policy; a coroutine that awaits a raised *)
(* event goes on at once.                                                  *)
(***************************************************************************)
EXTENDS Sequences, SequencesExt

CONSTANTS
  Waiters,    \* coroutines that co_await the event
  Setters     \* calls of set() that may be in progress together

VARIABLES
  isSet,      \* the flag
  waiting,    \* the suspended coroutines, in the order they came
  released,   \* released[s]: those set() call s has still to resume, in order
  order,      \* order[s]: the policy of set() call s, or of its last call
  suspended   \* the coroutines that have not been resumed

avars == <<isSet, waiting, released, order, suspended>>

AInit ==
  /\ isSet \in BOOLEAN
  /\ waiting = <<>>
  /\ released = [s \in Setters |-> <<>>]
  /\ order = [s \in Setters |-> "lifo"]
  /\ suspended = {}

AAwait(w) ==
  /\ ~isSet /\ w \notin suspended
  /\ waiting' = Append(waiting, w) /\ suspended' = suspended \cup {w}
  /\ UNCHANGED <<isSet, released, order>>

ASet(s, policy) ==
  /\ released[s] = <<>>
  /\ isSet' = TRUE
  /\ waiting' = <<>>
  /\ order' = [order EXCEPT ![s] = policy]
  /\ released' = [released EXCEPT ![s] =
       IF policy = "fifo" THEN waiting ELSE Reverse(waiting)]
  /\ UNCHANGED suspended

AResume(s) ==
  /\ released[s] # <<>>
  /\ released' = [released EXCEPT ![s] = Tail(@)]
  /\ suspended' = suspended \ {Head(released[s])}
  /\ UNCHANGED <<isSet, waiting, order>>

AReset ==
  /\ isSet
  /\ isSet' = FALSE
  /\ UNCHANGED <<waiting, released, order, suspended>>

ANext ==
  \/ \E w \in Waiters : AAwait(w)
  \/ \E s \in Setters : AResume(s) \/ \E p \in {"lifo", "fifo"} : ASet(s, p)
  \/ AReset

(* Whoever is released is resumed.                                         *)
ASpec == AInit /\ [][ANext]_avars /\ \A s \in Setters : WF_avars(AResume(s))
=============================================================================

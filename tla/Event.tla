-------------------------------- MODULE Event --------------------------------
(***************************************************************************)
(* async::event (async/event.cc, async/event.hpp): a lock-free event.  One *)
(* atomic pointer, state_, is null (not set, nobody waits), the event      *)
(* itself (set), or the newest awaiter of an intrusive list linked through *)
(* next_.  An awaiter lives in the frame of its coroutine, so awaiting     *)
(* again reuses the same address.                                          *)
(*                                                                         *)
(* Each access to state_ and each access to another coroutine's awaiter is *)
(* a step.  A resumed coroutine runs concurrently with the rest of set(),  *)
(* as it does with set(executor); with set() it runs inside resume().      *)
(***************************************************************************)
EXTENDS Sequences, FiniteSets, SequencesExt

CONSTANTS
  Waiters,    \* coroutines, each with its awaiter
  Setters,    \* calls of set() that may be in progress together
  This,       \* state_ = this: the event is set
  Null        \* nullptr

ASSUME PointersAssumption == This # Null /\ {This, Null} \cap Waiters = {}

VARIABLES
  state_,     \* the atomic pointer
  next_,      \* the link of each awaiter
  wpc,        \* where each coroutine is
  spc,        \* where each set() call is
  cur,        \* set(): waiters; reverse(): cur
  prev,       \* reverse(): prev
  order       \* the policy of each set() call, or of its last call

evars == <<state_, next_, wpc, spc, cur, prev, order>>

EventInit ==
  /\ state_ \in {This, Null}
  /\ next_ = [w \in Waiters |-> Null]
  /\ wpc = [w \in Waiters |-> "running"]
  /\ spc = [s \in Setters |-> "idle"]
  /\ cur = [s \in Setters |-> Null]
  /\ prev = [s \in Setters |-> Null]
  /\ order = [s \in Setters |-> "lifo"]
-----------------------------------------------------------------------------
(* co_await event.                                                         *)

(* await_ready(): a set event does not suspend.                            *)
AwaitReady(w) ==
  /\ wpc[w] = "running" /\ state_ # This
  /\ wpc' = [wpc EXCEPT ![w] = "await"]
  /\ UNCHANGED <<state_, next_, spc, cur, prev, order>>

(* The body of the loop with the value v of state_ just seen: a set event  *)
(* lets the coroutine go on, otherwise the awaiter links itself to v.      *)
Link(w, v) ==
  \/ /\ v = This
     /\ wpc' = [wpc EXCEPT ![w] = "running"]
     /\ UNCHANGED next_
  \/ /\ v # This
     /\ next_' = [next_ EXCEPT ![w] = v]
     /\ wpc' = [wpc EXCEPT ![w] = "cas"]

(* await_suspend(): the load before the loop.                              *)
Load(w) ==
  /\ wpc[w] = "await"
  /\ Link(w, state_)
  /\ UNCHANGED <<state_, spc, cur, prev, order>>

(* compare_exchange_weak succeeds when state_ still is the value linked    *)
(* to; the coroutine is suspended from here on.                            *)
CasSucceeds(w) ==
  /\ wpc[w] = "cas" /\ state_ = next_[w]
  /\ state_' = w
  /\ wpc' = [wpc EXCEPT ![w] = "suspended"]
  /\ UNCHANGED <<next_, spc, cur, prev, order>>

(* It fails when state_ has changed, and may fail when it has not; the     *)
(* value it found goes round the loop.                                     *)
CasFails(w) ==
  /\ wpc[w] = "cas"
  /\ Link(w, state_)
  /\ UNCHANGED <<state_, spc, cur, prev, order>>
-----------------------------------------------------------------------------
(* set(policy) and reset().                                                *)

(* Defect: the policy is ignored.                                          *)
ExchangeLifo(s, policy) ==
  /\ spc[s] = "idle"
  /\ order' = [order EXCEPT ![s] = policy]
  /\ state_' = This
  /\ \/ state_ = This /\ UNCHANGED <<spc, cur>>
     \/ /\ state_ # This
        /\ cur' = [cur EXCEPT ![s] = state_]
        /\ spc' = [spc EXCEPT ![s] = "resume"]
  /\ UNCHANGED <<next_, wpc, prev>>

(* The exchange.  The caller that finds the event not set owns the list;   *)
(* reverse() leaves a list of less than two awaiters alone.                *)
Exchange(s, policy) ==
  /\ spc[s] = "idle"
  /\ order' = [order EXCEPT ![s] = policy]
  /\ state_' = This
  /\ \/ state_ = This /\ UNCHANGED <<spc, cur>>
     \/ /\ state_ # This
        /\ cur' = [cur EXCEPT ![s] = state_]
        /\ spc' = [spc EXCEPT ![s] =
             IF policy = "fifo" /\ state_ # Null /\ next_[state_] # Null
             THEN "reverse" ELSE "resume"]
  /\ UNCHANGED <<next_, wpc, prev>>

(* One round of the loop of reverse(), and its end.                        *)
ReverseStep(s) ==
  /\ spc[s] = "reverse"
  /\ \/ /\ cur[s] # Null
        /\ next_' = [next_ EXCEPT ![cur[s]] = prev[s]]
        /\ prev' = [prev EXCEPT ![s] = cur[s]]
        /\ cur' = [cur EXCEPT ![s] = next_[cur[s]]]
        /\ UNCHANGED spc
     \/ /\ cur[s] = Null
        /\ cur' = [cur EXCEPT ![s] = prev[s]]
        /\ prev' = [prev EXCEPT ![s] = Null]
        /\ spc' = [spc EXCEPT ![s] = "resume"]
        /\ UNCHANGED next_
  /\ UNCHANGED <<state_, wpc, order>>

(* One round of the loop of set(): next is read, then the coroutine is     *)
(* resumed.                                                                *)
ResumeStep(s) ==
  /\ spc[s] = "resume" /\ cur[s] # Null
  /\ cur' = [cur EXCEPT ![s] = next_[cur[s]]]
  /\ wpc' = [wpc EXCEPT ![cur[s]] = "running"]
  /\ UNCHANGED <<state_, next_, spc, prev, order>>

(* The end of the list: set() returns.                                     *)
SetReturns(s) ==
  /\ spc[s] = "resume" /\ cur[s] = Null
  /\ spc' = [spc EXCEPT ![s] = "idle"]
  /\ UNCHANGED <<state_, next_, wpc, cur, prev, order>>

(* reset(): a compare-and-exchange, which leaves a list of waiters alone.  *)
Reset ==
  /\ state_ = This
  /\ state_' = Null
  /\ UNCHANGED <<next_, wpc, spc, cur, prev, order>>
-----------------------------------------------------------------------------
Awaiter(w) == AwaitReady(w) \/ Load(w) \/ CasSucceeds(w) \/ CasFails(w)

Setter(s) ==
  \/ \E p \in {"lifo", "fifo"} : Exchange(s, p)
  \/ ReverseStep(s) \/ ResumeStep(s) \/ SetReturns(s)

EventNext == (\E w \in Waiters : Awaiter(w)) \/ (\E s \in Setters : Setter(s)) \/ Reset

(* A thread inside set() goes on; the coroutines it resumes suspend or     *)
(* finish.  Nobody has to call set().                                      *)
EventFairness ==
  \A s \in Setters : WF_evars(ReverseStep(s) \/ ResumeStep(s) \/ SetReturns(s))
-----------------------------------------------------------------------------
(* Properties.                                                             *)

Pointers == Waiters \cup {Null}

(* The state has its type; no call ever follows a pointer to the event.    *)
EventTypeOK ==
  /\ state_ \in Pointers \cup {This}
  /\ next_ \in [Waiters -> Pointers]
  /\ wpc \in [Waiters -> {"running", "await", "cas", "suspended"}]
  /\ spc \in [Setters -> {"idle", "reverse", "resume"}]
  /\ cur \in [Setters -> Pointers]
  /\ prev \in [Setters -> Pointers]
  /\ order \in [Setters -> {"lifo", "fifo"}]

(* The awaiters met by following next_ from p.                             *)
List(p) ==
  LET follow[q \in Pointers] == IF q = Null THEN <<>> ELSE <<q>> \o follow[next_[q]]
  IN  follow[p]

(* The awaiters whose coroutine waits for a set(), oldest first, and those *)
(* a set() call is going to resume, in that order.                         *)
Waiting == IF state_ = This THEN <<>> ELSE Reverse(List(state_))
Released(s) == Reverse(IF spc[s] = "reverse" THEN List(cur[s]) ELSE <<>>)
                 \o List(IF spc[s] = "reverse" THEN prev[s] ELSE cur[s])

(* The event keeps its promise: it is a flag and a line, set() takes the   *)
(* whole line at once and resumes it newest first (lifo) or oldest first   *)
(* (fifo), and everybody it takes is resumed in the end.  A coroutine that *)
(* suspends is put in one place, at the end of the line, and resumed from  *)
(* one place, although its awaiter's address comes back and the            *)
(* compare-and-exchange cannot tell.  On the way no call follows a pointer *)
(* to the event itself.                                                    *)
Promise == INSTANCE AsyncEvent WITH
  isSet <- (state_ = This), waiting <- Waiting,
  released <- [s \in Setters |-> Released(s)],
  suspended <- {w \in Waiters : wpc[w] = "suspended"}
KeepsPromise == Promise!ASpec /\ []EventTypeOK
=============================================================================

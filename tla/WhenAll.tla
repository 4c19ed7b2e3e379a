------------------------------- MODULE WhenAll -------------------------------
(***************************************************************************)
(* sync_wait(when_all(tasks)) (async/when_all.hpp, async/sync_wait.hpp): a *)
(* thread wraps the tasks, starts each on its own stack, suspends its      *)
(* coroutine on a latch that the tasks count down as they finish on any    *)
(* thread, and blocks on a condition variable until that coroutine has     *)
(* reached its final suspension.                                           *)
(*                                                                         *)
(* The order in which the range holds its tasks makes no difference and is *)
(* left open.  A task's value and exception are data, left out.            *)
(***************************************************************************)
EXTENDS Integers, FiniteSets

CONSTANT Tasks    \* the when_all_tasks

ASSUME TasksAssumption == IsFiniteSet(Tasks)

VARIABLES
  count_,         \* the latch: unfinished tasks, plus one for the awaiter
  awaiting_co_,   \* whether the latch knows the coroutine to resume
  tpc,            \* where each task is
  apc,            \* where the awaiting (sync_wait) coroutine is
  set_,           \* sync_wait_event
  mpc             \* where the calling thread is

wvars == <<count_, awaiting_co_, tpc, apc, set_, mpc>>

(* The constructor of the latch, with the tasks still suspended initially. *)
WhenAllInit ==
  /\ count_ = Cardinality(Tasks) + 1
  /\ awaiting_co_ = "null"
  /\ tpc = [t \in Tasks |-> "new"]
  /\ apc = "starting"
  /\ set_ = "clear"
  /\ mpc = "calling"
-----------------------------------------------------------------------------
(* when_all_ready_awaitable::try_await: start every task, then await.      *)

(* start(): the task runs on the calling thread until it suspends.         *)
StartTask(t) ==
  /\ apc = "starting" /\ tpc[t] = "new"
  /\ \A u \in Tasks : tpc[u] # "inline"
  /\ tpc' = [tpc EXCEPT ![t] = "inline"]
  /\ UNCHANGED <<count_, awaiting_co_, apc, set_, mpc>>

(* The wrapped awaitable suspends; another thread will go on with it.      *)
Suspend(t) ==
  /\ tpc[t] = "inline"
  /\ tpc' = [tpc EXCEPT ![t] = "away"]
  /\ UNCHANGED <<count_, awaiting_co_, apc, set_, mpc>>

(* Defect: every finished task resumes the awaiter.                        *)
NotifyEach(t) ==
  /\ tpc[t] \in {"inline", "away"}
  /\ count_' = count_ - 1
  /\ tpc' = [tpc EXCEPT ![t] = "last"]
  /\ UNCHANGED <<awaiting_co_, apc, set_, mpc>>

(* final_suspend() of a task: notify_awaitable_completed() counts down and *)
(* finds out whether it was the last.                                      *)
NotifyCompleted(t) ==
  /\ tpc[t] \in {"inline", "away"}
  /\ count_' = count_ - 1
  /\ tpc' = [tpc EXCEPT ![t] = IF count_ = 1 THEN "last" ELSE "done"]
  /\ UNCHANGED <<awaiting_co_, apc, set_, mpc>>

(* ... in which case it resumes the awaiting coroutine on its own thread.  *)
ResumeAwaiting(t) ==
  /\ tpc[t] = "last"
  /\ tpc' = [tpc EXCEPT ![t] = "done"]
  /\ apc' = "body"
  /\ UNCHANGED <<count_, awaiting_co_, set_, mpc>>

(* latch_.try_await: the handle is stored before the count goes down.      *)
TryAwaitStore ==
  /\ apc = "starting" /\ \A t \in Tasks : tpc[t] \notin {"new", "inline"}
  /\ awaiting_co_' = "caller"
  /\ apc' = "stored"
  /\ UNCHANGED <<count_, tpc, set_, mpc>>

(* Defect: off by one in the comparison.                                   *)
TryAwaitSubLate ==
  /\ apc = "stored"
  /\ count_' = count_ - 1
  /\ \/ count_ > 2 /\ apc' = "suspended" /\ mpc' = "wait"
     \/ count_ <= 2 /\ apc' = "body" /\ UNCHANGED mpc
  /\ UNCHANGED <<awaiting_co_, tpc, set_>>

(* The awaiter's own share of the count.  When tasks are left the          *)
(* coroutine stays suspended and the calling thread gets to e.wait();      *)
(* otherwise the coroutine goes on inside start().                         *)
TryAwaitSub ==
  /\ apc = "stored"
  /\ count_' = count_ - 1
  /\ \/ count_ > 1 /\ apc' = "suspended" /\ mpc' = "wait"
     \/ count_ <= 1 /\ apc' = "body" /\ UNCHANGED mpc
  /\ UNCHANGED <<awaiting_co_, tpc, set_>>
-----------------------------------------------------------------------------
(* sync_wait_event.                                                        *)

(* final_suspend() of the sync_wait coroutine: set() under the mutex.      *)
EventSet ==
  /\ apc = "body"
  /\ set_' = "set"
  /\ apc' = "notifying"
  /\ UNCHANGED <<count_, awaiting_co_, tpc, mpc>>

(* Defect: nobody is notified.                                             *)
EventForgetsNotify ==
  /\ apc = "notifying"
  /\ apc' = "final"
  /\ mpc' = IF mpc = "calling" THEN "wait" ELSE mpc
  /\ UNCHANGED <<count_, awaiting_co_, tpc, set_>>

(* ... then notify_all() without it.  A calling thread that ran the        *)
(* coroutine itself gets to e.wait() only now.                             *)
EventNotify ==
  /\ apc = "notifying"
  /\ apc' = "final"
  /\ mpc' = IF mpc \in {"calling", "blocked"} THEN "wait" ELSE mpc
  /\ UNCHANGED <<count_, awaiting_co_, tpc, set_>>

(* Defect: wait() without the predicate.                                   *)
EventWaitOnce ==
  /\ mpc = "wait"
  /\ mpc' = "returned"
  /\ UNCHANGED <<count_, awaiting_co_, tpc, apc, set_>>

(* wait(): the predicate is evaluated under the mutex.                     *)
EventWait ==
  /\ mpc = "wait"
  /\ mpc' = IF set_ = "set" THEN "returned" ELSE "blocked"
  /\ UNCHANGED <<count_, awaiting_co_, tpc, apc, set_>>

EventWakesSpuriously ==
  /\ mpc = "blocked"
  /\ mpc' = "wait"
  /\ UNCHANGED <<count_, awaiting_co_, tpc, apc, set_>>
-----------------------------------------------------------------------------
Task(t) == StartTask(t) \/ Suspend(t) \/ NotifyCompleted(t) \/ ResumeAwaiting(t)

WhenAllNext ==
  \/ \E t \in Tasks : Task(t)
  \/ TryAwaitStore \/ TryAwaitSub
  \/ EventSet \/ EventNotify \/ EventWait \/ EventWakesSpuriously

WhenAllSpec == WhenAllInit /\ [][WhenAllNext]_wvars

(* Threads run, and every awaited task finishes.                           *)
WhenAllFairness ==
  /\ \A t \in Tasks : WF_wvars(StartTask(t) \/ NotifyCompleted(t) \/ ResumeAwaiting(t))
  /\ WF_wvars(TryAwaitStore \/ TryAwaitSub)
  /\ WF_wvars(EventSet \/ EventNotify)
  /\ WF_wvars(EventWait)
-----------------------------------------------------------------------------
(* Properties.                                                             *)

(* The state has its type; the latch, a std::size_t, does not go below 0   *)
(* (a part of the inductive invariant of WhenAllProofs).                   *)
WhenAllTypeOK ==
  /\ count_ \in Nat
  /\ awaiting_co_ \in {"null", "caller"}
  /\ tpc \in [Tasks -> {"new", "inline", "away", "last", "done"}]
  /\ apc \in {"starting", "stored", "suspended", "body", "notifying", "final"}
  /\ set_ \in {"clear", "set"}
  /\ mpc \in {"calling", "wait", "blocked", "returned"}

Completed == {t \in Tasks : tpc[t] \in {"last", "done"}}

(* The awaiting coroutine goes on only when every task has finished, even  *)
(* though tasks finish while others have not been started.                 *)
ResumedAfterAll ==
  apc \in {"body", "notifying", "final"} => Completed = Tasks

(* Between the task that is last and the awaiter that finds the count      *)
(* already at one, exactly one goes on with the coroutine: a task that is  *)
(* about to resume it is alone, finds its handle stored, and finds it      *)
(* suspended.                                                              *)
ResumedOnce ==
  \A t \in Tasks : tpc[t] = "last" =>
    /\ apc = "suspended" /\ awaiting_co_ = "caller"
    /\ \A u \in Tasks : tpc[u] = "last" => u = t

(* sync_wait returns, and so destroys the tasks, only when all of them and *)
(* the coroutine that awaited them are at their final suspension: no frame *)
(* is destroyed while it runs.                                             *)
ReturnsAfterAll ==
  mpc = "returned" =>
    apc \in {"notifying", "final"} /\ \A t \in Tasks : tpc[t] = "done"

(* When the tasks finish the caller returns: no wake-up is lost, whether   *)
(* set() comes before, during or after wait().                             *)
SyncWaitReturns == <>(mpc = "returned")
=============================================================================

----------------------------- MODULE ThreadPool -----------------------------
(***************************************************************************)
(* async::thread_pool (async/thread_pool.cc, async/thread_pool.hpp): a     *)
(* deque of suspended coroutine handles, worker threads that resume them,  *)
(* a condition variable with a stop token, the counter size_ of the work   *)
(* the pool has accepted, and the shutdown protocol.                       *)
(*                                                                         *)
(* A critical section on wait_mutex_ is one step; every access to an       *)
(* atomic outside it is a step of its own.  Coroutine bodies are abstract: *)
(* a running coroutine may submit other coroutines, yield to the pool,     *)
(* suspend on something else (park), or finish.                            *)
(***************************************************************************)
EXTENDS Integers, Sequences, FiniteSets

CONSTANTS
  Workers,    \* the jthreads of thread_
  Clients,    \* the other threads that call into the pool
  Handles,    \* the coroutines
  NoHandle,   \* "no coroutine": std::coroutine_handle<>{nullptr}
  MaxBatch,   \* bound on the length of a range given to resume(range)
  MaxNulls    \* bound on the null handles in such a range

ASSUME ThreadsAssumption == Workers \cap Clients = {}
ASSUME NoHandleAssumption == NoHandle \notin Handles
ASSUME BoundsAssumption == MaxBatch \in Nat /\ MaxNulls \in Nat

VARIABLES
  queue_,     \* the handles waiting for a worker, front first
  size_,      \* the atomic counter behind size() and empty()
  shutdown_,  \* set once by shutdown()
  stopped,    \* the workers whose stop token has stop_requested()
  pc,         \* where each thread is
  task,       \* task[t]: the coroutine whose body thread t is executing
  batch,      \* batch[t]: the handles thread t is about to enqueue
  nulls,      \* nulls[t]: the null handles in that range
  co,         \* state of each coroutine
  late        \* history: handles enqueued after shutdown_ was set

vars == <<queue_, size_, shutdown_, stopped, pc, task, batch, nulls, co, late>>

Threads == Workers \cup Clients

(* A range handed to resume(): its non-null handles in order.  Where the   *)
(* null handles stand in it makes no difference to the code.               *)
Batches == UNION {[1..n -> Handles] : n \in 0..MaxBatch}

Elems(s) == {s[i] : i \in DOMAIN s}

Distinct(s) == \A i, j \in DOMAIN s : s[i] = s[j] => i = j

Goto(t, l) == pc' = [pc EXCEPT ![t] = l]

(* All blocked workers wake up and evaluate the predicate again.           *)
WakeAll == [t \in Threads |-> IF pc[t] = "blocked" THEN "lock" ELSE pc[t]]

Init ==
  /\ queue_ = <<>>
  /\ size_ = 0
  /\ shutdown_ = FALSE
  /\ stopped = {}
  /\ pc = [t \in Threads |-> IF t \in Workers THEN "start" ELSE "idle"]
  /\ task = [t \in Threads |-> NoHandle]
  /\ batch = [t \in Threads |-> <<>>]
  /\ nulls = [t \in Threads |-> 0]
  /\ co = [h \in Handles |-> "parked"]
  /\ late = {}
-----------------------------------------------------------------------------
(* Submitting work.                                                        *)

(* A thread may call into the pool between two steps of its own code, or   *)
(* from the coroutine it is executing.                                     *)
MayCall(t) == pc[t] = "run" \/ (t \in Clients /\ pc[t] = "idle")

(* A client thread starts (or continues) a coroutine on its own stack.     *)
Start(c, h) ==
  /\ pc[c] = "idle" /\ co[h] = "parked"
  /\ task' = [task EXCEPT ![c] = h]
  /\ co' = [co EXCEPT ![h] = "running"]
  /\ Goto(c, "run")
  /\ UNCHANGED <<queue_, size_, shutdown_, stopped, batch, nulls, late>>

(* co_await schedule(), first half: the running coroutine finds shutdown_  *)
(* clear.  When it is set schedule() throws inside the coroutine, which    *)
(* goes on running (or ends: RunEnd).                                      *)
Schedule(t) ==
  /\ pc[t] = "run" /\ ~shutdown_
  /\ Goto(t, "schedule")
  /\ UNCHANGED <<queue_, size_, shutdown_, stopped, task, batch, nulls, co, late>>

(* schedule(), second half: size_ counts the operation, the coroutine      *)
(* suspends, and await_suspend hands its handle to schedule_impl.          *)
ScheduleSize(t) ==
  /\ pc[t] = "schedule"
  /\ size_' = size_ + 1
  /\ batch' = [batch EXCEPT ![t] = <<task[t]>>]
  /\ co' = [co EXCEPT ![task[t]] = "pool"]
  /\ task' = [task EXCEPT ![t] = NoHandle]
  /\ Goto(t, "push")
  /\ UNCHANGED <<queue_, shutdown_, stopped, nulls, late>>

(* resume(handle): size_ is incremented whatever shutdown_ is.  A null     *)
(* handle returns at once.  The caller owns a suspended coroutine.         *)
Resume(t, h) ==
  /\ MayCall(t) /\ co[h] = "parked"
  /\ size_' = size_ + 1
  /\ batch' = [batch EXCEPT ![t] = <<h>>]
  /\ co' = [co EXCEPT ![h] = "pool"]
  /\ Goto(t, "push")
  /\ UNCHANGED <<queue_, shutdown_, stopped, task, nulls, late>>

(* resume(range), first step: size_ grows by std::size(handles), null      *)
(* handles included.                                                       *)
ResumeRange(t, b, n) ==
  /\ MayCall(t)
  /\ Distinct(b) /\ \A h \in Elems(b) : co[h] = "parked"
  /\ size_' = size_ + Len(b) + n
  /\ batch' = [batch EXCEPT ![t] = b]
  /\ nulls' = [nulls EXCEPT ![t] = n]
  /\ co' = [h \in Handles |-> IF h \in Elems(b) THEN "pool" ELSE co[h]]
  /\ Goto(t, "push")
  /\ UNCHANGED <<queue_, shutdown_, stopped, task, late>>

(* Defect: the null handles of a range are queued too.                     *)
PushNulls(t) ==
  /\ pc[t] = "push"
  /\ queue_' = queue_ \o batch[t] \o [i \in 1..nulls[t] |-> NoHandle]
  /\ late' = IF shutdown_ THEN late \cup Elems(batch[t]) ELSE late
  /\ batch' = [batch EXCEPT ![t] = <<>>]
  /\ Goto(t, IF nulls[t] > 0 THEN "uncount" ELSE "notify")
  /\ UNCHANGED <<size_, shutdown_, stopped, task, nulls, co>>

(* The critical section of schedule_impl and of resume(range): everything  *)
(* of the batch goes to the back of the queue.                             *)
Push(t) ==
  /\ pc[t] = "push"
  /\ queue_' = queue_ \o batch[t]
  /\ late' = IF shutdown_ THEN late \cup Elems(batch[t]) ELSE late
  /\ batch' = [batch EXCEPT ![t] = <<>>]
  /\ Goto(t, IF nulls[t] > 0 THEN "uncount" ELSE "notify")
  /\ UNCHANGED <<size_, shutdown_, stopped, task, nulls, co>>

(* Defect: the null handles stay counted.                                  *)
KeepNulls(t) ==
  /\ pc[t] = "uncount"
  /\ nulls' = [nulls EXCEPT ![t] = 0]
  /\ Goto(t, "notify")
  /\ UNCHANGED <<queue_, size_, shutdown_, stopped, task, batch, co, late>>

(* resume(range): size_ gives back the null handles.                       *)
UncountNulls(t) ==
  /\ pc[t] = "uncount"
  /\ size_' = size_ - nulls[t]
  /\ nulls' = [nulls EXCEPT ![t] = 0]
  /\ Goto(t, "notify")
  /\ UNCHANGED <<queue_, shutdown_, stopped, task, batch, co, late>>

(* Where a thread goes on after a call: in the coroutine it executes, in   *)
(* the executor loop if that coroutine suspended, or in its own code.      *)
After(t) == IF task[t] # NoHandle THEN "run"
            ELSE IF t \in Workers THEN "finish" ELSE "idle"

(* Defect: nobody is notified.                                             *)
NotifyNone(t) ==
  /\ pc[t] = "notify"
  /\ Goto(t, After(t))
  /\ UNCHANGED <<queue_, size_, shutdown_, stopped, task, batch, nulls, co, late>>

(* wait_cond_.notify_one(), outside the lock and once for a whole range.   *)
NotifyOne(t) ==
  /\ pc[t] = "notify"
  /\ \/ \E w \in Workers :
          /\ pc[w] = "blocked"
          /\ pc' = [pc EXCEPT ![t] = After(t), ![w] = "lock"]
     \/ /\ \A w \in Workers : pc[w] # "blocked"
        /\ Goto(t, After(t))
  /\ UNCHANGED <<queue_, size_, shutdown_, stopped, task, batch, nulls, co, late>>

(* The body gives up the thread: it finishes, or it suspends on something  *)
(* outside the pool, where some other thread will find it.                 *)
RunEnd(t) ==
  /\ pc[t] = "run"
  /\ \E s \in {"done", "parked"} : co' = [co EXCEPT ![task[t]] = s]
  /\ task' = [task EXCEPT ![t] = NoHandle]
  /\ Goto(t, IF t \in Workers THEN "finish" ELSE "idle")
  /\ UNCHANGED <<queue_, size_, shutdown_, stopped, batch, nulls, late>>
-----------------------------------------------------------------------------
(* The worker threads: executor().                                         *)

(* The test of the outer while before the loop is entered: a worker that   *)
(* gets here after request_stop() never looks at the queue.                *)
Enter(w) ==
  /\ pc[w] = "start"
  /\ Goto(w, IF w \in stopped THEN "skipped" ELSE "lock")
  /\ UNCHANGED <<queue_, size_, shutdown_, stopped, task, batch, nulls, co, late>>

(* Defect: the front is read and not popped.                               *)
Peek(w) ==
  /\ pc[w] = "lock" /\ queue_ # <<>>
  /\ task' = [task EXCEPT ![w] = Head(queue_)]
  /\ co' = [co EXCEPT ![Head(queue_)] = "running"]
  /\ Goto(w, "run")
  /\ UNCHANGED <<queue_, size_, shutdown_, stopped, batch, nulls, late>>

(* The critical section with a handle in the queue: the wait returns, the  *)
(* front is popped and, the lock released, resumed.                        *)
Pop(w) ==
  /\ pc[w] = "lock" /\ queue_ # <<>>
  /\ task' = [task EXCEPT ![w] = Head(queue_)]
  /\ co' = [co EXCEPT ![Head(queue_)] = "running"]
  /\ queue_' = Tail(queue_)
  /\ Goto(w, "run")
  /\ UNCHANGED <<size_, shutdown_, stopped, batch, nulls, late>>

(* Defect: a stop request ends the worker whatever the queue holds.        *)
WaitOrStop(w) ==
  /\ pc[w] = "lock" /\ (queue_ = <<>> \/ w \in stopped)
  /\ Goto(w, IF w \in stopped THEN "exited" ELSE "blocked")
  /\ UNCHANGED <<queue_, size_, shutdown_, stopped, task, batch, nulls, co, late>>

(* The critical section with an empty queue: the interruptible wait blocks *)
(* until a notification, and returns at once when a stop is requested.     *)
(* The token never goes back, so after the break the outer test ends the   *)
(* thread.                                                                 *)
Wait(w) ==
  /\ pc[w] = "lock" /\ queue_ = <<>>
  /\ Goto(w, IF w \in stopped THEN "exited" ELSE "blocked")
  /\ UNCHANGED <<queue_, size_, shutdown_, stopped, task, batch, nulls, co, late>>

(* A condition variable may wake a thread for no reason.                   *)
SpuriousWakeup(w) ==
  /\ pc[w] = "blocked"
  /\ Goto(w, "lock")
  /\ UNCHANGED <<queue_, size_, shutdown_, stopped, task, batch, nulls, co, late>>

(* handle.resume() came back: size_ forgets the handle.                    *)
UncountRun(w) ==
  /\ pc[w] = "finish"
  /\ size_' = size_ - 1
  /\ Goto(w, "lock")
  /\ UNCHANGED <<queue_, shutdown_, stopped, task, batch, nulls, co, late>>
-----------------------------------------------------------------------------
(* shutdown(): the first caller stops and joins every worker, a later one  *)
(* returns at once.  A coroutine that calls it on a worker would join      *)
(* itself; the model leaves that caller error out.                         *)

Shutdown(c) ==
  /\ pc[c] = "idle" /\ ~shutdown_
  /\ shutdown_' = TRUE
  /\ Goto(c, "stopping")
  /\ UNCHANGED <<queue_, size_, stopped, task, batch, nulls, co, late>>

(* Defect: the wait does not listen to the stop token.                     *)
RequestStopUnheard(c, w) ==
  /\ pc[c] = "stopping" /\ w \notin stopped
  /\ stopped' = stopped \cup {w}
  /\ Goto(c, IF Workers \ stopped = {w} THEN "joining" ELSE "stopping")
  /\ UNCHANGED <<queue_, size_, shutdown_, task, batch, nulls, co, late>>

(* request_stop() of a worker blocked in the wait runs the callback that   *)
(* the wait registered, which notifies all waiters of wait_cond_.          *)
RequestStop(c, w) ==
  /\ pc[c] = "stopping" /\ w \notin stopped
  /\ stopped' = stopped \cup {w}
  /\ LET woken == IF pc[w] = "blocked" THEN WakeAll ELSE pc
     IN  pc' = [woken EXCEPT ![c] = IF Workers \ stopped = {w}
                                    THEN "joining" ELSE "stopping"]
  /\ UNCHANGED <<queue_, size_, shutdown_, task, batch, nulls, co, late>>

Terminated == \A w \in Workers : pc[w] \in {"skipped", "exited"}

(* join() of every worker.                                                 *)
Join(c) ==
  /\ pc[c] = "joining" /\ Terminated
  /\ Goto(c, "idle")
  /\ UNCHANGED <<queue_, size_, shutdown_, stopped, task, batch, nulls, co, late>>
-----------------------------------------------------------------------------
Caller(t) ==
  \/ Schedule(t) \/ ScheduleSize(t) \/ Push(t) \/ UncountNulls(t) \/ NotifyOne(t)
  \/ RunEnd(t)
  \/ \E h \in Handles : Resume(t, h)
  \/ \E b \in Batches, n \in 0..MaxNulls : ResumeRange(t, b, n)

Client(c) ==
  \/ \E h \in Handles : Start(c, h)
  \/ Shutdown(c) \/ Join(c)
  \/ \E w \in Workers : RequestStop(c, w)

Worker(w) == Enter(w) \/ Pop(w) \/ Wait(w) \/ SpuriousWakeup(w) \/ UncountRun(w)

Next ==
  \/ \E t \in Threads : Caller(t)
  \/ \E c \in Clients : Client(c)
  \/ \E w \in Workers : Worker(w)

Spec == Init /\ [][Next]_vars

(* The scheduler runs every thread that is not blocked, a thread waiting   *)
(* for wait_mutex_ gets it in the end, and every run of a coroutine body   *)
(* ends: it yields, parks or finishes, if need be after calls into the     *)
(* pool.  Nobody has to submit work or to shut the pool down.              *)
Fairness ==
  /\ \A t \in Threads :
       /\ WF_vars(ScheduleSize(t) \/ Push(t) \/ UncountNulls(t) \/ NotifyOne(t))
       /\ SF_vars(Schedule(t) \/ RunEnd(t))
  /\ \A w \in Workers : WF_vars(Enter(w) \/ Pop(w) \/ Wait(w) \/ UncountRun(w))
  /\ \A c \in Clients : WF_vars(Join(c) \/ \E w \in Workers : RequestStop(c, w))

FairSpec == Spec /\ Fairness
-----------------------------------------------------------------------------
(* Properties.                                                             *)

ClientLabels == {"idle", "stopping", "joining"}
WorkerLabels == {"start", "lock", "blocked", "finish", "skipped", "exited"}
CallLabels == {"run", "schedule", "push", "uncount", "notify"}

(* The state has its type: each thread is at a label of its own code and   *)
(* the queue holds no null handle, which executor() would resume.          *)
TypeOK ==
  /\ queue_ \in Seq(Handles)
  /\ size_ \in Int
  /\ shutdown_ \in BOOLEAN
  /\ stopped \subseteq Workers
  /\ pc \in [Threads -> ClientLabels \cup WorkerLabels \cup CallLabels]
  /\ \A w \in Workers : pc[w] \in WorkerLabels \cup CallLabels
  /\ \A c \in Clients : pc[c] \in ClientLabels \cup CallLabels
  /\ task \in [Threads -> Handles \cup {NoHandle}]
  /\ batch \in [Threads -> Seq(Handles)]
  /\ nulls \in [Threads -> Nat]
  /\ co \in [Handles -> {"parked", "pool", "running", "done"}]
  /\ late \subseteq Handles

(* Each queued handle is queued once, and its coroutine is suspended.      *)
QueueOwned == Distinct(queue_) /\ \A h \in Elems(queue_) : co[h] = "pool"

(* So are the handles on their way into the queue, which are not in it yet *)
(* and which no two threads share.                                         *)
BatchOwned ==
  /\ \A t \in Threads :
       /\ Distinct(batch[t])
       /\ \A h \in Elems(batch[t]) : co[h] = "pool" /\ h \notin Elems(queue_)
  /\ \A t, u \in Threads : t # u => Elems(batch[t]) \cap Elems(batch[u]) = {}

(* A coroutine that runs runs on one thread.                               *)
TaskOwned ==
  \A t \in Threads : task[t] # NoHandle =>
    /\ co[task[t]] = "running"
    /\ \A u \in Threads : u # t => task[u] # task[t]

(* A handle given to the pool is in one place only (once in the queue, or  *)
(* in the hands of one submitting thread), the coroutine behind it is      *)
(* suspended, and a coroutine that runs runs on one thread: whatever the   *)
(* interleaving of schedule, resume and executor, handle.resume() at       *)
(* thread_pool.cc:79 never meets a coroutine that is running or finished,  *)
(* not even one that yielded and is picked up by a second worker before    *)
(* the first has left resume().                                            *)
ExclusiveResume == QueueOwned /\ BatchOwned /\ TaskOwned

(* Work that size_ has been told of and no longer belongs to the queue or  *)
(* does not yet: handles on their way in, and workers with a popped handle *)
InFlight == UNION {{t} \X (1 .. Len(batch[t]) + nulls[t]) : t \in Threads}
Busy == {w \in Workers : pc[w] \in CallLabels \cup {"finish"}}

(* size_ is exact at every instant: it counts the queued handles, those    *)
(* still being submitted (null ones until they are given back) and those a *)
(* worker is executing.  empty() is therefore true only when the pool has  *)
(* nothing left to do, which is what a caller that polls it relies on.     *)
SizeAccounting ==
  size_ = Len(queue_) + Cardinality(InFlight) + Cardinality(Busy)

(* notify_one is called after the lock is released and once per range, yet *)
(* no wake-up is lost: when handles are queued while a worker sleeps, some *)
(* thread is still going to notify or some worker is awake inside the loop *)
(* and will look at the queue again.                                       *)
NoLostWakeup ==
  (queue_ # <<>> /\ \E w \in Workers : pc[w] = "blocked") =>
    \/ \E t \in Threads : pc[t] \in {"uncount", "notify"}
    \/ \E w \in Workers : pc[w] \in CallLabels \cup {"lock", "finish"}

(* A stop drains the queue: once one worker has left its loop, every       *)
(* handle still queued was enqueued after shutdown() began (it passed the  *)
(* test in schedule() before, or came by resume(), which does not test).   *)
(* A worker that never entered the loop ("skipped") gives no such promise. *)
DrainBeforeExit ==
  (\E w \in Workers : pc[w] = "exited") => Elems(queue_) \subseteq late

(* A queued handle is resumed in the end, unless every worker has gone.    *)
QueuedIsResumed ==
  \A h \in Handles : h \in Elems(queue_) ~> (h \notin Elems(queue_) \/ Terminated)

(* shutdown() returns, provided the submissions stop: workers keep         *)
(* draining the queue while other threads feed it through resume().        *)
ShutdownReturns ==
  <>[](\A t \in Threads : pc[t] # "push") =>
    \A c \in Clients : pc[c] = "stopping" ~> pc[c] = "idle"
=============================================================================

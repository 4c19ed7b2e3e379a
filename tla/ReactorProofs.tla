---------------------------- MODULE ReactorProofs ----------------------------
(* The loop of Reactor runs no task twice and never sleeps on work, for    *)
(* any number of threads, tasks and fds.                                   *)
EXTENDS Reactor, FiniteSetTheorems, TLAPS

(* The eventfd is readable, or a thread is about to write it.              *)
Awake == wakefd = "yes" \/ \E o \in Others : opc[o] = "wakeup"

(* From the test of stop_flag_ to epoll_wait.                              *)
BeforePoll == {"exec", "task", "clear", "poll"}

(* wakeup() writes the eventfd only while looping_ is set, so looping_     *)
(* must be set wherever the loop may still reach epoll_wait; and a stop    *)
(* must keep the loop awake from the test of stop_flag_ on, not only once  *)
(* it has arrived at epoll_wait.                                           *)
StaysAwake ==
  /\ opc \in [Others -> {"idle", "wakeup", "stop"}]
  /\ lpc \in BeforePoll \cup {"enter", "while", "apply"} => looping_ = "yes"
  /\ lpc \in BeforePoll /\ stop_flag_ = "yes" => Awake
  /\ lpc = "poll" /\ pending_tasks_ # <<>> => Awake

(* The calls of other threads: whatever one of them queues or asks for, it *)
(* is then about to write the eventfd, or it has written it.               *)
LEMMA OtherStaysAwake ==
  ASSUME StaysAwake, NEW o \in Others, Other(o)
  PROVE  StaysAwake'
<1>1. CASE Wakeup(o)
  BY <1>1 DEF StaysAwake, Awake, BeforePoll, Wakeup, WriteWakeFd, taskVars, fdVars, flagVars
<1>2. CASE StopTest(o)
  <2>1. \A u \in Others : opc[u] = "wakeup" => opc'[u] = "wakeup"
    BY <1>2 DEF StaysAwake, StopTest
  <2>2. QED
    BY <1>2, <2>1 DEF StaysAwake, Awake, BeforePoll, StopTest, taskVars, fdVars, flagVars
<1>3. CASE Stop(o)
  BY <1>3 DEF StaysAwake, Awake, BeforePoll, Stop, taskVars
<1>4. ASSUME NEW k \in Tasks, AddTask(o, k) PROVE StaysAwake'
  BY <1>4 DEF StaysAwake, Awake, BeforePoll, AddTask, flagVars
<1>5. ASSUME NEW fd \in Fds, DelEvent(o, fd) PROVE StaysAwake'
  BY <1>5 DEF StaysAwake, Awake, BeforePoll, DelEvent, flagVars, taskVars
<1>6. ASSUME NEW fd \in Fds, NEW m \in Masks, AddEvent(o, fd, m) PROVE StaysAwake'
  BY <1>6 DEF StaysAwake, Awake, BeforePoll, AddEvent, flagVars, taskVars
<1>7. QED
  BY <1>1, <1>2, <1>3, <1>4, <1>5, <1>6 DEF Other

(* The steps of the loop: it goes past the test of stop_flag_ only when no *)
(* stop is asked for, and arrives at epoll_wait with an empty queue.       *)
LEMMA LoopStaysAwake ==
  ASSUME StaysAwake, Loop
  PROVE  StaysAwake'
<1>1. CASE Enter
  BY <1>1 DEF StaysAwake, BeforePoll, Enter
<1>2. CASE ClearStop
  BY <1>2 DEF StaysAwake, BeforePoll, ClearStop
<1>3. CASE While
  BY <1>3 DEF StaysAwake, BeforePoll, While
<1>4. CASE Exec
  BY <1>4 DEF StaysAwake, Awake, BeforePoll, Exec, flagVars
<1>5. CASE TaskReturns
  BY <1>5 DEF StaysAwake, Awake, BeforePoll, TaskReturns, flagVars
<1>6. CASE Clear
  BY <1>6 DEF StaysAwake, Awake, BeforePoll, Clear, flagVars
<1>7. CASE PollFails
  BY <1>7 DEF StaysAwake, BeforePoll, PollFails, flagVars
<1>8. CASE PollAny
  <2>1. lpc = "poll" /\ lpc' = "apply" /\ UNCHANGED <<flagVars, opc>>
    BY <1>8, Zenon DEF PollAny, Poll
  <2>2. QED
    BY <2>1 DEF StaysAwake, BeforePoll, flagVars
<1>9. CASE ApplyAny
  <2>1. lpc = "apply" /\ lpc' = "while" /\ UNCHANGED <<flagVars, opc>>
    BY <1>9, Zenon DEF ApplyAny, Apply
  <2>2. QED
    BY <2>1 DEF StaysAwake, BeforePoll, flagVars
<1>10. QED
  BY <1>1, <1>2, <1>3, <1>4, <1>5, <1>6, <1>7, <1>8, <1>9 DEF Loop

(* What the loop thread calls from a task: a stop writes the eventfd.      *)
LEMMA OwnStaysAwake ==
  ASSUME StaysAwake, Own
  PROVE  StaysAwake'
<1>1. CASE OwnStop
  BY <1>1 DEF StaysAwake, Awake, BeforePoll, OwnStop, WriteWakeFd
<1>2. ASSUME NEW k \in Tasks, OwnAddTask(k) PROVE StaysAwake'
  BY <1>2 DEF StaysAwake, Awake, BeforePoll, OwnAddTask, OnLoopThread, WriteWakeFd, flagVars
<1>3. ASSUME NEW fd \in Fds, OwnDelEvent(fd) PROVE StaysAwake'
  BY <1>3 DEF StaysAwake, Awake, BeforePoll, OwnDelEvent, OnLoopThread, taskVars, flagVars
<1>4. ASSUME NEW fd \in Fds, NEW m \in Masks, NEW ok \in BOOLEAN, OwnAddEvent(fd, m, ok)
      PROVE  StaysAwake'
  BY <1>4 DEF StaysAwake, Awake, BeforePoll, OwnAddEvent, OnLoopThread, taskVars, flagVars
<1>5. QED
  BY <1>1, <1>2, <1>3, <1>4 DEF Own

(* The loop is never about to wait in epoll_wait with a task queued or a   *)
(* stop asked for unless the eventfd is readable or about to be written.   *)
THEOREM NeverSleepsOnWork == Spec => []NoSleepOnWork
<1>1. Init => StaysAwake
  BY DEF Init, StaysAwake, BeforePoll
<1>2. StaysAwake /\ [Next]_vars => StaysAwake'
  <2> SUFFICES ASSUME StaysAwake, [Next]_vars PROVE StaysAwake'
    OBVIOUS
  <2>1. CASE Crash
    BY <2>1 DEF StaysAwake, BeforePoll, Crash
  <2>2. CASE UNCHANGED vars
    BY <2>2 DEF StaysAwake, Awake, BeforePoll, vars, taskVars, flagVars
  <2>3. ASSUME NEW fd \in Fds, Close(fd) PROVE StaysAwake'
    BY <2>3 DEF StaysAwake, Awake, BeforePoll, Close, taskVars, flagVars
  <2>4. QED
    BY <2>1, <2>2, <2>3, OtherStaysAwake, LoopStaysAwake, OwnStaysAwake DEF Next
<1>3. StaysAwake => NoSleepOnWork
  BY DEF StaysAwake, Awake, BeforePoll, NoSleepOnWork
<1>4. QED
  BY <1>1, <1>2, <1>3, PTL DEF Spec
-----------------------------------------------------------------------------
Callback == Fds \X {"read", "write"}

(* A queued task has been given and is queued once; of the tasks the loop  *)
(* has run only those before its index are still in the queue, and none    *)
(* once the queue has been cleared.                                        *)
Walked ==
  /\ pending_tasks_ \in Seq(Tasks \cup Callback) /\ i \in Nat \ {0}
  /\ \A p \in DOMAIN pending_tasks_ : pending_tasks_[p] \in Tasks => pending_tasks_[p] \in given
  /\ \A p, q \in DOMAIN pending_tasks_ :
       pending_tasks_[p] = pending_tasks_[q] /\ pending_tasks_[p] \in Tasks => p = q
  /\ ran \in Seq(Tasks) /\ IsInjective(ran)
  /\ \A r \in DOMAIN ran : ran[r] \in given
  /\ \A p \in DOMAIN pending_tasks_, r \in DOMAIN ran : pending_tasks_[p] = ran[r] =>
       lpc \in {"clear", "crashed"} \/ (lpc \in {"exec", "task"} /\ p < i)

(* Other threads and tasks push behind the index, and never a task twice.  *)
LEMMA PushIsBehind ==
  ASSUME Walked, NEW k \in Tasks, Push(k), UNCHANGED lpc
  PROVE  Walked'
<1>1. /\ DOMAIN pending_tasks_' = 1..Len(pending_tasks_) + 1
      /\ \A p \in 1..Len(pending_tasks_) : pending_tasks_'[p] = pending_tasks_[p]
      /\ pending_tasks_'[Len(pending_tasks_) + 1] = k
      /\ pending_tasks_' \in Seq(Tasks \cup Callback)
  BY DEF Walked, Push
<1>2. k \notin given /\ given' = given \cup {k} /\ ran' = ran /\ i' = i
  BY DEF Push
<1>3. /\ DOMAIN pending_tasks_ = 1..Len(pending_tasks_) /\ Len(pending_tasks_) \in Nat
      /\ \A p \in DOMAIN pending_tasks_ : pending_tasks_[p] # k
      /\ \A r \in DOMAIN ran : ran[r] # k
  BY <1>2 DEF Walked
<1>4. \A p, q \in DOMAIN pending_tasks_' :
        pending_tasks_'[p] = pending_tasks_'[q] /\ pending_tasks_'[p] \in Tasks => p = q
  BY <1>1, <1>3 DEF Walked
<1>5. \A p \in DOMAIN pending_tasks_' :
        pending_tasks_'[p] \in Tasks => pending_tasks_'[p] \in given'
  BY <1>1, <1>2, <1>3 DEF Walked
<1>6. \A p \in DOMAIN pending_tasks_', r \in DOMAIN ran : pending_tasks_'[p] = ran[r] =>
        lpc \in {"clear", "crashed"} \/ (lpc \in {"exec", "task"} /\ p < i)
  BY <1>1, <1>3 DEF Walked
<1>7. QED
  BY <1>1, <1>2, <1>4, <1>5, <1>6 DEF Walked

(* One look: the task at the index has not run, since what has run lies    *)
(* before it and no task is queued twice.                                  *)
LEMMA ExecRunsNew ==
  ASSUME Walked, Exec
  PROVE  Walked'
<1>1. CASE i > Len(pending_tasks_) /\ lpc' = "clear" /\ UNCHANGED <<i, ran>>
  BY <1>1 DEF Walked, Exec, IsInjective
<1>2. CASE /\ i <= Len(pending_tasks_) /\ i' = i + 1 /\ lpc' = "task"
           /\ ran' = IF pending_tasks_[i] \in Tasks
                     THEN Append(ran, pending_tasks_[i]) ELSE ran
  <2>1. CASE pending_tasks_[i] \notin Tasks
    BY <1>2, <2>1 DEF Walked, Exec, IsInjective
  <2>2. CASE pending_tasks_[i] \in Tasks /\ i \in DOMAIN pending_tasks_
    <3>1. /\ ran' \in Seq(Tasks) /\ DOMAIN ran' = 1..Len(ran) + 1
          /\ \A r \in 1..Len(ran) : ran'[r] = ran[r]
          /\ ran'[Len(ran) + 1] = pending_tasks_[i]
      BY <1>2, <2>2 DEF Walked
    <3>2. \A r \in 1..Len(ran) : ran[r] # pending_tasks_[i]
      BY <2>2 DEF Walked, Exec
    <3>3. lpc = "exec" /\ UNCHANGED <<pending_tasks_, given>>
      BY DEF Exec
    <3>4. IsInjective(ran')
      BY <3>1, <3>2 DEF Walked, IsInjective
    <3>5. \A r \in DOMAIN ran' : ran'[r] \in given'
      BY <2>2, <3>1, <3>3 DEF Walked
    <3>6. ASSUME NEW p \in DOMAIN pending_tasks_, NEW r \in DOMAIN ran',
                 pending_tasks_[p] = ran'[r]
          PROVE  p < i'
      BY <1>2, <2>2, <3>1, <3>3, <3>6 DEF Walked
    <3>7. QED
      BY <1>2, <3>1, <3>3, <3>4, <3>5, <3>6 DEF Walked
  <2>3. QED
    BY <1>2, <2>1, <2>2 DEF Walked
<1>3. QED
  BY <1>1, <1>2 DEF Exec

(* What epoll reports is queued behind, and is none of the tasks.          *)
LEMMA PollQueuesCallbacks ==
  ASSUME Walked, PollAny
  PROVE  Walked'
<1>1. PICK events \in Reports : Poll(events)
  BY Zenon DEF PollAny
<1>2. /\ lpc = "poll" /\ lpc' = "apply" /\ UNCHANGED <<i, given, ran>>
      /\ \E q \in Callbacks(events) : pending_tasks_' = pending_tasks_ \o q
  BY <1>1, Zenon DEF Poll
<1>3. PICK q \in Callbacks(events) : pending_tasks_' = pending_tasks_ \o q
  BY <1>2
<1>4. UNION {{fd} \X events[fd] : fd \in DOMAIN events} \subseteq Callback
  BY DEF Reports, Callback
<1>5. Cardinality(Fds) \in Nat
  BY FdsAssumption, FS_CardinalityType
<1>6. q \in Seq(Callback)
  BY <1>4, <1>5 DEF Callbacks, SeqOf
<1>7. Tasks \cap Callback = {}
  BY FdsAssumption DEF Callback
<1>8. /\ pending_tasks_' \in Seq(Tasks \cup Callback)
      /\ DOMAIN pending_tasks_' = 1..Len(pending_tasks_) + Len(q)
      /\ \A p \in 1..Len(pending_tasks_) : pending_tasks_'[p] = pending_tasks_[p]
      /\ \A p \in Len(pending_tasks_) + 1..Len(pending_tasks_) + Len(q) :
           pending_tasks_'[p] \in Callback
  BY <1>3, <1>6 DEF Walked
<1>9. \A p \in DOMAIN pending_tasks_' : pending_tasks_'[p] \in Tasks =>
        p \in DOMAIN pending_tasks_ /\ pending_tasks_'[p] = pending_tasks_[p]
  BY <1>6, <1>7, <1>8 DEF Walked
<1>10. \A r \in DOMAIN ran : ran[r] \in Tasks
  BY DEF Walked
<1>11. QED
  BY <1>2, <1>8, <1>9, <1>10 DEF Walked

(* No task runs twice, although the queue is walked by index and cleared   *)
(* without mutex_ while other threads and the tasks push to it.            *)
THEOREM TasksRunOnce == Spec => []RunsOnce
<1>1. Init => Walked
  BY DEF Init, Walked, IsInjective
<1>2. Walked /\ [Next]_vars => Walked'
  <2> SUFFICES ASSUME Walked, [Next]_vars PROVE Walked'
    OBVIOUS
  <2>1. ASSUME UNCHANGED taskVars,
               \/ lpc' \in {lpc, "crashed"}
               \/ lpc = "task" /\ lpc' = "exec"
               \/ lpc \notin {"exec", "task", "clear", "crashed"}
        PROVE  Walked'
    BY <2>1 DEF Walked, taskVars, IsInjective
  <2>2. CASE Loop /\ lpc # "crashed"
    <3>1. CASE Exec
      BY <3>1, ExecRunsNew
    <3>2. CASE PollAny
      BY <3>2, PollQueuesCallbacks
    <3>3. CASE Clear
      BY <3>3 DEF Walked, Clear, IsInjective
    <3>4. CASE While
      BY <3>4 DEF Walked, While, IsInjective
    <3>5. CASE Enter \/ ClearStop \/ TaskReturns \/ PollFails
      BY <3>5, <2>1, <2>2 DEF Enter, ClearStop, TaskReturns, PollFails, taskVars
    <3>6. CASE ApplyAny
      <4>1. lpc = "apply" /\ UNCHANGED taskVars
        BY <3>6, Zenon DEF ApplyAny, Apply
      <4>2. QED
        BY <4>1, <2>1
    <3>7. QED
      BY <2>2, <3>1, <3>2, <3>3, <3>4, <3>5, <3>6 DEF Loop
  <2>3. CASE Own
    BY <2>1, <2>3, PushIsBehind
    DEF Own, OwnStop, OwnAddTask, OwnDelEvent, OwnAddEvent, taskVars
  <2>4. ASSUME NEW o \in Others, Other(o) PROVE Walked'
    BY <2>1, <2>4, PushIsBehind
    DEF Other, Wakeup, StopTest, Stop, AddTask, DelEvent, AddEvent, taskVars
  <2>5. CASE Crash \/ UNCHANGED vars
    BY <2>1, <2>5 DEF Crash, vars, taskVars
  <2>6. ASSUME NEW fd \in Fds, Close(fd) PROVE Walked'
    BY <2>1, <2>6 DEF Close
  <2>7. QED
    BY <2>2, <2>3, <2>4, <2>5, <2>6 DEF Next
<1>3. Walked => RunsOnce
  BY DEF Walked, RunsOnce
<1>4. QED
  BY <1>1, <1>2, <1>3, PTL DEF Spec
=============================================================================

------------------------------- MODULE Reactor -------------------------------
(***************************************************************************)
(* net::Reactor (net/reactor.cc, net/reactor.h): one loop thread over      *)
(* epoll, and other threads that hand it tasks and fds through queues      *)
(* under mutex_ and wake it with an eventfd.                               *)
(*                                                                         *)
(* A critical section on mutex_ is one step.  The loop runs and clears     *)
(* pending_tasks_ without the mutex: each look at its size and the clear   *)
(* are steps.  looping_ and stop_flag_ are plain bools that the compiler   *)
(* cannot keep in registers across the calls of the loop.                  *)
(***************************************************************************)
EXTENDS Integers, Sequences, FiniteSets, SequencesExt

CONSTANTS
  Others,     \* threads other than the loop thread
  Tasks,      \* tasks, each given to addTask at most once
  Fds,        \* file descriptors
  Masks,      \* sets of the events "read" and "write" to listen to
  WakeFd      \* the eventfd

ASSUME FdsAssumption ==
  /\ IsFiniteSet(Fds) /\ WakeFd \notin Fds
  /\ Masks \subseteq SUBSET {"read", "write"}
  /\ Tasks \cap (Fds \X {"read", "write"}) = {}   \* a callback is no other task

VARIABLES
  pending_tasks_,
  pending_add_fds_,  \* a function from some of Fds to masks
  pending_del_fds_,
  fds_,              \* the fds the loop thinks it has registered
  epoll,             \* the kernel's registrations: a function to masks
  wakefd,            \* "yes" when the eventfd is readable
  looping_, stop_flag_,
  lpc,               \* where the loop thread is
  i,                 \* its index into pending_tasks_
  opc,               \* where each other thread is
  given, ran,        \* history: the tasks given, and run
  ub,                \* history: "yes" once fds_.erase(end()) was executed
  stale              \* history: fds closed while registered, not deleted since

taskVars == <<pending_tasks_, i, given, ran>>
fdVars == <<pending_add_fds_, pending_del_fds_, fds_, epoll, ub, stale>>
flagVars == <<looping_, stop_flag_>>
vars == <<taskVars, fdVars, flagVars, wakefd, lpc, opc>>

Empty == <<>>      \* the empty function
Drop(f, x) == [y \in DOMAIN f \ {x} |-> f[y]]
Put(f, x, v) == [y \in DOMAIN f \cup {x} |-> IF y = x THEN v ELSE f[y]]

Init ==
  /\ pending_tasks_ = <<>> /\ i = 1
  /\ pending_add_fds_ = Empty /\ pending_del_fds_ = <<>>
  /\ fds_ = <<WakeFd>> /\ epoll = (Put(Empty, WakeFd, {}))
  /\ wakefd = "no"
  /\ looping_ = "no" /\ stop_flag_ = "no"
  /\ lpc = "out"
  /\ opc = [o \in Others |-> "idle"]
  /\ given = {} /\ ran = <<>> /\ ub = "no" /\ stale = {}
-----------------------------------------------------------------------------
(* The registrations, changed by the loop thread only.                     *)

(* Defect: a failed epoll_ctl is remembered as a success.                  *)
AddEventIgnoringErrors(r, fd, mask, ok) ==
  [fds |-> IF fd \in Range(r.fds) THEN r.fds ELSE Append(r.fds, fd),
   ep  |-> IF ok THEN Put(r.ep, fd, mask) ELSE r.ep,
   ub  |-> r.ub]

(* addEventInLoopThread: EPOLL_CTL_MOD for a known fd, EPOLL_CTL_ADD for   *)
(* another; ok tells whether epoll_ctl succeeds, which an ADD of a         *)
(* registered fd and a MOD of an unregistered one never do.                *)
AddEventInLoopThread(r, fd, mask, ok) ==
  LET known == fd \in Range(r.fds)
  IN  IF ok /\ known = (fd \in DOMAIN r.ep)
      THEN [r EXCEPT !.ep = Put(r.ep, fd, mask),
                     !.fds = IF known THEN @ ELSE Append(@, fd)]
      ELSE r

(* delEventInLoopThread: an unknown fd is logged, and then erased all the  *)
(* same: erase(end()), undefined, which takes the last element away if the *)
(* process survives it (see Crash).                                        *)
DelEventInLoopThread(r, fd) ==
  IF fd \in Range(r.fds)
  THEN [r EXCEPT !.ep = Drop(@, fd), !.fds = SelectSeq(@, LAMBDA x : x # fd)]
  ELSE [fds |-> IF r.fds = <<>> THEN r.fds ELSE Front(r.fds), ep |-> Drop(r.ep, fd),
        ub |-> "yes"]

Registered == [fds |-> fds_, ep |-> epoll, ub |-> ub]
Register(r) ==
  fds_' = r.fds /\ epoll' = r.ep /\ ub' = r.ub /\ stale' = stale \cap Range(r.fds)
-----------------------------------------------------------------------------
(* The other threads.  Each call is a critical section, then wakeup().     *)

Push(k) ==
  /\ k \notin given
  /\ given' = given \cup {k}
  /\ pending_tasks_' = Append(pending_tasks_, k)
  /\ UNCHANGED <<i, ran>>

(* addTask; also addCoroutine, whose task resumes a coroutine.             *)
AddTask(o, k) ==
  /\ opc[o] = "idle"
  /\ Push(k)
  /\ opc' = [opc EXCEPT ![o] = "wakeup"]
  /\ UNCHANGED <<fdVars, flagVars, wakefd, lpc>>

(* addEvent: std::map::insert keeps an entry that is there already.        *)
AddEvent(o, fd, mask) ==
  /\ opc[o] = "idle"
  /\ pending_add_fds_' = IF fd \in DOMAIN pending_add_fds_ THEN pending_add_fds_
                         ELSE Put(pending_add_fds_, fd, mask)
  /\ opc' = [opc EXCEPT ![o] = "wakeup"]
  /\ UNCHANGED <<taskVars, pending_del_fds_, fds_, epoll, ub, stale, flagVars, wakefd, lpc>>

(* delEvent; nothing keeps a caller from deleting an fd twice.  The bound  *)
(* on the queue is that no fd is in it twice.                              *)
DelEvent(o, fd) ==
  /\ opc[o] = "idle" /\ fd \notin Range(pending_del_fds_)
  /\ pending_del_fds_' = Append(pending_del_fds_, fd)
  /\ opc' = [opc EXCEPT ![o] = "wakeup"]
  /\ UNCHANGED <<taskVars, pending_add_fds_, fds_, epoll, ub, stale, flagVars, wakefd, lpc>>

(* stop(): nothing unless the loop runs and is not stopped yet.            *)
StopTest(o) ==
  /\ opc[o] = "idle" /\ stop_flag_ = "no" /\ looping_ = "yes"
  /\ opc' = [opc EXCEPT ![o] = "stop"]
  /\ UNCHANGED <<taskVars, fdVars, flagVars, wakefd, lpc>>

Stop(o) ==
  /\ opc[o] = "stop"
  /\ stop_flag_' = "yes"
  /\ opc' = [opc EXCEPT ![o] = "wakeup"]
  /\ UNCHANGED <<taskVars, fdVars, looping_, wakefd, lpc>>

(* Defect: the eventfd is written only when the loop does not run.         *)
WakeupInverted(o) ==
  /\ opc[o] = "wakeup"
  /\ wakefd' = IF looping_ = "no" THEN "yes" ELSE wakefd
  /\ opc' = [opc EXCEPT ![o] = "idle"]
  /\ UNCHANGED <<taskVars, fdVars, flagVars, lpc>>

(* wakeup(): nothing unless the loop runs.                                 *)
WriteWakeFd == wakefd' = IF looping_ = "yes" THEN "yes" ELSE wakefd

Wakeup(o) ==
  /\ opc[o] = "wakeup"
  /\ WriteWakeFd
  /\ opc' = [opc EXCEPT ![o] = "idle"]
  /\ UNCHANGED <<taskVars, fdVars, flagVars, lpc>>
-----------------------------------------------------------------------------
(* The owner of an fd closes it without delEvent(), on whatever thread, as *)
(* ~TcpClient() does with an fd that read_hook() has left registered: the  *)
(* kernel takes it out of epoll and fds_ keeps it.  The number may come    *)
(* back for another socket.                                                *)
Close(fd) ==
  /\ fd \in DOMAIN epoll
  /\ epoll' = Drop(epoll, fd) /\ stale' = stale \cup {fd}
  /\ UNCHANGED <<taskVars, pending_add_fds_, pending_del_fds_, fds_, ub, flagVars, wakefd,
                 lpc, opc>>
-----------------------------------------------------------------------------
(* The loop thread.                                                        *)

(* loop(): looping_ is set before stop_flag_ is cleared.                   *)
Enter ==
  /\ lpc = "out"
  /\ looping_' = "yes" /\ lpc' = "enter"
  /\ UNCHANGED <<taskVars, fdVars, stop_flag_, wakefd, opc>>

ClearStop ==
  /\ lpc = "enter"
  /\ stop_flag_' = "no" /\ lpc' = "while"
  /\ UNCHANGED <<taskVars, fdVars, looping_, wakefd, opc>>

While ==
  /\ lpc = "while"
  /\ \/ stop_flag_ = "no" /\ lpc' = "exec" /\ i' = 1 /\ UNCHANGED looping_
     \/ stop_flag_ = "yes" /\ lpc' = "out" /\ looping_' = "no" /\ UNCHANGED i
  /\ UNCHANGED <<pending_tasks_, given, ran, fdVars, stop_flag_, wakefd, opc>>

(* One look at pending_tasks_.size(): the next task begins, or all the     *)
(* loop saw are done.                                                      *)
Exec ==
  /\ lpc = "exec"
  /\ \/ /\ i <= Len(pending_tasks_)
        /\ ran' = IF pending_tasks_[i] \in Tasks
                  THEN Append(ran, pending_tasks_[i]) ELSE ran
        /\ i' = i + 1
        /\ lpc' = "task"
     \/ /\ i > Len(pending_tasks_)
        /\ lpc' = "clear"
        /\ UNCHANGED <<i, ran>>
  /\ UNCHANGED <<pending_tasks_, given, fdVars, flagVars, wakefd, opc>>

(* What the loop thread may call from a task, and outside the loop: give   *)
(* the loop another task, change a registration at once, stop the loop.    *)
OnLoopThread == lpc \in {"task", "out"}

OwnAddTask(k) ==
  /\ OnLoopThread /\ Push(k)
  /\ WriteWakeFd
  /\ UNCHANGED <<fdVars, flagVars, lpc, opc>>

OwnAddEvent(fd, mask, ok) ==
  /\ OnLoopThread
  /\ Register(AddEventInLoopThread(Registered, fd, mask, ok))
  /\ UNCHANGED <<taskVars, pending_add_fds_, pending_del_fds_, flagVars, wakefd, lpc, opc>>

OwnDelEvent(fd) ==
  /\ OnLoopThread
  /\ Register(DelEventInLoopThread(Registered, fd))
  /\ UNCHANGED <<taskVars, pending_add_fds_, pending_del_fds_, flagVars, wakefd, lpc, opc>>

OwnStop ==
  /\ lpc = "task" /\ stop_flag_ = "no"
  /\ stop_flag_' = "yes"
  /\ WriteWakeFd
  /\ UNCHANGED <<taskVars, fdVars, looping_, lpc, opc>>

TaskReturns ==
  /\ lpc = "task" /\ lpc' = "exec"
  /\ UNCHANGED <<taskVars, fdVars, flagVars, wakefd, opc>>

(* Defect: the tasks stay in the queue.                                    *)
ClearNothing ==
  /\ lpc = "clear" /\ lpc' = "poll"
  /\ UNCHANGED <<taskVars, fdVars, flagVars, wakefd, opc>>

(* pending_tasks_.clear(), whatever has been pushed since the last look.   *)
Clear ==
  /\ lpc = "clear" /\ lpc' = "poll"
  /\ pending_tasks_' = <<>>
  /\ UNCHANGED <<i, given, ran, fdVars, flagVars, wakefd, opc>>

(* epoll_wait fails (EINTR), and the rest of the round is skipped.         *)
PollFails ==
  /\ lpc = "poll" /\ lpc' = "while"
  /\ UNCHANGED <<taskVars, fdVars, flagVars, wakefd, opc>>

(* The orders in which the callbacks of a round may be queued: fd after    *)
(* fd as epoll reports them, that of input before that of output.          *)
Callbacks(events) ==
  LET cbs == UNION {{fd} \X events[fd] : fd \in DOMAIN events}
  IN  {q \in SeqOf(cbs, 2 * Cardinality(Fds)) :
         /\ Range(q) = cbs /\ IsInjective(q)
         /\ \A k \in DOMAIN q : q[k][2] = "write" /\ "read" \in events[q[k][1]]
              => k > 1 /\ q[k - 1] = <<q[k][1], "read">>}

(* epoll_wait returns, by events, the eventfd or the time-out.  The        *)
(* eventfd, if it is among the MAX_EVENTS reported, is drained; of each    *)
(* other fd the callbacks are queued; one with neither input nor output    *)
(* (events[fd] = {}: an error or hang-up) is unregistered.                 *)
Poll(events) ==
  LET hungUp == {fd \in DOMAIN events : events[fd] = {}}
  IN  /\ lpc = "poll" /\ lpc' = "apply"
      /\ wakefd' \in {"no", wakefd}
      /\ \E q \in Callbacks(events) : pending_tasks_' = pending_tasks_ \o q
      /\ Register(FoldLeft(DelEventInLoopThread, Registered, SetToSeq(hungUp)))
      /\ UNCHANGED <<i, given, ran, pending_add_fds_, pending_del_fds_, flagVars, opc>>

(* Defect: the queues of the other threads are left alone.                 *)
ApplyNothing(ok) ==
  /\ lpc = "apply" /\ lpc' = "while"
  /\ UNCHANGED <<taskVars, fdVars, flagVars, wakefd, opc>>

(* The queues of the other threads are swapped out; all additions are      *)
(* applied in the order of the fds, then all deletions.  ok is the set of  *)
(* fds for which epoll_ctl succeeds.                                       *)
Apply(ok) ==
  LET added == FoldLeft(LAMBDA r, fd : AddEventInLoopThread(r, fd, pending_add_fds_[fd],
                                                            fd \in ok),
                        Registered, SetToSeq(DOMAIN pending_add_fds_))
  IN  /\ lpc = "apply" /\ lpc' = "while"
      /\ Register(FoldLeft(DelEventInLoopThread, added, pending_del_fds_))
      /\ pending_add_fds_' = Empty /\ pending_del_fds_' = <<>>
      /\ UNCHANGED <<taskVars, flagVars, wakefd, opc>>
-----------------------------------------------------------------------------
(* erase(end()) may end the process.                                       *)
Crash ==
  /\ ub = "yes" /\ lpc' = "crashed"
  /\ UNCHANGED <<taskVars, fdVars, flagVars, wakefd, opc>>

(* What epoll may report: events that are listened to, errors always.      *)
Reports ==
  {events \in UNION {[S -> SUBSET {"read", "write"}] : S \in SUBSET (DOMAIN epoll \cap Fds)} :
     \A fd \in DOMAIN events : events[fd] \subseteq epoll[fd]}
PollAny == \E events \in Reports : Poll(events)
ApplyAny == \E ok \in SUBSET Fds : Apply(ok)

Loop ==
  \/ Enter \/ ClearStop \/ While \/ Exec \/ TaskReturns \/ Clear
  \/ PollFails \/ PollAny \/ ApplyAny

Own ==
  \/ OwnStop
  \/ \E k \in Tasks : OwnAddTask(k)
  \/ \E fd \in Fds : OwnDelEvent(fd)
  \/ \E fd \in Fds, m \in Masks, ok \in BOOLEAN : OwnAddEvent(fd, m, ok)

Other(o) ==
  \/ Wakeup(o) \/ StopTest(o) \/ Stop(o)
  \/ \E k \in Tasks : AddTask(o, k)
  \/ \E fd \in Fds : DelEvent(o, fd)
  \/ \E fd \in Fds, m \in Masks : AddEvent(o, fd, m)

Next ==
  \/ /\ lpc # "crashed"
     /\ Loop \/ Own \/ (\E o \in Others : Other(o)) \/ \E fd \in Fds : Close(fd)
  \/ Crash

(* The loop thread runs and its tasks return; epoll_wait returns at the    *)
(* latest at its time-out and is not interrupted for ever; a thread that   *)
(* has pushed goes on to wakeup().                                         *)
Spec == Init /\ [][Next]_vars
FairSpec ==
  /\ Spec
  /\ WF_vars(ClearStop \/ While \/ Exec \/ TaskReturns \/ Clear \/ ApplyAny)
  /\ WF_vars(PollFails \/ PollAny) /\ SF_vars(PollAny)
  /\ \A o \in Others : WF_vars(lpc # "crashed" /\ (Wakeup(o) \/ Stop(o)))
-----------------------------------------------------------------------------
(* Properties.                                                             *)

(* The state has its type, the kernel keeps the eventfd registered, and    *)
(* the index of the loop never leaves pending_tasks_.                      *)
TypeOK ==
  /\ Range(pending_tasks_) \subseteq Tasks \cup (Fds \X {"read", "write"})
  /\ DOMAIN pending_add_fds_ \subseteq Fds /\ Range(pending_add_fds_) \subseteq Masks
  /\ Range(pending_del_fds_) \subseteq Fds
  /\ Range(fds_) \subseteq Fds \cup {WakeFd}
  /\ WakeFd \in DOMAIN epoll /\ DOMAIN epoll \subseteq Fds \cup {WakeFd}
  /\ stale \subseteq Fds /\ {wakefd, looping_, stop_flag_, ub} \subseteq {"yes", "no"}
  /\ lpc \in {"out", "enter", "while", "exec", "task", "clear", "poll", "apply", "crashed"}
  /\ i \in Nat \ {0} /\ (lpc \in {"exec", "task"} => i <= Len(pending_tasks_) + 1)
  /\ opc \in [Others -> {"idle", "wakeup", "stop"}]
  /\ given \subseteq Tasks /\ Range(ran) \subseteq given

(* A task runs at most once, although the queue is walked by index while   *)
(* other threads, and the tasks themselves, push to it.                    *)
RunsOnce == IsInjective(ran)

(* The loop never sleeps on work: when it is about to wait in epoll with a *)
(* task queued or a stop asked for, the eventfd is readable or a thread is *)
(* about to write it, although wakeup() does nothing before the loop is    *)
(* entered and one drain of the eventfd stands for many writes.  Otherwise *)
(* the work would wait for the time-out of ten seconds.                    *)
NoSleepOnWork ==
  lpc = "poll" /\ (pending_tasks_ # <<>> \/ stop_flag_ = "yes")
    => wakefd = "yes" \/ \E o \in Others : opc[o] = "wakeup"

(* fds_ mirrors the kernel, so that ADD and MOD are chosen rightly, as     *)
(* long as no unknown fd has been deleted: each fd registered with epoll   *)
(* is in fds_ once, and fds_ holds no others but those closed while they   *)
(* were registered, each until it is deleted.  And the state has its type. *)
MirrorsEpoll ==
  /\ TypeOK
  /\ ub = "no" => /\ IsInjective(fds_) /\ DOMAIN epoll \subseteq Range(fds_)
                  /\ Range(fds_) \ DOMAIN epoll = stale

(* What another thread asked for is taken up, and a stop of the running    *)
(* loop ends it.                                                           *)
RequestsTakenUp ==
  /\ \A fd \in Fds : (looping_ = "yes" /\ fd \in DOMAIN pending_add_fds_)
                       ~> (fd \notin DOMAIN pending_add_fds_ \/ looping_ = "no" \/ lpc = "crashed")
  /\ (stop_flag_ = "yes" /\ lpc \notin {"out", "enter"}) ~> lpc \in {"out", "crashed"}

(* The loop is there to "excute tasks": no task is dropped unrun.          *)
NoTaskDropped == given \subseteq Range(ran) \cup Range(pending_tasks_)
=============================================================================

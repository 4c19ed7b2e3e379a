-------------------------------- MODULE Timer --------------------------------
(***************************************************************************)
(* net::Timer (net/timer.cc, net/timer.h): timer events kept in a multimap *)
(* by due time over one timerfd, whose expiry makes the reactor run        *)
(* onTimer(); onTimer hands the tasks that are due to the reactor.         *)
(*                                                                         *)
(* Everything runs on the loop thread.  The clock is read anew by each     *)
(* operation, so it may advance between two steps of one operation.        *)
(***************************************************************************)
EXTENDS Integers, Sequences, SequencesExt

CONSTANTS
  Events,     \* TimerEvent objects
  Interval,   \* m_interval of each
  Repeated,   \* those with m_is_repeated
  MaxTime     \* bound on the clock

ASSUME EventsAssumption ==
  Interval \in [Events -> Nat] /\ Repeated \subseteq Events /\ MaxTime \in Nat

VARIABLES
  now,        \* getNowMs()
  arrive,     \* m_arrive_time of the events constructed so far
  added,      \* history: the events given to addTimerEvent
  cancelled,  \* m_is_cancled
  pending,    \* m_pending_events: records [key, ev] in the order of the map
  armed,      \* the instant the timerfd expires, 0 when it is disarmed
  readable,   \* "yes" when the timerfd has expired and was not read
  queued,     \* "yes" when the reactor is going to call onTimer()
  resetting,  \* "yes" between a change of the map and resetArriveTime()
  tasks,      \* tasks handed to the reactor and not run yet: [ev, due]
  ran         \* history: the events whose task ran

vars == <<now, arrive, added, cancelled, pending, armed, readable, queued,
          resetting, tasks, ran>>

Init ==
  /\ now = 1
  /\ arrive = <<>>
  /\ added = {} /\ cancelled = {}
  /\ pending = <<>>
  /\ armed = 0 /\ readable = "no" /\ queued = "no"
  /\ resetting = "no"
  /\ tasks = <<>> /\ ran = {}

(* multimap::emplace: behind the entries with the same key.                *)
Emplace(map, key, e) ==
  LET n == Len(SelectSeq(map, LAMBDA x : x.key <= key))
  IN  InsertAt(map, n + 1, [key |-> key, ev |-> e])
-----------------------------------------------------------------------------
(* The clock, the timerfd and the reactor.                                 *)

(* Time passes; a timerfd that is due expires once.                        *)
Tick ==
  /\ now < MaxTime
  /\ now' = now + 1
  /\ IF armed # 0 /\ armed <= now + 1
     THEN armed' = 0 /\ readable' = "yes"
     ELSE UNCHANGED <<armed, readable>>
  /\ UNCHANGED <<arrive, added, cancelled, pending, queued, resetting, tasks, ran>>

(* epoll_wait reports the timerfd, and the reactor queues its callback; it *)
(* polls only after it has run the tasks it had.                           *)
Poll ==
  /\ readable = "yes" /\ queued = "no" /\ resetting = "no" /\ tasks = <<>>
  /\ queued' = "yes"
  /\ UNCHANGED <<now, arrive, added, cancelled, pending, armed, readable, resetting,
                 tasks, ran>>

(* The reactor runs a task that onTimer handed to it.                      *)
RunTask ==
  /\ resetting = "no" /\ tasks # <<>>
  /\ tasks' = Tail(tasks)
  /\ ran' = ran \cup {Head(tasks).ev}
  /\ UNCHANGED <<now, arrive, added, cancelled, pending, armed, readable, queued,
                 resetting>>
-----------------------------------------------------------------------------
(* Timer events.                                                           *)

(* The constructor of TimerEvent fixes the due time.                       *)
Construct(e) ==
  /\ resetting = "no" /\ e \notin DOMAIN arrive
  /\ arrive' = [x \in DOMAIN arrive \cup {e} |->
                  IF x = e THEN now + Interval[e] ELSE arrive[x]]
  /\ UNCHANGED <<now, added, cancelled, pending, armed, readable, queued, resetting,
                 tasks, ran>>

(* Defect: the timerfd is set again only for the first event.              *)
AddTimerEventNoRearm(e) ==
  /\ resetting = "no" /\ e \in DOMAIN arrive \ added
  /\ added' = added \cup {e}
  /\ resetting' = IF pending = <<>> THEN "yes" ELSE "no"
  /\ pending' = Emplace(pending, arrive[e], e)
  /\ UNCHANGED <<now, arrive, cancelled, armed, readable, queued, tasks, ran>>

(* addTimerEvent(): the timerfd is set again when the event is the only    *)
(* one or earlier than the earliest.                                       *)
AddTimerEvent(e) ==
  /\ resetting = "no" /\ e \in DOMAIN arrive \ added
  /\ added' = added \cup {e}
  /\ resetting' = IF pending = <<>> \/ arrive[e] < arrive[Head(pending).ev]
                  THEN "yes" ELSE "no"
  /\ pending' = Emplace(pending, arrive[e], e)
  /\ UNCHANGED <<now, arrive, cancelled, armed, readable, queued, tasks, ran>>

(* delTimerEvent() marks the event and leaves it in the map.               *)
DelTimerEvent(e) ==
  /\ resetting = "no" /\ e \in added \ cancelled
  /\ cancelled' = cancelled \cup {e}
  /\ UNCHANGED <<now, arrive, added, pending, armed, readable, queued, resetting,
                 tasks, ran>>

(* resetArriveTime(): nothing when the map is empty or the earliest event  *)
(* is overdue.  Setting the timerfd forgets an expiry, and an interval of  *)
(* zero disarms it.                                                        *)
ResetArriveTime ==
  /\ resetting = "yes"
  /\ resetting' = "no"
  /\ IF pending = <<>> \/ Head(pending).key < now
     THEN UNCHANGED <<armed, readable>>
     ELSE /\ armed' = IF Head(pending).key = now THEN 0 ELSE Head(pending).key
          /\ readable' = "no"
  /\ UNCHANGED <<now, arrive, added, cancelled, pending, queued, tasks, ran>>

(* The entries onTimer() takes: it stops at the first that is not due or   *)
(* is cancelled.                                                           *)
Due(e) == e.key <= now /\ e.ev \notin cancelled
Taken == CHOOSE n \in 0..Len(pending) :
           /\ \A i \in 1..n : Due(pending[i])
           /\ n < Len(pending) => ~Due(pending[n + 1])

(* Defect: the event is added again before resetTime().                    *)
RestartOldKey(map, evs) ==
  FoldLeft(LAMBDA acc, x : IF x.ev \in Repeated
                           THEN Emplace(acc, x.key, x.ev) ELSE acc,
           map, evs)

(* The repeated ones among them start over, in the order they were taken.  *)
Restart(map, evs) ==
  FoldLeft(LAMBDA acc, x : IF x.ev \in Repeated
                           THEN Emplace(acc, now + Interval[x.ev], x.ev) ELSE acc,
           map, evs)

(* onTimer(): the timerfd is read, the due tasks go to the reactor, their  *)
(* entries are erased, repeated events come back with a new due time.      *)
OnTimer ==
  LET taken == SubSeq(pending, 1, Taken)
      again == {x.ev : x \in Range(taken)} \cap Repeated
  IN  /\ queued = "yes" /\ resetting = "no"
      /\ queued' = "no" /\ readable' = "no"
      /\ tasks' = tasks \o [i \in 1..Taken |->
                              [ev |-> taken[i].ev, due |-> taken[i].key]]
      /\ arrive' = [x \in DOMAIN arrive |->
                      IF x \in again THEN now + Interval[x] ELSE arrive[x]]
      /\ pending' = Restart(SubSeq(pending, Taken + 1, Len(pending)), taken)
      /\ resetting' = "yes"
      /\ UNCHANGED <<now, added, cancelled, armed, ran>>
-----------------------------------------------------------------------------
Loop == Poll \/ OnTimer \/ ResetArriveTime \/ RunTask

Next ==
  \/ Tick \/ Loop
  \/ \E e \in Events : Construct(e) \/ AddTimerEvent(e) \/ DelTimerEvent(e)

(* Time passes up to its bound and the loop thread runs.                   *)
Spec == Init /\ [][Next]_vars /\ WF_vars(Tick) /\ WF_vars(Loop)
-----------------------------------------------------------------------------
(* Properties.                                                             *)

YesNo == {"yes", "no"}
PendingEvents == {x.ev : x \in Range(pending)}
HandedEvents == {x.ev : x \in Range(tasks)} \cup ran

(* The state has its type; the map is a map: sorted by key.                *)
TypeOK ==
  /\ now \in 1..MaxTime
  /\ DOMAIN arrive \subseteq Events /\ Range(arrive) \subseteq Nat
  /\ cancelled \subseteq added /\ added \subseteq DOMAIN arrive
  /\ \A i \in DOMAIN pending : pending[i].ev \in added /\ pending[i].key \in Nat
  /\ \A i, j \in DOMAIN pending : i < j => pending[i].key <= pending[j].key
  /\ armed \in 0..MaxTime + Max({Interval[e] : e \in Events})
  /\ {readable, queued, resetting} \subseteq YesNo
  /\ \A i \in DOMAIN tasks : tasks[i].ev \in Events /\ tasks[i].due <= now

(* An armed timerfd never sleeps past the earliest pending event, whatever *)
(* is added, cancelled, restarted or taken meanwhile.  An event that is    *)
(* overdue already is excepted: resetArriveTime() leaves the timerfd alone *)
(* for it.                                                                 *)
ArmedForEarliest ==
  armed # 0 /\ pending # <<>> /\ resetting = "no" =>
    armed <= Head(pending).key \/ Head(pending).key < now

(* The map is sorted and nothing in it is lost or done twice: a one-shot   *)
(* event that was added is pending or has been handed to the reactor,      *)
(* never both; a repeated one is pending for ever; nothing is pending      *)
(* twice.  And each is filed under its due time: addTimerEvent, which      *)
(* compares m_arrive_time, and the order of the map agree, although        *)
(* resetTime() changes the one and not the other.                          *)
Conserved ==
  /\ TypeOK
  /\ \A e \in added \ Repeated : (e \in PendingEvents) # (e \in HandedEvents)
  /\ added \cap Repeated \subseteq PendingEvents
  /\ IsInjective([i \in DOMAIN pending |-> pending[i].ev])
  /\ \A i \in DOMAIN pending : pending[i].key = arrive[pending[i].ev]

(* m_arrive_time is "when to excute task" (timer.h): an entry that is due  *)
(* and not cancelled leaves the map, which by Conserved means that its     *)
(* task is handed to the reactor.                                          *)
DueIsHanded ==
  \A e \in Events, k \in 1..MaxTime :
    LET entry == [key |-> k, ev |-> e]
    IN  (entry \in Range(pending) /\ k <= now)
          ~> (entry \notin Range(pending) \/ e \in cancelled)
=============================================================================

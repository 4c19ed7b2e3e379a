----------------------------- MODULE AsyncProofs -----------------------------
(***************************************************************************)
(* Theorems about src/async: thread_pool, for any number of workers,       *)
(* clients and coroutines and ranges of any length, and sync_wait of       *)
(* when_all, for any finite set of tasks.                                  *)
(***************************************************************************)
EXTENDS ThreadPool, WhenAll, FiniteSetTheorems, TLAPS

(* The elements of a concatenation, which is how Push extends queue_.      *)
LEMMA ElemsConcat ==
  ASSUME NEW S, NEW s \in Seq(S), NEW u \in Seq(S)
  PROVE  /\ s \o u \in Seq(S)
         /\ Elems(s \o u) = Elems(s) \cup Elems(u)
<1>1. /\ s \o u \in Seq(S)
      /\ DOMAIN (s \o u) = 1 .. Len(s) + Len(u)
      /\ \A i \in 1 .. Len(s) + Len(u) :
           (s \o u)[i] = IF i <= Len(s) THEN s[i] ELSE u[i - Len(s)]
  OBVIOUS
<1>2. Elems(s \o u) \subseteq Elems(s) \cup Elems(u)
  BY <1>1 DEF Elems
<1>3. ASSUME NEW x \in Elems(s) PROVE x \in Elems(s \o u)
  BY <1>1 DEF Elems
<1>4. ASSUME NEW x \in Elems(u) PROVE x \in Elems(s \o u)
  <2>1. PICK i \in 1 .. Len(u) : u[i] = x
    BY DEF Elems
  <2>2. /\ i + Len(s) \in 1 .. Len(s) + Len(u)
        /\ (s \o u)[i + Len(s)] = x
    BY <1>1, <2>1
  <2>. QED
    BY <1>1, <2>2 DEF Elems
<1>. QED
  BY <1>1, <1>2, <1>3, <1>4

(* Appending handles that are not queued yet repeats none.                 *)
LEMMA DistinctConcat ==
  ASSUME NEW S, NEW s \in Seq(S), NEW u \in Seq(S),
         Distinct(s), Distinct(u), Elems(s) \cap Elems(u) = {}
  PROVE  Distinct(s \o u)
<1>1. /\ DOMAIN (s \o u) = 1 .. Len(s) + Len(u)
      /\ \A i \in 1 .. Len(s) + Len(u) :
           (s \o u)[i] = IF i <= Len(s) THEN s[i] ELSE u[i - Len(s)]
  OBVIOUS
<1>2. SUFFICES ASSUME NEW i \in 1 .. Len(s) + Len(u),
                      NEW j \in 1 .. Len(s) + Len(u),
                      (s \o u)[i] = (s \o u)[j]
               PROVE  i = j
  BY <1>1 DEF Distinct
<1>3. CASE i <= Len(s) /\ j <= Len(s)
  BY <1>1, <1>2, <1>3 DEF Distinct
<1>4. CASE i > Len(s) /\ j > Len(s)
  BY <1>1, <1>2, <1>4 DEF Distinct
<1>5. CASE i <= Len(s) /\ j > Len(s)
  <2>1. s[i] \in Elems(s) /\ u[j - Len(s)] \in Elems(u)
    BY <1>5 DEF Elems
  <2>. QED
    BY <1>1, <1>2, <1>5, <2>1
<1>6. CASE i > Len(s) /\ j <= Len(s)
  <2>1. s[j] \in Elems(s) /\ u[i - Len(s)] \in Elems(u)
    BY <1>6 DEF Elems
  <2>. QED
    BY <1>1, <1>2, <1>6, <2>1
<1>. QED
  BY <1>3, <1>4, <1>5, <1>6

(* What Pop leaves in the queue.                                           *)
LEMMA HeadTail ==
  ASSUME NEW S, NEW s \in Seq(S), s # <<>>
  PROVE  /\ Head(s) \in Elems(s) /\ Head(s) \in S
         /\ Tail(s) \in Seq(S)
         /\ Elems(Tail(s)) \subseteq Elems(s)
         /\ Distinct(s) => Distinct(Tail(s)) /\ Head(s) \notin Elems(Tail(s))
<1>1. /\ Tail(s) \in Seq(S)
      /\ DOMAIN Tail(s) = 1 .. Len(s) - 1
      /\ \A i \in 1 .. Len(s) - 1 : Tail(s)[i] = s[i + 1]
      /\ Head(s) = s[1] /\ 1 \in DOMAIN s /\ s[1] \in S
  OBVIOUS
<1>2. Elems(Tail(s)) \subseteq Elems(s)
  BY <1>1 DEF Elems
<1>3. Distinct(s) => Distinct(Tail(s))
  BY <1>1 DEF Distinct
<1>4. Distinct(s) => Head(s) \notin Elems(Tail(s))
  BY <1>1 DEF Distinct, Elems
<1>. QED
  BY <1>1, <1>2, <1>3, <1>4 DEF Elems

(* A single handle, as schedule_impl receives it.                          *)
LEMMA ElemsSingle ==
  ASSUME NEW x
  PROVE  Elems(<<x>>) = {x} /\ Distinct(<<x>>)
BY DEF Elems, Distinct

LEMMA ElemsInSeq ==
  ASSUME NEW S, NEW s \in Seq(S)
  PROVE  Elems(s) \subseteq S
BY DEF Elems

LEMMA ElemsEmpty == Elems(<<>>) = {} /\ Distinct(<<>>)
BY DEF Elems, Distinct

(* A batch is a sequence of handles.                                       *)
LEMMA BatchIsSeq == \A b \in Batches : b \in Seq(Handles)
BY BoundsAssumption DEF Batches
-----------------------------------------------------------------------------

USE DEF Threads, Goto

(* A thread that executes a coroutine body has a coroutine; the inductive  *)
(* strengthening of TypeOK that schedule() needs.                          *)
RunHasTask ==
  \A t \in Threads : pc[t] \in {"run", "schedule"} => task[t] # NoHandle

Typed == TypeOK /\ RunHasTask

(* Every step of the pool leaves the state well typed.                     *)
LEMMA TypedStep == Typed /\ [Next]_vars => Typed'
<1> SUFFICES ASSUME Typed, [Next]_vars PROVE Typed'
  OBVIOUS
<1> USE NoHandleAssumption, ThreadsAssumption
    DEF Typed, TypeOK, RunHasTask, ClientLabels, WorkerLabels, CallLabels
<1>1. ASSUME NEW t \in Threads, Schedule(t) PROVE Typed'
  BY <1>1 DEF Schedule
<1>2. ASSUME NEW t \in Threads, ScheduleSize(t) PROVE Typed'
  BY <1>2 DEF ScheduleSize
<1>3. ASSUME NEW t \in Threads, Push(t) PROVE Typed'
  BY <1>3, ElemsInSeq, ElemsConcat DEF Push
<1>4. ASSUME NEW t \in Threads, UncountNulls(t) PROVE Typed'
  BY <1>4 DEF UncountNulls
<1>5. ASSUME NEW t \in Threads, NotifyOne(t) PROVE Typed'
  <2>1. After(t) \in {"run", "finish", "idle"}
        /\ (t \in Workers => After(t) # "idle") /\ (t \in Clients => After(t) # "finish")
        /\ (After(t) = "run" => task[t] # NoHandle)
    BY DEF After
  <2>2. CASE \E w \in Workers : /\ pc[w] = "blocked"
                               /\ pc' = [pc EXCEPT ![t] = After(t), ![w] = "lock"]
    <3>1. PICK w \in Workers : /\ pc[w] = "blocked"
                               /\ pc' = [pc EXCEPT ![t] = After(t), ![w] = "lock"]
      BY <2>2, Zenon
    <3>. QED
      BY <1>5, <2>1, <3>1, Zenon DEF NotifyOne
  <2>3. CASE pc' = [pc EXCEPT ![t] = After(t)]
    <3>. QED
      BY <1>5, <2>1, <2>3 DEF NotifyOne
  <2>. QED
    BY <1>5, <2>2, <2>3, Zenon DEF NotifyOne
<1>6. ASSUME NEW t \in Threads, RunEnd(t) PROVE Typed'
  BY <1>6 DEF RunEnd
<1>7. ASSUME NEW t \in Threads, NEW h \in Handles, Resume(t, h) PROVE Typed'
  BY <1>7 DEF Resume, MayCall
<1>8. ASSUME NEW t \in Threads, NEW b \in Batches, NEW n \in 0..MaxNulls,
             ResumeRange(t, b, n)
      PROVE  Typed'
  <2>1. b \in Seq(Handles) /\ n \in Nat /\ Len(b) \in Nat
    BY BatchIsSeq, BoundsAssumption
  <2>. QED
    BY <1>8, <2>1 DEF ResumeRange, MayCall
<1>9. ASSUME NEW c \in Clients, NEW h \in Handles, Start(c, h) PROVE Typed'
  BY <1>9 DEF Start
<1>10. ASSUME NEW c \in Clients, Shutdown(c) \/ Join(c) PROVE Typed'
  BY <1>10, Zenon DEF Shutdown, Join
<1>11. ASSUME NEW c \in Clients, NEW w \in Workers, RequestStop(c, w) PROVE Typed'
  BY <1>11 DEF RequestStop, WakeAll
<1>12. ASSUME NEW w \in Workers, Pop(w) PROVE Typed'
  <2>1. Head(queue_) \in Handles /\ Tail(queue_) \in Seq(Handles)
    BY <1>12, HeadTail DEF Pop
  <2>. QED
    BY <1>12, <2>1 DEF Pop
<1>13. ASSUME NEW w \in Workers, Enter(w) \/ SpuriousWakeup(w) PROVE Typed'
  BY <1>13, Zenon DEF Enter, SpuriousWakeup
<1>14. ASSUME NEW w \in Workers, Wait(w) PROVE Typed'
  BY <1>14 DEF Wait
<1>15. ASSUME NEW w \in Workers, UncountRun(w) PROVE Typed'
  BY <1>15 DEF UncountRun
<1>16. CASE UNCHANGED vars
  BY <1>16 DEF vars
<1> HIDE DEF Typed
<1>. QED
  BY <1>1, <1>2, <1>3, <1>4, <1>5, <1>6, <1>7, <1>8, <1>9, <1>10, <1>11,
     <1>12, <1>13, <1>14, <1>15, <1>16 DEF Next, Caller, Client, Worker

LEMMA TypedInit == Init => Typed
<1> SUFFICES ASSUME Init PROVE Typed
  OBVIOUS
<1> USE DEF Init, ClientLabels, WorkerLabels, CallLabels
<1>1. queue_ \in Seq(Handles) /\ size_ \in Int
  OBVIOUS
<1>4. shutdown_ \in BOOLEAN
  BY Zenon
<1>2. batch \in [Threads -> Seq(Handles)] /\ nulls \in [Threads -> Nat]
  OBVIOUS
<1>3. /\ pc \in [Threads -> ClientLabels \cup WorkerLabels \cup CallLabels]
      /\ \A w \in Workers : pc[w] = "start"
      /\ \A c \in Clients : pc[c] = "idle"
  BY ThreadsAssumption
<1>. QED
  BY <1>1, <1>2, <1>3, <1>4 DEF Typed, TypeOK, RunHasTask

LEMMA TypedAlways == Spec => []Typed
BY TypedInit, TypedStep, PTL DEF Spec

(* The state of the pool is well typed, in particular no thread ever       *)
(* leaves the code it belongs to.                                          *)
THEOREM TypeCorrect == Spec => []TypeOK
BY TypedAlways, PTL DEF Typed
-----------------------------------------------------------------------------
(* ExclusiveResume is inductive relative to Typed: a handle enters a batch *)
(* only from a coroutine that is parked or that the submitting thread      *)
(* itself runs, so it is nowhere else in the pool; Push moves it, Pop      *)
(* takes it out.                                                           *)
LEMMA ExclusiveStep == Typed /\ ExclusiveResume /\ [Next]_vars => ExclusiveResume'
<1> SUFFICES ASSUME Typed, ExclusiveResume, [Next]_vars PROVE ExclusiveResume'
  OBVIOUS
<1> USE NoHandleAssumption, ThreadsAssumption
    DEF Typed, TypeOK, RunHasTask, ExclusiveResume
<1>0. /\ Elems(queue_) \subseteq Handles
      /\ \A u \in Threads : Elems(batch[u]) \subseteq Handles
  BY ElemsInSeq
<1>1. ASSUME NEW t \in Threads, ScheduleSize(t) PROVE ExclusiveResume'
  <2>1. task[t] \in Handles /\ co[task[t]] = "running"
    BY <1>1 DEF ScheduleSize, TaskOwned
  <2>2. Elems(batch'[t]) = {task[t]} /\ Distinct(batch'[t])
    BY <1>1, ElemsSingle DEF ScheduleSize
  <2>3. QueueOwned'
    BY <1>0, <1>1, <2>1 DEF ScheduleSize, QueueOwned
  <2>4. BatchOwned'
    <3>1. /\ task[t] \notin Elems(queue_)
          /\ \A u \in Threads : task[t] \notin Elems(batch[u])
      BY <1>1, <2>1 DEF ScheduleSize, BatchOwned, QueueOwned
    <3>2. \A u \in Threads : u # t => batch'[u] = batch[u]
      BY <1>1 DEF ScheduleSize
    <3>3. queue_' = queue_ /\ co' = [co EXCEPT ![task[t]] = "pool"]
      BY <1>1 DEF ScheduleSize
    <3>4. ASSUME NEW u \in Threads
          PROVE  /\ Distinct(batch'[u])
                 /\ \A g \in Elems(batch'[u]) : co'[g] = "pool" /\ g \notin Elems(queue_')
      <4>1. CASE u = t
        BY <2>1, <2>2, <3>1, <3>3, <4>1
      <4>2. CASE u # t
        BY <1>0, <3>1, <3>2, <3>3, <4>2 DEF BatchOwned
      <4>. QED
        BY <4>1, <4>2
    <3>5. ASSUME NEW u \in Threads, NEW v \in Threads, u # v
          PROVE  Elems(batch'[u]) \cap Elems(batch'[v]) = {}
      <4>1. CASE u = t
        <5>1. Elems(batch'[u]) = {task[t]} /\ batch'[v] = batch[v]
          BY <2>2, <3>2, <3>5, <4>1
        <5>. QED
          BY <3>1, <5>1
      <4>2. CASE v = t
        <5>1. Elems(batch'[v]) = {task[t]} /\ batch'[u] = batch[u]
          BY <2>2, <3>2, <3>5, <4>2
        <5>. QED
          BY <3>1, <5>1
      <4>3. CASE u # t /\ v # t
        BY <3>2, <3>5, <4>3, Zenon DEF BatchOwned
      <4>. QED
        BY <4>1, <4>2, <4>3
    <3>. QED
      BY <3>4, <3>5, Zenon DEF BatchOwned
  <2>5. TaskOwned'
    BY <1>1, <2>1 DEF ScheduleSize, TaskOwned
  <2>. QED
    BY <2>3, <2>4, <2>5
<1>2. ASSUME NEW t \in Threads, Push(t) PROVE ExclusiveResume'
  <2>1. /\ Elems(queue_') = Elems(queue_) \cup Elems(batch[t])
        /\ Elems(batch'[t]) = {} /\ Distinct(batch'[t])
    BY <1>2, ElemsConcat, ElemsEmpty DEF Push
  <2>2. QueueOwned'
    <3>1. Distinct(queue_')
      BY <1>2, DistinctConcat DEF Push, QueueOwned, BatchOwned
    <3>. QED
      BY <1>2, <2>1, <3>1 DEF Push, QueueOwned, BatchOwned
  <2>3. BatchOwned'
    BY <1>2, <2>1, Zenon DEF Push, BatchOwned
  <2>4. TaskOwned'
    BY <1>2 DEF Push, TaskOwned
  <2>. QED
    BY <2>2, <2>3, <2>4
<1>3. ASSUME NEW t \in Threads, NEW h \in Handles, Resume(t, h) PROVE ExclusiveResume'
  <2>1. Elems(batch'[t]) = {h} /\ Distinct(batch'[t])
    BY <1>3, ElemsSingle DEF Resume
  <2>2. QueueOwned'
    BY <1>0, <1>3 DEF Resume, QueueOwned
  <2>3. BatchOwned'
    <3>1. /\ h \notin Elems(queue_)
          /\ \A u \in Threads : h \notin Elems(batch[u])
      BY <1>3 DEF Resume, BatchOwned, QueueOwned
    <3>2. \A u \in Threads : u # t => batch'[u] = batch[u]
      BY <1>3 DEF Resume
    <3>3. queue_' = queue_ /\ co' = [co EXCEPT ![h] = "pool"]
      BY <1>3 DEF Resume
    <3>4. ASSUME NEW u \in Threads
          PROVE  /\ Distinct(batch'[u])
                 /\ \A g \in Elems(batch'[u]) : co'[g] = "pool" /\ g \notin Elems(queue_')
      <4>1. CASE u = t
        BY <2>1, <3>1, <3>3, <4>1
      <4>2. CASE u # t
        BY <1>0, <3>1, <3>2, <3>3, <4>2 DEF BatchOwned
      <4>. QED
        BY <4>1, <4>2
    <3>5. ASSUME NEW u \in Threads, NEW v \in Threads, u # v
          PROVE  Elems(batch'[u]) \cap Elems(batch'[v]) = {}
      <4>1. CASE u = t
        <5>1. Elems(batch'[u]) = {h} /\ batch'[v] = batch[v]
          BY <2>1, <3>2, <3>5, <4>1
        <5>. QED
          BY <3>1, <5>1
      <4>2. CASE v = t
        <5>1. Elems(batch'[v]) = {h} /\ batch'[u] = batch[u]
          BY <2>1, <3>2, <3>5, <4>2
        <5>. QED
          BY <3>1, <5>1
      <4>3. CASE u # t /\ v # t
        BY <3>2, <3>5, <4>3, Zenon DEF BatchOwned
      <4>. QED
        BY <4>1, <4>2, <4>3
    <3>. QED
      BY <3>4, <3>5, Zenon DEF BatchOwned
  <2>4. TaskOwned'
    BY <1>3 DEF Resume, TaskOwned
  <2>. QED
    BY <2>2, <2>3, <2>4
<1>4. ASSUME NEW t \in Threads, NEW b \in Batches, NEW n \in 0..MaxNulls,
             ResumeRange(t, b, n)
      PROVE  ExclusiveResume'
  <2>1. batch'[t] = b /\ Elems(b) \subseteq Handles /\ Distinct(b)
    BY <1>4, BatchIsSeq, ElemsInSeq DEF ResumeRange
  <2>2. QueueOwned'
    BY <1>0, <1>4 DEF ResumeRange, QueueOwned
  <2>3. BatchOwned'
    BY <1>0, <1>4, <2>1, Zenon DEF ResumeRange, BatchOwned, QueueOwned
  <2>4. TaskOwned'
    BY <1>4 DEF ResumeRange, TaskOwned
  <2>. QED
    BY <2>2, <2>3, <2>4
<1>5. ASSUME NEW c \in Clients, NEW h \in Handles, Start(c, h) PROVE ExclusiveResume'
  <2>1. QueueOwned' /\ BatchOwned'
    BY <1>0, <1>5, Zenon DEF Start, QueueOwned, BatchOwned
  <2>2. TaskOwned'
    BY <1>5 DEF Start, TaskOwned
  <2>. QED
    BY <2>1, <2>2
<1>6. ASSUME NEW t \in Threads, RunEnd(t) PROVE ExclusiveResume'
  <2>1. task[t] \in Handles /\ co[task[t]] = "running"
    BY <1>6 DEF RunEnd, TaskOwned
  <2>2. QueueOwned' /\ BatchOwned'
    BY <1>0, <1>6, <2>1, Zenon DEF RunEnd, QueueOwned, BatchOwned
  <2>3. TaskOwned'
    BY <1>6, <2>1 DEF RunEnd, TaskOwned
  <2>. QED
    BY <2>2, <2>3
<1>7. ASSUME NEW w \in Workers, Pop(w) PROVE ExclusiveResume'
  <2>1. /\ Head(queue_) \in Handles /\ Head(queue_) \in Elems(queue_)
        /\ Elems(queue_') \subseteq Elems(queue_)
        /\ Distinct(queue_') /\ Head(queue_) \notin Elems(queue_')
    BY <1>7, HeadTail DEF Pop, QueueOwned
  <2>2. QueueOwned'
    BY <1>0, <1>7, <2>1 DEF Pop, QueueOwned
  <2>3. BatchOwned'
    BY <1>0, <1>7, <2>1, Zenon DEF Pop, BatchOwned
  <2>4. TaskOwned'
    BY <1>7, <2>1 DEF Pop, TaskOwned, QueueOwned
  <2>. QED
    BY <2>2, <2>3, <2>4
<1>8. CASE UNCHANGED <<queue_, task, batch, co>>
  BY <1>8, Zenon DEF QueueOwned, BatchOwned, TaskOwned
<1>9. CASE \/ \E t \in Threads : Schedule(t) \/ UncountNulls(t) \/ NotifyOne(t)
           \/ \E c \in Clients : Shutdown(c) \/ Join(c)
           \/ \E c \in Clients, w \in Workers : RequestStop(c, w)
           \/ \E w \in Workers : Enter(w) \/ Wait(w) \/ SpuriousWakeup(w)
                                 \/ UncountRun(w)
           \/ UNCHANGED vars
  <2>1. UNCHANGED <<queue_, task, batch, co>>
    BY <1>9 DEF Schedule, UncountNulls, NotifyOne, Shutdown, Join, RequestStop,
                Enter, Wait, SpuriousWakeup, UncountRun, vars
  <2>. QED
    BY <1>8, <2>1
<1> HIDE DEF ExclusiveResume
<1>. QED
  BY <1>1, <1>2, <1>3, <1>4, <1>5, <1>6, <1>7, <1>9
     DEF Next, Caller, Client, Worker

(* No coroutine is ever resumed while it runs or after it finished, and    *)
(* none is queued twice, for any number of threads and coroutines.         *)
THEOREM Exclusive == Spec => []ExclusiveResume
<1>1. Init => ExclusiveResume
  BY ElemsEmpty DEF Init, ExclusiveResume, QueueOwned, BatchOwned, TaskOwned
<1>. QED
  BY <1>1, ExclusiveStep, TypedAlways, PTL DEF Spec
-----------------------------------------------------------------------------
(* No lost wake-up: inductive as it stands.  Only a push makes the queue   *)
(* non-empty, and it leaves a notification to be sent; only Wait puts a    *)
(* worker to sleep, and it has just seen the queue empty.                  *)
LEMMA WakeupStep == TypeOK /\ NoLostWakeup /\ [Next]_vars => NoLostWakeup'
<1> SUFFICES ASSUME TypeOK, NoLostWakeup, [Next]_vars PROVE NoLostWakeup'
  OBVIOUS
<1> USE ThreadsAssumption
    DEF TypeOK, NoLostWakeup, CallLabels, WorkerLabels, ClientLabels
<1>1. ASSUME NEW t \in Threads, Caller(t) PROVE NoLostWakeup'
  <2>1. CASE Schedule(t) \/ ScheduleSize(t)
    BY <2>1 DEF Schedule, ScheduleSize
  <2>2. CASE Push(t)
    BY <2>2 DEF Push
  <2>3. CASE UncountNulls(t)
    BY <2>3 DEF UncountNulls
  <2>4. CASE NotifyOne(t)
    BY <2>4 DEF NotifyOne, After
  <2>5. CASE RunEnd(t)
    BY <2>5 DEF RunEnd
  <2>6. ASSUME NEW h \in Handles, Resume(t, h) PROVE NoLostWakeup'
    BY <2>6 DEF Resume, MayCall
  <2>7. ASSUME NEW b \in Batches, NEW n \in 0..MaxNulls, ResumeRange(t, b, n)
        PROVE  NoLostWakeup'
    BY <2>7 DEF ResumeRange, MayCall
  <2> HIDE DEF NoLostWakeup
  <2>. QED
    BY <1>1, <2>1, <2>2, <2>3, <2>4, <2>5, <2>6, <2>7 DEF Caller
<1>2. ASSUME NEW c \in Clients, Client(c) PROVE NoLostWakeup'
  <2>1. CASE Shutdown(c) \/ Join(c)
    BY <2>1 DEF Shutdown, Join
  <2>2. ASSUME NEW h \in Handles, Start(c, h) PROVE NoLostWakeup'
    BY <2>2 DEF Start
  <2>3. ASSUME NEW w \in Workers, RequestStop(c, w) PROVE NoLostWakeup'
    BY <2>3, Zenon DEF RequestStop, WakeAll
  <2> HIDE DEF NoLostWakeup
  <2>. QED
    BY <1>2, <2>1, <2>2, <2>3 DEF Client
<1>3. ASSUME NEW w \in Workers, Worker(w) PROVE NoLostWakeup'
  <2>1. CASE Enter(w) \/ SpuriousWakeup(w) \/ UncountRun(w)
    BY <2>1 DEF Enter, SpuriousWakeup, UncountRun
  <2>2. CASE Pop(w)
    BY <2>2 DEF Pop
  <2>3. CASE Wait(w)
    BY <2>3 DEF Wait
  <2> HIDE DEF NoLostWakeup
  <2>. QED
    BY <1>3, <2>1, <2>2, <2>3 DEF Worker
<1>4. CASE UNCHANGED vars
  BY <1>4 DEF vars
<1> HIDE DEF NoLostWakeup
<1>. QED
  BY <1>1, <1>2, <1>3, <1>4 DEF Next

(* No interleaving of pushes, notifications and waits leaves handles in    *)
(* the queue with a sleeping worker and nobody about to look at it.        *)
THEOREM WakeupKept == Spec => []NoLostWakeup
<1>1. Init => NoLostWakeup
  BY DEF Init, NoLostWakeup
<1>2. Spec => []TypeOK
  BY TypeCorrect
<1>. QED
  BY <1>1, <1>2, WakeupStep, PTL DEF Spec
-----------------------------------------------------------------------------
(* A stop drains the queue.  The strengthening says that nothing of the    *)
(* stop protocol happens before shutdown_ is set, so that whatever is      *)
(* pushed after a worker left is late.                                     *)
StopFollowsShutdown ==
  /\ stopped # {} => shutdown_
  /\ \A w \in Workers : pc[w] = "exited" => shutdown_
  /\ \A c \in Clients : pc[c] = "stopping" => shutdown_

LEMMA StopStep ==
  TypeOK /\ StopFollowsShutdown /\ [Next]_vars => StopFollowsShutdown'
<1> SUFFICES ASSUME TypeOK, StopFollowsShutdown, [Next]_vars
             PROVE  StopFollowsShutdown'
  OBVIOUS
<1> USE ThreadsAssumption DEF TypeOK, StopFollowsShutdown
<1>1. ASSUME NEW t \in Threads, Caller(t) PROVE StopFollowsShutdown'
  <2>1. CASE Schedule(t) \/ ScheduleSize(t) \/ UncountNulls(t) \/ RunEnd(t)
    BY <2>1 DEF Schedule, ScheduleSize, UncountNulls, RunEnd
  <2>2. CASE Push(t)
    BY <2>2 DEF Push
  <2>3. CASE NotifyOne(t)
    BY <2>3 DEF NotifyOne, After
  <2>4. ASSUME NEW h \in Handles, Resume(t, h) PROVE StopFollowsShutdown'
    BY <2>4 DEF Resume
  <2>5. ASSUME NEW b \in Batches, NEW n \in 0..MaxNulls, ResumeRange(t, b, n)
        PROVE  StopFollowsShutdown'
    BY <2>5 DEF ResumeRange
  <2> HIDE DEF StopFollowsShutdown
  <2>. QED
    BY <1>1, <2>1, <2>2, <2>3, <2>4, <2>5 DEF Caller
<1>2. ASSUME NEW c \in Clients, Client(c) PROVE StopFollowsShutdown'
  <2>1. CASE Shutdown(c) \/ Join(c)
    BY <2>1 DEF Shutdown, Join
  <2>2. ASSUME NEW h \in Handles, Start(c, h) PROVE StopFollowsShutdown'
    BY <2>2 DEF Start
  <2>3. ASSUME NEW w \in Workers, RequestStop(c, w) PROVE StopFollowsShutdown'
    BY <2>3 DEF RequestStop, WakeAll
  <2> HIDE DEF StopFollowsShutdown
  <2>. QED
    BY <1>2, <2>1, <2>2, <2>3 DEF Client
<1>3. ASSUME NEW w \in Workers, Worker(w) PROVE StopFollowsShutdown'
  BY <1>3 DEF Worker, Enter, SpuriousWakeup, UncountRun, Pop, Wait
<1>4. CASE UNCHANGED vars
  BY <1>4 DEF vars
<1> HIDE DEF StopFollowsShutdown
<1>. QED
  BY <1>1, <1>2, <1>3, <1>4 DEF Next

LEMMA DrainStep ==
  TypeOK /\ StopFollowsShutdown /\ DrainBeforeExit /\ [Next]_vars => DrainBeforeExit'
<1> SUFFICES ASSUME TypeOK, StopFollowsShutdown, DrainBeforeExit, [Next]_vars
             PROVE  DrainBeforeExit'
  OBVIOUS
<1> USE ThreadsAssumption DEF TypeOK, DrainBeforeExit
<1>1. ASSUME NEW t \in Threads, Push(t) PROVE DrainBeforeExit'
  <2>1. Elems(queue_') = Elems(queue_) \cup Elems(batch[t])
    BY <1>1, ElemsConcat DEF Push
  <2>2. \A w \in Workers : pc'[w] = "exited" => pc[w] = "exited"
    BY <1>1 DEF Push
  <2>. QED
    BY <1>1, <2>1, <2>2 DEF Push, StopFollowsShutdown
<1>2. ASSUME NEW w \in Workers, Pop(w) PROVE DrainBeforeExit'
  <2>1. Elems(queue_') \subseteq Elems(queue_) /\ late' = late
    BY <1>2, HeadTail DEF Pop
  <2>2. \A v \in Workers : pc'[v] = "exited" => pc[v] = "exited"
    BY <1>2 DEF Pop
  <2>. QED
    BY <2>1, <2>2
<1>3. ASSUME NEW w \in Workers, Wait(w) PROVE DrainBeforeExit'
  <2>1. Elems(queue_') = {}
    BY <1>3, ElemsEmpty DEF Wait
  <2>. QED
    BY <2>1
<1>4. ASSUME UNCHANGED <<queue_, late>>,
             \A w \in Workers : pc'[w] = "exited" => pc[w] = "exited"
      PROVE  DrainBeforeExit'
  BY <1>4
<1>5. ASSUME NEW t \in Threads,
             Schedule(t) \/ ScheduleSize(t) \/ UncountNulls(t) \/ NotifyOne(t)
               \/ RunEnd(t)
      PROVE  DrainBeforeExit'
  BY <1>4, <1>5
     DEF Schedule, ScheduleSize, UncountNulls, NotifyOne, After, RunEnd
<1>6. ASSUME NEW t \in Threads, NEW h \in Handles, Resume(t, h)
      PROVE  DrainBeforeExit'
  BY <1>4, <1>6 DEF Resume
<1>7. ASSUME NEW t \in Threads, NEW b \in Batches, NEW n \in 0..MaxNulls,
             ResumeRange(t, b, n)
      PROVE  DrainBeforeExit'
  BY <1>4, <1>7 DEF ResumeRange
<1>8. ASSUME NEW c \in Clients, Client(c) PROVE DrainBeforeExit'
  <2>1. UNCHANGED <<queue_, late>>
    BY <1>8 DEF Client, Start, Shutdown, Join, RequestStop
  <2>2. \A w \in Workers : pc'[w] = "exited" => pc[w] = "exited"
    BY <1>8, Zenon DEF Client, Start, Shutdown, Join, RequestStop, WakeAll
  <2>. QED
    BY <1>4, <2>1, <2>2
<1>9. ASSUME NEW w \in Workers, Enter(w) \/ SpuriousWakeup(w) \/ UncountRun(w)
      PROVE  DrainBeforeExit'
  BY <1>4, <1>9 DEF Enter, SpuriousWakeup, UncountRun
<1>10. CASE UNCHANGED vars
  BY <1>4, <1>10 DEF vars
<1> HIDE DEF DrainBeforeExit
<1>. QED
  BY <1>1, <1>2, <1>3, <1>5, <1>6, <1>7, <1>8, <1>9, <1>10 DEF Next, Caller, Worker

(* No worker leaves its loop over a handle that was queued before          *)
(* shutdown() began.                                                       *)
THEOREM DrainsBeforeExit == Spec => []DrainBeforeExit
<1>1. Init => StopFollowsShutdown /\ DrainBeforeExit
  BY ThreadsAssumption DEF Init, StopFollowsShutdown, DrainBeforeExit
<1>2. Spec => []TypeOK
  BY TypeCorrect
<1>. QED
  BY <1>1, <1>2, StopStep, DrainStep, PTL DEF Spec
-----------------------------------------------------------------------------
(* The counter.  size_ is exact: the strengthening says that a thread has  *)
(* handles on their way in only while it submits, and that what is counted *)
(* is finite, however many threads there are.                              *)
Submitting ==
  \A t \in Threads :
    /\ pc[t] # "push" => batch[t] = <<>>
    /\ pc[t] \notin {"push", "uncount"} => nulls[t] = 0

Counted ==
  /\ Submitting
  /\ IsFiniteSet(InFlight) /\ IsFiniteSet(Busy)
  /\ SizeAccounting

(* InFlight as a function of how much each thread has on its way.          *)
Load(b, n) == [t \in Threads |-> Len(b[t]) + n[t]]
Cells(f) == UNION {{t} \X (1..f[t]) : t \in Threads}

LEMMA LoadType ==
  ASSUME NEW b \in [Threads -> Seq(Handles)], NEW n \in [Threads -> Nat]
  PROVE  Load(b, n) \in [Threads -> Nat]
BY DEF Load

(* A thread whose load changes changes the number of cells by as much.     *)
LEMMA CellsChange ==
  ASSUME NEW f \in [Threads -> Nat], NEW g \in [Threads -> Nat], NEW t \in Threads,
         \A u \in Threads : u # t => g[u] = f[u],
         IsFiniteSet(Cells(f))
  PROVE  /\ IsFiniteSet(Cells(g))
         /\ Cardinality(Cells(g)) = Cardinality(Cells(f)) - f[t] + g[t]
<1> DEFINE old == {t} \X (1..f[t])
           new == {t} \X (1..g[t])
           rest == Cells(f) \ old
<1>1. ASSUME NEW k \in Nat
      PROVE  IsFiniteSet({t} \X (1..k)) /\ Cardinality({t} \X (1..k)) = k
  <2>1. IsFiniteSet({t}) /\ Cardinality({t}) = 1
    BY FS_Singleton, Zenon
  <2>2. IsFiniteSet(1..k) /\ Cardinality(1..k) = k
    <3>1. 1 \in Int /\ k \in Int
      OBVIOUS
    <3>2. IsFiniteSet(1..k) /\ Cardinality(1..k) = IF 1 > k THEN 0 ELSE k - 1 + 1
      BY <3>1, FS_Interval, Zenon
    <3>. QED
      BY <3>2
  <2>3. /\ IsFiniteSet({t} \X (1..k))
        /\ Cardinality({t} \X (1..k)) = Cardinality({t}) * Cardinality(1..k)
    BY <2>1, <2>2, FS_Product, Zenon
  <2>. QED
    BY <2>1, <2>2, <2>3
<1>2. f[t] \in Nat /\ g[t] \in Nat
  OBVIOUS
<1>3. Cells(f) \cap old = old
  BY DEF Cells
<1>4. Cells(g) = rest \cup new
  BY DEF Cells
<1>5. rest \cap new = {}
  BY DEF Cells
<1>6. /\ IsFiniteSet(old) /\ Cardinality(old) = f[t]
      /\ IsFiniteSet(new) /\ Cardinality(new) = g[t]
  BY <1>1, <1>2
<1> HIDE DEF old, new
<1>7. /\ IsFiniteSet(rest)
      /\ Cardinality(rest) = Cardinality(Cells(f)) - Cardinality(Cells(f) \cap old)
  BY FS_Difference, Zenon
<1> HIDE DEF rest
<1>8. /\ IsFiniteSet(rest \cup new)
      /\ Cardinality(rest \cup new)
           = Cardinality(rest) + Cardinality(new) - Cardinality(rest \cap new)
  BY <1>6, <1>7, FS_Union, Zenon
<1>9. Cardinality(Cells(f)) \in Nat /\ Cardinality(rest \cap new) = 0
  BY <1>5, FS_CardinalityType, FS_EmptySet, Zenon
<1>10. Cardinality(Cells(f) \cap old) = f[t]
  BY <1>3, <1>6, Zenon
<1>11. /\ IsFiniteSet(Cells(g))
       /\ Cardinality(Cells(g))
            = Cardinality(rest) + Cardinality(new) - Cardinality(rest \cap new)
  BY <1>4, <1>8, Zenon
<1>. QED
  BY <1>2, <1>6, <1>7, <1>9, <1>10, <1>11

(* The same, said of a step that gives one thread a new batch.             *)
LEMMA InFlightChange ==
  ASSUME TypeOK, TypeOK', NEW t \in Threads, IsFiniteSet(InFlight),
         \A u \in Threads : u # t => batch'[u] = batch[u] /\ nulls'[u] = nulls[u]
  PROVE  /\ IsFiniteSet(InFlight')
         /\ Cardinality(InFlight') = Cardinality(InFlight) - (Len(batch[t]) + nulls[t])
                                       + (Len(batch'[t]) + nulls'[t])
         /\ Cardinality(InFlight) \in Nat
         /\ Len(batch[t]) \in Nat /\ nulls[t] \in Nat
         /\ Len(batch'[t]) \in Nat /\ nulls'[t] \in Nat
<1> DEFINE f == Load(batch, nulls)
           g == Load(batch', nulls')
<1>1. f \in [Threads -> Nat] /\ g \in [Threads -> Nat]
  BY LoadType, Zenon DEF TypeOK
<1>2. /\ f[t] = Len(batch[t]) + nulls[t] /\ g[t] = Len(batch'[t]) + nulls'[t]
      /\ \A u \in Threads : u # t => g[u] = f[u]
  BY DEF Load
<1>3. InFlight = Cells(f) /\ InFlight' = Cells(g)
  BY Zenon DEF InFlight, Cells, Load
<1> HIDE DEF f, g
<1>4. /\ IsFiniteSet(Cells(g))
      /\ Cardinality(Cells(g)) = Cardinality(Cells(f)) - f[t] + g[t]
  BY <1>1, <1>2, <1>3, CellsChange, Zenon
<1>5. Cardinality(InFlight) \in Nat
  BY FS_CardinalityType, Zenon
<1>6. /\ Len(batch[t]) \in Nat /\ nulls[t] \in Nat
      /\ Len(batch'[t]) \in Nat /\ nulls'[t] \in Nat
  BY DEF TypeOK
<1>. QED
  BY <1>2, <1>3, <1>4, <1>5, <1>6

(* Steps that keep every batch, and steps that move no worker in or out of *)
(* Busy.                                                                   *)
LEMMA InFlightSame ==
  ASSUME UNCHANGED <<batch, nulls>>
  PROVE  InFlight' = InFlight
BY Zenon DEF InFlight

LEMMA BusySame ==
  ASSUME \A w \in Workers : (pc'[w] \in CallLabels \cup {"finish"})
                              <=> (pc[w] \in CallLabels \cup {"finish"})
  PROVE  Busy' = Busy
BY Zenon DEF Busy

(* The sum stays, when what is counted stays where it is.                  *)
LEMMA CountedSame ==
  ASSUME TypeOK, Counted, Submitting', UNCHANGED <<queue_, size_, batch, nulls>>, Busy' = Busy
  PROVE  Counted'
BY InFlightSame DEF Counted, SizeAccounting

(* A thread that begins to submit adds what it submits.                    *)
LEMMA CountedSubmit ==
  ASSUME TypeOK, TypeOK', Counted, Submitting', NEW t \in Threads,
         pc[t] \notin {"push", "uncount"},
         \A u \in Threads : u # t => batch'[u] = batch[u] /\ nulls'[u] = nulls[u],
         size_' = size_ + (Len(batch'[t]) + nulls'[t]), queue_' = queue_, Busy' = Busy
  PROVE  Counted'
<1>1. Len(batch[t]) + nulls[t] = 0
  BY DEF Counted, Submitting
<1>2. IsFiniteSet(InFlight)
  BY DEF Counted
<1>3. /\ IsFiniteSet(InFlight')
      /\ Cardinality(InFlight') = Cardinality(InFlight) - (Len(batch[t]) + nulls[t])
                                    + (Len(batch'[t]) + nulls'[t])
      /\ Cardinality(InFlight) \in Nat
      /\ Len(batch'[t]) \in Nat /\ nulls'[t] \in Nat
  BY <1>2, InFlightChange
<1>4. Cardinality(Busy) \in Nat /\ Len(queue_) \in Nat
  BY FS_CardinalityType DEF Counted, TypeOK
<1>5. size_ = Len(queue_) + Cardinality(InFlight) + Cardinality(Busy)
  BY DEF Counted, SizeAccounting
<1>6. size_' = Len(queue_) + Cardinality(InFlight') + Cardinality(Busy)
  <2>. DEFINE q == Len(queue_)
              f == Cardinality(InFlight)
              b == Cardinality(Busy)
              l == Len(batch[t]) + nulls[t]
              m == Len(batch'[t])
              n == nulls'[t]
  <2>1. q \in Nat /\ f \in Nat /\ b \in Nat /\ m \in Nat /\ n \in Nat
    BY <1>3, <1>4, Zenon
  <2>2. l = 0 /\ size_ = q + f + b /\ size_' = size_ + (m + n)
    BY <1>1, <1>5, Zenon
  <2>3. Cardinality(InFlight') = f - l + (m + n)
    BY <1>3, Zenon
  <2>. HIDE DEF q, f, b, l, m, n
  <2>4. size_' = q + Cardinality(InFlight') + b
    BY <2>1, <2>2, <2>3
  <2>. QED
    BY <2>4, Zenon DEF q, b
<1>. QED
  BY <1>3, <1>6, Zenon DEF Counted, SizeAccounting

(* Every step of the pool keeps the account.                               *)
LEMMA CountedStep == Typed /\ Typed' /\ Counted /\ [Next]_vars => Counted'
<1> SUFFICES ASSUME Typed, Typed', Counted, [Next]_vars PROVE Counted'
  OBVIOUS
<1> USE ThreadsAssumption DEF Typed
<1>0. /\ Cardinality(InFlight) \in Nat /\ Cardinality(Busy) \in Nat
      /\ Len(queue_) \in Nat /\ size_ \in Int
      /\ size_ = Len(queue_) + Cardinality(InFlight) + Cardinality(Busy)
  BY FS_CardinalityType DEF Counted, TypeOK, SizeAccounting
<1>1. ASSUME NEW t \in Threads, Caller(t) PROVE Counted'
  <2>1. CASE Schedule(t)
    <3>1. Busy' = Busy
      BY <2>1, BusySame DEF Schedule, CallLabels, TypeOK
    <3>2. Submitting'
      BY <2>1 DEF Schedule, Counted, Submitting, TypeOK
    <3>. QED
      BY <2>1, <3>1, <3>2, CountedSame DEF Schedule
  <2>2. CASE ScheduleSize(t)
    <3>1. Busy' = Busy
      BY <2>2, BusySame DEF ScheduleSize, CallLabels, TypeOK
    <3>2. Submitting'
      BY <2>2 DEF ScheduleSize, Counted, Submitting, TypeOK
    <3>3. size_' = size_ + (Len(batch'[t]) + nulls'[t])
      <4>1. nulls'[t] = nulls[t] /\ nulls[t] = 0
        BY <2>2 DEF ScheduleSize, Counted, Submitting
      <4>2. Len(batch'[t]) = 1 /\ size_' = size_ + 1
        BY <2>2 DEF ScheduleSize, TypeOK
      <4>. QED
        BY <1>0, <4>1, <4>2
    <3>. QED
      BY <2>2, <3>1, <3>2, <3>3, CountedSubmit, Zenon DEF ScheduleSize, TypeOK
  <2>3. CASE Push(t)
    <3>1. Busy' = Busy
      BY <2>3, BusySame DEF Push, CallLabels, TypeOK
    <3>2. Submitting'
      BY <2>3 DEF Push, Counted, Submitting, TypeOK
    <3>3. Len(queue_') = Len(queue_) + Len(batch[t]) /\ Len(batch'[t]) = 0 /\ nulls'[t] = nulls[t]
      BY <2>3 DEF Push, TypeOK
    <3>4. /\ IsFiniteSet(InFlight')
          /\ Cardinality(InFlight') = Cardinality(InFlight) - (Len(batch[t]) + nulls[t])
                                        + (Len(batch'[t]) + nulls'[t])
          /\ Len(batch[t]) \in Nat /\ nulls[t] \in Nat
      BY <2>3, InFlightChange DEF Push, Counted, TypeOK
    <3>. QED
      <4>1. size_' = Len(queue_') + Cardinality(InFlight') + Cardinality(Busy)
        BY <1>0, <2>3, <3>3, <3>4 DEF Push
      <4>. QED
        BY <3>1, <3>2, <3>4, <4>1, Zenon DEF Counted, SizeAccounting
  <2>4. CASE UncountNulls(t)
    <3>1. Busy' = Busy
      BY <2>4, BusySame DEF UncountNulls, CallLabels, TypeOK
    <3>2. Submitting'
      BY <2>4 DEF UncountNulls, Counted, Submitting, TypeOK
    <3>3. nulls'[t] = 0 /\ batch' = batch /\ queue_' = queue_
      BY <2>4 DEF UncountNulls, TypeOK
    <3>5. size_' = size_ - nulls[t]
      BY <2>4 DEF UncountNulls
    <3>6. nulls[t] \in Nat /\ Len(batch[t]) \in Nat
      BY DEF TypeOK
    <3>4. /\ IsFiniteSet(InFlight')
          /\ Cardinality(InFlight') = Cardinality(InFlight) - (Len(batch[t]) + nulls[t])
                                        + (Len(batch'[t]) + nulls'[t])
          /\ Len(batch[t]) \in Nat /\ nulls[t] \in Nat
      BY <2>4, InFlightChange DEF UncountNulls, Counted, TypeOK
    <3>. QED
      <4>. DEFINE q == Len(queue_)
                  f == Cardinality(InFlight)
                  b == Cardinality(Busy)
                  l == Len(batch[t])
                  n == nulls[t]
      <4>2. q \in Nat /\ f \in Nat /\ b \in Nat /\ l \in Nat /\ n \in Nat
        BY <1>0, <3>6, Zenon
      <4>3. size_ = q + f + b /\ size_' = size_ - n
        BY <1>0, <3>5, Zenon
      <4>4. Cardinality(InFlight') = f - (l + n) + (l + 0)
        BY <3>3, <3>4, Zenon
      <4>1. size_' = q + Cardinality(InFlight') + b
        <5>. HIDE DEF q, f, b, l, n
        <5>. QED
          BY <4>2, <4>3, <4>4
      <4>. QED
        BY <3>1, <3>2, <3>3, <3>4, <4>1, Zenon DEF Counted, SizeAccounting
  <2>5. CASE NotifyOne(t)
    <3>1. After(t) \in {"run", "finish", "idle"} /\ (t \in Workers => After(t) # "idle")
      BY DEF After
    <3>2. \A u \in Threads : u # t => pc'[u] = pc[u] \/ (pc[u] = "blocked" /\ pc'[u] = "lock")
      BY <2>5 DEF NotifyOne, TypeOK
    <3>3. pc[t] = "notify" /\ pc'[t] = After(t)
      BY <2>5 DEF NotifyOne, TypeOK
    <3>4. Busy' = Busy
      <4>1. \A w \in Workers : (pc'[w] \in CallLabels \cup {"finish"})
                                 <=> (pc[w] \in CallLabels \cup {"finish"})
        BY <3>1, <3>2, <3>3 DEF CallLabels
      <4>. QED
        BY <4>1, BusySame
    <3>5. Submitting'
      BY <2>5, <3>1, <3>2, <3>3 DEF NotifyOne, Counted, Submitting
    <3>. QED
      BY <2>5, <3>4, <3>5, CountedSame DEF NotifyOne
  <2>6. CASE RunEnd(t)
    <3>1. Busy' = Busy
      BY <2>6, BusySame DEF RunEnd, CallLabels, TypeOK
    <3>2. Submitting'
      BY <2>6 DEF RunEnd, Counted, Submitting, TypeOK
    <3>. QED
      BY <2>6, <3>1, <3>2, CountedSame DEF RunEnd
  <2>7. ASSUME NEW h \in Handles, Resume(t, h) PROVE Counted'
    <3>1. Busy' = Busy
      BY <2>7, BusySame DEF Resume, MayCall, CallLabels, TypeOK
    <3>2. Submitting'
      BY <2>7 DEF Resume, MayCall, Counted, Submitting, TypeOK
    <3>3. size_' = size_ + (Len(batch'[t]) + nulls'[t])
      <4>1. batch'[t] = <<h>> /\ nulls'[t] = nulls[t] /\ size_' = size_ + 1
        BY <2>7 DEF Resume, TypeOK
      <4>2. nulls[t] = 0
        BY <2>7 DEF Resume, MayCall, Counted, Submitting
      <4>3. Len(<<h>>) = 1
        OBVIOUS
      <4>. QED
        BY <1>0, <4>1, <4>2, <4>3
    <3>. QED
      BY <2>7, <3>1, <3>2, <3>3, CountedSubmit, Zenon DEF Resume, MayCall, TypeOK
  <2>8. ASSUME NEW b \in Batches, NEW n \in 0..MaxNulls, ResumeRange(t, b, n)
        PROVE  Counted'
    <3>0. b \in Seq(Handles) /\ n \in Nat /\ Len(b) \in Nat
      BY BatchIsSeq, BoundsAssumption
    <3>1. Busy' = Busy
      <4>1. /\ pc[t] \in {"run", "idle"} /\ pc'[t] = "push" /\ (t \in Workers => pc[t] = "run")
            /\ \A u \in Threads : u # t => pc'[u] = pc[u]
        BY <2>8 DEF ResumeRange, MayCall, TypeOK
      <4>. QED
        BY <4>1, BusySame DEF CallLabels
    <3>2. Submitting'
      <4>1. /\ pc'[t] = "push"
            /\ \A u \in Threads : u # t => UNCHANGED <<pc[u], batch[u], nulls[u]>>
        BY <2>8 DEF ResumeRange, TypeOK
      <4>. QED
        BY <4>1 DEF Counted, Submitting
    <3>3. batch'[t] = b /\ nulls'[t] = n /\ size_' = size_ + Len(b) + n
      BY <2>8 DEF ResumeRange, TypeOK
    <3>4. size_' = size_ + (Len(batch'[t]) + nulls'[t])
      BY <1>0, <3>0, <3>3
    <3>. QED
      BY <2>8, <3>1, <3>2, <3>4, CountedSubmit, Zenon DEF ResumeRange, MayCall, TypeOK
  <2>. QED
    BY <1>1, <2>1, <2>2, <2>3, <2>4, <2>5, <2>6, <2>7, <2>8 DEF Caller
<1>2. ASSUME NEW c \in Clients, Client(c) PROVE Counted'
  <2>1. ASSUME NEW h \in Handles, Start(c, h) PROVE Counted'
    <3>1. Busy' = Busy
      BY <2>1, BusySame DEF Start, CallLabels, TypeOK
    <3>2. Submitting'
      BY <2>1 DEF Start, Counted, Submitting, TypeOK
    <3>. QED
      BY <2>1, <3>1, <3>2, CountedSame DEF Start
  <2>2. CASE Shutdown(c) \/ Join(c)
    <3>1. Busy' = Busy
      BY <2>2, BusySame DEF Shutdown, Join, CallLabels, TypeOK
    <3>2. Submitting'
      BY <2>2 DEF Shutdown, Join, Counted, Submitting, TypeOK
    <3>. QED
      BY <2>2, <3>1, <3>2, CountedSame DEF Shutdown, Join
  <2>3. ASSUME NEW w \in Workers, RequestStop(c, w) PROVE Counted'
    <3>1. /\ pc[c] = "stopping" /\ pc'[c] \in {"stopping", "joining"}
          /\ \A u \in Threads : u # c =>
               pc'[u] = pc[u] \/ (pc[u] = "blocked" /\ pc'[u] = "lock")
      BY <2>3 DEF RequestStop, WakeAll, TypeOK
    <3>2. Busy' = Busy
      <4>1. \A v \in Workers : (pc'[v] \in CallLabels \cup {"finish"})
                                 <=> (pc[v] \in CallLabels \cup {"finish"})
        BY <3>1 DEF CallLabels
      <4>. QED
        BY <4>1, BusySame
    <3>3. Submitting'
      BY <2>3, <3>1 DEF RequestStop, Counted, Submitting
    <3>. QED
      BY <2>3, <3>2, <3>3, CountedSame DEF RequestStop
  <2>. QED
    BY <1>2, <2>1, <2>2, <2>3 DEF Client
<1>3. ASSUME NEW w \in Workers, Worker(w) PROVE Counted'
  <2>1. CASE Enter(w) \/ Wait(w) \/ SpuriousWakeup(w)
    <3>1. Busy' = Busy
      BY <2>1, BusySame DEF Enter, Wait, SpuriousWakeup, CallLabels, TypeOK
    <3>2. Submitting'
      BY <2>1 DEF Enter, Wait, SpuriousWakeup, Counted, Submitting, TypeOK
    <3>. QED
      BY <2>1, <3>1, <3>2, CountedSame DEF Enter, Wait, SpuriousWakeup
  <2>2. CASE Pop(w)
    <3>1. Busy' = Busy \cup {w} /\ w \notin Busy
      BY <2>2 DEF Pop, Busy, CallLabels, TypeOK
    <3>2. IsFiniteSet(Busy') /\ Cardinality(Busy') = Cardinality(Busy) + 1
      BY <3>1, FS_AddElement, Zenon DEF Counted
    <3>3. Submitting'
      BY <2>2 DEF Pop, Counted, Submitting, TypeOK
    <3>4. Len(queue_') = Len(queue_) - 1
      BY <2>2 DEF Pop, TypeOK
    <3>5. InFlight' = InFlight
      BY <2>2, InFlightSame DEF Pop
    <3>. QED
      <4>1. size_' = Len(queue_') + Cardinality(InFlight) + Cardinality(Busy')
        <5>1. size_' = size_
          BY <2>2 DEF Pop
        <5>. QED
          BY <1>0, <3>2, <3>4, <5>1
      <4>. QED
        BY <3>2, <3>3, <3>5, <4>1, Zenon DEF Counted, SizeAccounting
  <2>3. CASE UncountRun(w)
    <3>1. Busy' = Busy \ {w} /\ w \in Busy
      BY <2>3 DEF UncountRun, Busy, CallLabels, TypeOK
    <3>2. IsFiniteSet(Busy') /\ Cardinality(Busy') = Cardinality(Busy) - 1
      BY <3>1, FS_RemoveElement, Zenon DEF Counted
    <3>3. Submitting'
      BY <2>3 DEF UncountRun, Counted, Submitting, TypeOK
    <3>4. InFlight' = InFlight
      BY <2>3, InFlightSame DEF UncountRun
    <3>. QED
      <4>1. size_' = Len(queue_') + Cardinality(InFlight) + Cardinality(Busy')
        <5>1. size_' = size_ - 1 /\ queue_' = queue_
          BY <2>3 DEF UncountRun
        <5>. QED
          BY <1>0, <3>2, <5>1
      <4>. QED
        BY <3>2, <3>3, <3>4, <4>1, Zenon DEF Counted, SizeAccounting
  <2>. QED
    BY <1>3, <2>1, <2>2, <2>3 DEF Worker
<1>4. CASE UNCHANGED vars
  <2>1. Busy' = Busy /\ Submitting'
    BY <1>4, Zenon DEF vars, Busy, Counted, Submitting
  <2>. QED
    BY <1>4, <2>1, CountedSame DEF vars
<1>. QED
  BY <1>1, <1>2, <1>3, <1>4 DEF Next

(* size_ counts exactly the work the pool has accepted and not finished,   *)
(* at every instant and for any number of threads: empty() is true only    *)
(* when nothing is queued, being submitted or executed by a worker.        *)
THEOREM SizeExact == Spec => []SizeAccounting
<1>1. Init => Counted
  <2> SUFFICES ASSUME Init PROVE Counted
    OBVIOUS
  <2>1. InFlight = {} /\ Busy = {}
    BY ThreadsAssumption DEF Init, InFlight, Busy, CallLabels
  <2>. QED
    BY <2>1, FS_EmptySet DEF Init, Counted, Submitting, SizeAccounting
<1>2. Counted => SizeAccounting
  BY DEF Counted
<1>. QED
  BY <1>1, <1>2, CountedStep, TypedAlways, PTL DEF Spec
-----------------------------------------------------------------------------
(* sync_wait(when_all(tasks)).                                             *)

Pending == Tasks \ Completed

(* The latch is exact: it counts the tasks that have not finished, and the *)
(* awaiter until it has given up its share.                                *)
LatchExact ==
  count_ = Cardinality(Pending) + (IF apc \in {"starting", "stored"} THEN 1 ELSE 0)

(* The last task has found every other one finished.                       *)
LastIsLast == \A t \in Tasks : tpc[t] = "last" => Completed = Tasks

Handle == apc # "starting" => awaiting_co_ = "caller"

(* What the event and the caller's position say of the coroutine.          *)
EventFollows ==
  /\ set_ = "set" => apc \in {"notifying", "final"}
  /\ mpc = "returned" => set_ = "set"

WhenAllInv ==
  /\ WhenAllTypeOK /\ LatchExact /\ LastIsLast /\ Handle /\ EventFollows
  /\ ResumedAfterAll /\ ResumedOnce

LEMMA PendingFinite == IsFiniteSet(Pending) /\ Cardinality(Pending) \in Nat
BY TasksAssumption, FS_Subset, FS_CardinalityType DEF Pending

(* A task that finishes leaves one less.                                   *)
LEMMA OneLess ==
  ASSUME NEW t \in Pending
  PROVE  /\ Cardinality(Pending \ {t}) = Cardinality(Pending) - 1
         /\ Cardinality(Pending) >= 1
         /\ Cardinality(Pending) = 1 => Pending = {t}
<1>1. IsFiniteSet(Pending \ {t}) /\ Cardinality(Pending \ {t}) = Cardinality(Pending) - 1
  BY PendingFinite, FS_RemoveElement
<1>2. Cardinality(Pending \ {t}) \in Nat
  BY <1>1, FS_CardinalityType
<1>3. Cardinality(Pending) = 1 => Pending \ {t} = {}
  BY <1>1, FS_EmptySet
<1>. QED
  BY <1>1, <1>2, <1>3, PendingFinite

LEMMA WhenAllInvInit == WhenAllInit => WhenAllInv
<1> SUFFICES ASSUME WhenAllInit PROVE WhenAllInv
  OBVIOUS
<1> USE DEF WhenAllInit
<1>1. Pending = Tasks
  BY DEF Pending, Completed
<1>2. Cardinality(Tasks) \in Nat
  BY TasksAssumption, FS_CardinalityType
<1>3. WhenAllTypeOK
  BY <1>2 DEF WhenAllTypeOK
<1>4. LatchExact
  BY <1>1 DEF LatchExact
<1>. QED
  BY <1>3, <1>4 DEF WhenAllInv, LastIsLast, Handle, EventFollows, ResumedAfterAll, ResumedOnce

LEMMA WhenAllInvStep == WhenAllInv /\ [WhenAllNext]_wvars => WhenAllInv'
<1> SUFFICES ASSUME WhenAllInv, [WhenAllNext]_wvars PROVE WhenAllInv'
  OBVIOUS
<1> USE DEF WhenAllInv, LastIsLast, Handle, EventFollows, ResumedAfterAll, ResumedOnce
<1>0. Cardinality(Pending) \in Nat
  BY PendingFinite
<1>1. ASSUME NEW t \in Tasks, StartTask(t) \/ Suspend(t) PROVE WhenAllInv'
  <2>1. Completed' = Completed /\ Pending' = Pending
    BY <1>1 DEF StartTask, Suspend, Completed, Pending, WhenAllTypeOK
  <2>2. WhenAllTypeOK'
    BY <1>1 DEF StartTask, Suspend, WhenAllTypeOK
  <2>3. LatchExact'
    BY <1>1, <2>1 DEF StartTask, Suspend, LatchExact
  <2>. QED
    BY <1>1, <2>1, <2>2, <2>3 DEF StartTask, Suspend, WhenAllTypeOK
<1>2. ASSUME NEW t \in Tasks, NotifyCompleted(t) PROVE WhenAllInv'
  <2>1. t \in Pending
    BY <1>2 DEF NotifyCompleted, Pending, Completed
  <2>2. Pending' = Pending \ {t} /\ Completed' = Completed \cup {t}
    BY <1>2 DEF NotifyCompleted, Pending, Completed, WhenAllTypeOK
  <2>3. LatchExact'
    BY <1>0, <1>2, <2>1, <2>2, OneLess DEF NotifyCompleted, LatchExact
  <2>c. /\ Cardinality(Pending) >= 1 /\ count_ >= 1
        /\ Cardinality(Pending) = 1 => Pending = {t}
    <3>1. /\ Cardinality(Pending) >= 1
          /\ Cardinality(Pending) = 1 => Pending = {t}
      BY <2>1, OneLess
    <3>2. count_ >= 1
      BY <1>0, <3>1 DEF LatchExact
    <3>. QED
      BY <3>1, <3>2
  <2>4. WhenAllTypeOK'
    <3>1. count_' \in Nat
      BY <1>2, <2>c DEF NotifyCompleted, WhenAllTypeOK
    <3>2. tpc' \in [Tasks -> {"new", "inline", "away", "last", "done"}]
      BY <1>2 DEF NotifyCompleted, WhenAllTypeOK
    <3>. QED
      BY <1>2, <3>1, <3>2 DEF NotifyCompleted, WhenAllTypeOK
  <2>5. /\ apc \in {"starting", "stored", "suspended"}
        /\ \A u \in Tasks : tpc[u] # "last"
    BY <2>1 DEF Pending, WhenAllTypeOK
  <2>6. count_ = 1 => apc = "suspended" /\ Completed' = Tasks
    <3>1. count_ = 1 => apc = "suspended" /\ Pending = {t}
      BY <1>0, <2>c, <2>5 DEF LatchExact
    <3>2. Tasks = Pending \cup Completed
      BY DEF Pending, Completed
    <3>. QED
      BY <2>2, <3>1, <3>2
  <2>7. LastIsLast' /\ ResumedOnce'
    BY <1>2, <2>5, <2>6 DEF NotifyCompleted, WhenAllTypeOK
  <2>8. Handle' /\ EventFollows' /\ ResumedAfterAll'
    BY <1>2, <2>5 DEF NotifyCompleted
  <2>. QED
    BY <2>3, <2>4, <2>7, <2>8
<1>3. ASSUME NEW t \in Tasks, ResumeAwaiting(t) PROVE WhenAllInv'
  <2>1. Completed' = Completed /\ Pending' = Pending /\ Completed = Tasks
    BY <1>3 DEF ResumeAwaiting, Completed, Pending, WhenAllTypeOK
  <2>2. apc = "suspended" /\ apc' = "body" /\ awaiting_co_ = "caller"
    BY <1>3 DEF ResumeAwaiting
  <2>3. WhenAllTypeOK'
    BY <1>3 DEF ResumeAwaiting, WhenAllTypeOK
  <2>4. LatchExact'
    BY <1>3, <2>1, <2>2 DEF ResumeAwaiting, LatchExact
  <2>. QED
    BY <1>3, <2>1, <2>2, <2>3, <2>4 DEF ResumeAwaiting, WhenAllTypeOK
<1>4. CASE TryAwaitStore \/ TryAwaitSub
  <2>1. Completed' = Completed /\ Pending' = Pending /\ tpc' = tpc
    BY <1>4 DEF TryAwaitStore, TryAwaitSub, Completed, Pending
  <2>2. WhenAllTypeOK' /\ LatchExact'
    BY <1>0, <1>4, <2>1 DEF TryAwaitStore, TryAwaitSub, WhenAllTypeOK, LatchExact
  <2>3. \A u \in Tasks : tpc[u] # "last"
    BY <1>4 DEF TryAwaitStore, TryAwaitSub
  <2>4. CASE TryAwaitStore
    BY <2>1, <2>2, <2>3, <2>4 DEF TryAwaitStore
  <2>5. CASE TryAwaitSub /\ count_ > 1
    <3>1. apc' = "suspended" /\ apc = "stored" /\ mpc' = "wait"
      BY <2>5 DEF TryAwaitSub, WhenAllTypeOK
    <3>2. UNCHANGED <<awaiting_co_, set_>>
      BY <2>5 DEF TryAwaitSub
    <3>. QED
      BY <2>1, <2>2, <2>3, <3>1, <3>2
  <2>6. CASE TryAwaitSub /\ count_ <= 1
    <3>1. Cardinality(Pending) = 0
      BY <1>0, <2>6 DEF TryAwaitSub, LatchExact
    <3>2. Completed = Tasks
      BY <3>1, PendingFinite, FS_EmptySet DEF Pending, Completed
    <3>. QED
      BY <2>1, <2>2, <2>3, <2>6, <3>2 DEF TryAwaitSub
  <2>. QED
    BY <1>4, <2>4, <2>5, <2>6 DEF WhenAllTypeOK
<1>5. CASE EventSet \/ EventNotify \/ EventWait \/ EventWakesSpuriously
  <2>1. Completed' = Completed /\ Pending' = Pending /\ UNCHANGED <<tpc, awaiting_co_>>
    BY <1>5 DEF EventSet, EventNotify, EventWait, EventWakesSpuriously, Completed, Pending
  <2>2. WhenAllTypeOK' /\ LatchExact'
    BY <1>5, <2>1 DEF EventSet, EventNotify, EventWait, EventWakesSpuriously, WhenAllTypeOK, LatchExact
  <2>3. LastIsLast' /\ Handle' /\ ResumedAfterAll' /\ ResumedOnce'
    BY <1>5, <2>1 DEF EventSet, EventNotify, EventWait, EventWakesSpuriously
  <2>4. EventFollows'
    BY <1>5 DEF EventSet, EventNotify, EventWait, EventWakesSpuriously
  <2>. QED
    BY <2>2, <2>3, <2>4
<1>6. CASE UNCHANGED wvars
  BY <1>6 DEF wvars, WhenAllTypeOK, LatchExact, Completed, Pending
<1> HIDE DEF WhenAllInv
<1>. QED
  BY <1>1, <1>2, <1>3, <1>4, <1>5, <1>6 DEF WhenAllNext, Task

LEMMA WhenAllInvAlways == WhenAllSpec => []WhenAllInv
BY WhenAllInvInit, WhenAllInvStep, PTL DEF WhenAllSpec

(* The awaiting coroutine goes on only after every task.                   *)
THEOREM AfterAll == WhenAllSpec => []ResumedAfterAll
BY WhenAllInvAlways, PTL DEF WhenAllInv

(* Exactly one of the tasks and the awaiter goes on with the coroutine.    *)
THEOREM Once == WhenAllSpec => []ResumedOnce
BY WhenAllInvAlways, PTL DEF WhenAllInv

(* sync_wait returns, and destroys the frames, only when none is running.  *)
THEOREM ReturnIsLast == WhenAllSpec => []ReturnsAfterAll
<1>1. WhenAllInv => ReturnsAfterAll
  BY DEF WhenAllInv, EventFollows, ResumedAfterAll, ResumedOnce, ReturnsAfterAll,
         Completed, WhenAllTypeOK
<1>. QED
  BY <1>1, WhenAllInvAlways, PTL
=============================================================================

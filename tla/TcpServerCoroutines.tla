------------------------ MODULE TcpServerCoroutines -------------------------
(***************************************************************************)
(* The steps of the coroutines keep the invariant of TcpServer: those that *)
(* serve the connections and the one that accepts them.                    *)
(***************************************************************************)
EXTENDS TcpServerInvariant

-----------------------------------------------------------------------------
(* Parts of the invariant that a step leaves as they are, and parts of it  *)
(* for one task.                                                           *)

LEMMA MappedSame ==
  ASSUME Mapped, UNCHANGED <<clients_, conn>>
  PROVE  Mapped'
BY DEF Mapped, Live

LEMMA AddQueuedSame ==
  ASSUME AddQueued, UNCHANGED <<tasks, conn>>
  PROVE  AddQueued'
BY DEF AddQueued

LEMMA EventsSame ==
  ASSUME Events, UNCHANGED <<fds_, raced, listening, epoll>>,
         \A d \in Clients : /\ Reading(d)' <=> Reading(d)
                            /\ Reading(d) => conn'[d] = conn[d]
                            /\ conn'[d].st # "none" => conn'[d] = conn[d]
  PROVE  Events'
<1>. SUFFICES ASSUME raced = "no" PROVE Events'
  BY Zenon DEF Events
<1>1. /\ \A d \in Clients : conn[d].st # "none" =>
           conn[d].fd \in DOMAIN fds_ /\ conn[d].fe = fds_[conn[d].fd]
      /\ \A fe \in listening : \E d \in Clients : Reading(d) /\ conn[d].fe = fe
      /\ \A d \in Clients : Reading(d) => conn[d].fd \in epoll[conn[d].t]
      /\ \A i \in DOMAIN fds_ : fds_[i][1] = i
  BY Zenon DEF Events
<1>2. ASSUME NEW d \in Clients, conn'[d].st # "none"
      PROVE  conn'[d].fd \in DOMAIN fds_ /\ conn'[d].fe = fds_[conn'[d].fd]
  BY <1>1, <1>2, Zenon
<1>3. ASSUME NEW fe \in listening PROVE \E d \in Clients : Reading(d)' /\ conn'[d].fe = fe
  BY <1>1, Zenon
<1>4. ASSUME NEW d \in Clients, Reading(d)' PROVE conn'[d].fd \in epoll[conn'[d].t]
  BY <1>1, <1>4, Zenon
<1>. QED
  BY <1>1, <1>2, <1>3, <1>4, Zenon DEF Events

(* Task i of thread t, and no other of the thread, adds client c.          *)
AddsOnce(t, i, c) ==
  /\ conn[c].st = "none" /\ conn[c].t = t /\ conn[c].fd # 0
  /\ \A j \in DOMAIN tasks[t] : tasks[t][j] = <<"add", c>> => j = i

LEMMA QueuedAdd ==
  ASSUME Inv, NEW t \in Threads, NEW i \in DOMAIN tasks[t], NEW c, tasks[t][i] = <<"add", c>>
  PROVE  AddsOnce(t, i, c)
<1>1. AddQueued
  BY Zenon DEF Inv
<1>2. tasks[t][i][1] = "add" /\ tasks[t][i][2] = c
  OBVIOUS
<1>. QED
  BY <1>1, <1>2 DEF AddQueued, AddsOnce

LEMMA NotQueued ==
  ASSUME Inv, NEW c, conn[c].fd = 0
  PROVE  \A t \in Threads : \A i \in DOMAIN tasks[t] : tasks[t][i] # <<"add", c>>
BY QueuedAdd DEF AddsOnce

LEMMA AddQueuedIf ==
  ASSUME tasks' \in [Threads -> Seq(Tasks)],
         \A t \in Threads : \A i \in DOMAIN tasks'[t] : \A c \in Clients :
           tasks'[t][i] = <<"add", c>> =>
             /\ conn'[c].st = "none" /\ conn'[c].t = t /\ conn'[c].fd # 0
             /\ \A j \in DOMAIN tasks'[t] : tasks'[t][j] = <<"add", c>> => j = i
  PROVE  AddQueued'
<1>1. ASSUME NEW t \in Threads, NEW i \in DOMAIN tasks'[t], tasks'[t][i][1] = "add"
      PROVE  LET c == tasks'[t][i][2]
             IN /\ conn'[c].st = "none" /\ conn'[c].t = t /\ conn'[c].fd # 0
                /\ \A j \in DOMAIN tasks'[t] : tasks'[t][j] = tasks'[t][i] => j = i
  <2>1. tasks'[t][i] \in Tasks
    OBVIOUS
  <2>2. PICK c \in Clients : tasks'[t][i] = <<"add", c>>
    BY <1>1, <2>1, TaskKinds
  <2>3. tasks'[t][i][2] = c
    BY <2>2
  <2>4. /\ conn'[c].st = "none" /\ conn'[c].t = t /\ conn'[c].fd # 0
        /\ \A j \in DOMAIN tasks'[t] : tasks'[t][j] = <<"add", c>> => j = i
    BY <2>2
  <2>. QED
    BY <2>2, <2>3, <2>4, Zenon
<1>. QED
  BY <1>1, Zenon DEF AddQueued

LEMMA GrowingTask ==
  ASSUME Inv, NEW t \in Threads, iopc[t] = "grow"
  PROVE  /\ tasks[t] # <<>> /\ tasks[t] \in Seq(Tasks) /\ Head(tasks[t]) \in Tasks
         /\ 1 \in DOMAIN tasks[t] /\ tasks[t][1] = Head(tasks[t])
         /\ \A c : Head(tasks[t]) = <<"add", c>> => conn[c].addr >= c
         /\ Head(tasks[t])[1] = "run" => cofunc[t][Head(tasks[t])[2]].s = "ready"
<1>1. /\ tasks[t] # <<>>
      /\ Head(tasks[t])[1] = "add" => conn[Head(tasks[t])[2]].addr >= Head(tasks[t])[2]
      /\ Head(tasks[t])[1] = "run" => cofunc[t][Head(tasks[t])[2]].s = "ready"
  BY Zenon DEF Inv, Growing
<1>2. tasks[t] \in Seq(Tasks)
  BY Zenon DEF Inv, Typed, IOTyped
<1>3. Head(tasks[t]) \in Tasks /\ 1 \in DOMAIN tasks[t] /\ tasks[t][1] = Head(tasks[t])
  BY <1>1, <1>2
<1>4. ASSUME NEW c, Head(tasks[t]) = <<"add", c>> PROVE conn[c].addr >= c
  <2>1. Head(tasks[t])[1] = "add" /\ Head(tasks[t])[2] = c
    BY <1>4
  <2>. QED
    BY <1>1, <2>1, Zenon
<1>. QED
  BY <1>1, <1>2, <1>3, <1>4, Zenon

LEMMA TailOf ==
  ASSUME NEW S, NEW q \in Seq(S), q # <<>>
  PROVE  /\ Tail(q) \in Seq(S)
         /\ \A i \in DOMAIN Tail(q) :
              i \in Nat /\ 1 < i + 1 /\ i + 1 \in DOMAIN q /\ Tail(q)[i] = q[i + 1]
OBVIOUS

-----------------------------------------------------------------------------
(* A coroutine clears its client.                                          *)

(* The current task is left in place or done.                              *)
TaskDone(t) == tasks' = tasks \/ (tasks[t] # <<>> /\ tasks' = [tasks EXCEPT ![t] = Tail(@)])

Reads(t, c) == conn[c].t = t /\ Reading(c)

LEMMA ClearInv ==
  ASSUME Inv, NEW t \in Threads, NEW c \in Clients, Reads(t, c), iopc[t] = "loop",
         ClearClient(t, c), mpc' \in {mpc, "dead"},
         TaskDone(t),
         UNCHANGED <<ready, peer, size_, index_, backlog, arrived, fds_, copied, raced, iopc,
                     clients_, wheel_, pool>>
  PROVE  Inv'
<1>0. PICK k, fd, fe : k = conn[c].cor /\ fd = conn[c].fd /\ fe = conn[c].fe
  BY Zenon
<1>1. /\ listening' = listening \ {fe} /\ epoll' = [epoll EXCEPT ![t] = @ \ {fd}]
      /\ opened' = opened \ {fd} /\ conn' = [conn EXCEPT ![c].st = "Closed"]
      /\ cofunc' = [cofunc EXCEPT ![t][k].s = "done"]
  BY <1>0, Zenon DEF ClearClient
<1>2. /\ conn[c].st \in Open /\ k \in DOMAIN cofunc[t] /\ cofunc[t][k].s = "in" /\ cofunc[t][k].c = c
      /\ Owner(c) /\ fd # 0
  BY <1>0 DEF Reads, Reading, InCoFunc, Owner, Inv, Arrivals, Open
<1>3. conn' = [conn EXCEPT ![c] = conn'[c]] /\ conn'[c] = [conn[c] EXCEPT !.st = "Closed"]
  BY <1>1, Zenon DEF Inv, Typed, ConnTyped
<1>4. /\ conn'[c] \in ConnRecords /\ conn'[c].st = "Closed"
      /\ conn'[c].t = conn[c].t /\ conn'[c].fd = conn[c].fd /\ conn'[c].addr = conn[c].addr
      /\ conn'[c].cor = conn[c].cor /\ conn'[c].fe = conn[c].fe
  <2>1. conn[c] \in ConnRecords
    BY ConnFields
  <2>2. "Closed" \in States
    BY DEF States
  <2>3. [conn[c] EXCEPT !.st = "Closed"] \in ConnRecords
    BY <2>1, <2>2, Zenon DEF ConnRecords
  <2>. QED
    BY <1>3, <2>1, <2>3 DEF ConnRecords
<1>5. ConnTyped' /\ \A d \in Clients : d # c => conn'[d] = conn[d]
  BY <1>3, <1>4, Zenon DEF Inv, Typed, ConnTyped, ConnRecords
<1>6. MainTyped' /\ FdsTyped'
  BY <1>1 DEF Inv, Typed, MainTyped, FdsTyped
<1>7. /\ tasks' \in [Threads -> Seq(Tasks)]
      /\ \A u \in Threads : u # t => tasks'[u] = tasks[u]
      /\ \A u \in Threads : \E o \in {0, 1} : \A i \in DOMAIN tasks'[u] :
           i + o \in DOMAIN tasks[u] /\ tasks'[u][i] = tasks[u][i + o]
  <2>1. tasks \in [Threads -> Seq(Tasks)]
    BY DEF Inv, Typed, IOTyped
  <2>2. ASSUME NEW u \in Threads PROVE \A i \in DOMAIN tasks[u] : i + 0 = i
    BY <2>1
  <2>3. CASE tasks' = tasks
    BY <2>1, <2>2, <2>3, Zenon
  <2>4. CASE tasks[t] # <<>> /\ tasks' = [tasks EXCEPT ![t] = Tail(@)]
    <3>1. /\ tasks' \in [Threads -> Seq(Tasks)]
          /\ \A u \in Threads : u # t => tasks'[u] = tasks[u]
          /\ \A i \in DOMAIN tasks'[t] : i + 1 \in DOMAIN tasks[t] /\ tasks'[t][i] = tasks[t][i + 1]
      BY <2>4, DroppedTask, Zenon
    <3>. QED
      BY <2>2, <3>1, Zenon
  <2>. QED
    BY <2>3, <2>4 DEF TaskDone
<1>8. /\ DOMAIN cofunc' = Threads /\ \A u \in Threads : DOMAIN cofunc'[u] = DOMAIN cofunc[u]
      /\ cofunc'[t][k] = [cofunc[t][k] EXCEPT !.s = "done"]
      /\ \A u \in Threads : \A j \in DOMAIN cofunc[u] :
           u # t \/ j # k => cofunc'[u][j] = cofunc[u][j]
  BY <1>1, <1>2, Zenon DEF Inv, Typed, IOTyped
<1>9. IOTyped'
  <2>1. cofunc'[t][k] \in [s : {"ready", "in", "done"}, c : Clients]
    <3>1. cofunc[t][k] \in [s : {"ready", "in", "done"}, c : Clients]
      BY <1>2 DEF Inv, Typed, IOTyped
    <3>. QED
      BY <1>8, <3>1, Zenon
  <2>2. epoll' \in [Threads -> SUBSET Fds]
    BY <1>1 DEF Inv, Typed, IOTyped
  <2>3. ASSUME NEW u \in Threads
        PROVE  /\ DOMAIN cofunc'[u] \subseteq Nat
               /\ \A j \in DOMAIN cofunc'[u] :
                    cofunc'[u][j] \in [s : {"ready", "in", "done"}, c : Clients]
    <3>1. /\ DOMAIN cofunc[u] \subseteq Nat
          /\ \A j \in DOMAIN cofunc[u] :
               cofunc[u][j] \in [s : {"ready", "in", "done"}, c : Clients]
      BY DEF Inv, Typed, IOTyped
    <3>2. DOMAIN cofunc'[u] = DOMAIN cofunc[u]
      BY <1>8
    <3>3. ASSUME NEW j \in DOMAIN cofunc[u]
          PROVE  cofunc'[u][j] \in [s : {"ready", "in", "done"}, c : Clients]
      <4>1. (u = t /\ j = k) \/ cofunc'[u][j] = cofunc[u][j]
        BY <1>8
      <4>. QED
        BY <2>1, <3>1, <4>1, Zenon
    <3>. QED
      BY <3>1, <3>2, <3>3, Zenon
  <2>4. IOTyped /\ UNCHANGED <<iopc, clients_, wheel_, pool>>
    BY DEF Inv, Typed
  <2>5. tasks' \in [Threads -> Seq(Tasks)] /\ DOMAIN cofunc' = Threads
    BY <1>7, <1>8
  <2>. QED
    BY <2>2, <2>3, <2>4, <2>5, Zenon DEF IOTyped
<1>10. Arrivals'
  BY <1>4, <1>5, <1>2 DEF Inv, Arrivals, Open
<1>11. Owned'
  <2>1. ~ Owner(c)'
    BY <1>4 DEF Owner, Open
  <2>2. \A d \in Clients : d # c => (Owner(d)' <=> Owner(d)) /\ conn'[d].fd = conn[d].fd
    BY <1>5 DEF Owner
  <2>3. \A d \in Clients : d # c /\ Owner(d) => conn[d].fd # fd
    BY <1>0, <1>2, Zenon DEF Inv, Owned
  <2>4. \A d \in Clients : Owner(d)' => conn'[d].fd \in opened'
    BY <1>1, <2>1, <2>2, <2>3 DEF Inv, Owned
  <2>5. \A d, e \in Clients : Owner(d)' /\ Owner(e)' /\ conn'[d].fd = conn'[e].fd => d = e
    BY <2>1, <2>2, Zenon DEF Inv, Owned
  <2>6. \A f \in opened' : \E d \in Clients : Owner(d)' /\ conn'[d].fd = f
    <3>. SUFFICES ASSUME NEW f \in opened' PROVE \E d \in Clients : Owner(d)' /\ conn'[d].fd = f
      OBVIOUS
    <3>1. f \in opened /\ f # fd
      BY <1>1
    <3>2. PICK d \in Clients : Owner(d) /\ conn[d].fd = f
      BY <3>1 DEF Inv, Owned
    <3>. QED
      BY <1>0, <2>2, <3>1, <3>2
  <2>. QED
    BY <2>4, <2>5, <2>6, Zenon DEF Owned
<1>12. AddQueued'
  <2>1. ASSUME NEW u \in Threads, NEW d \in Clients,
               \E i \in DOMAIN tasks'[u] : tasks'[u][i] = <<"add", d>>
        PROVE  conn'[d].st = conn[d].st /\ conn'[d].t = conn[d].t /\ conn'[d].fd = conn[d].fd
    <3>0. PICK o \in {0, 1} : \A i \in DOMAIN tasks'[u] :
            i + o \in DOMAIN tasks[u] /\ tasks'[u][i] = tasks[u][i + o]
      BY <1>7, Zenon
    <3>1. \E i \in DOMAIN tasks[u] : tasks[u][i] = <<"add", d>>
      BY <2>1, <3>0, Zenon
    <3>2. conn[d].st = "none"
      BY <3>1 DEF Inv, AddQueued
    <3>. QED
      BY <1>2, <1>5, <3>2 DEF Open
  <2>2. tasks' \in [Threads -> Seq(Tasks)]
    BY <1>7
  <2>3. \A u \in Threads : \E o \in {0, 1} : \A i \in DOMAIN tasks'[u] :
          tasks'[u][i][1] = "add" => i + o \in DOMAIN tasks[u] /\ tasks'[u][i] = tasks[u][i + o]
    BY <1>7, Zenon
  <2>. QED
    BY <2>1, <2>2, <2>3, AddQueuedKept, Zenon
<1>13. RunQueued'
  BY <1>7, <1>8, RunQueuedKept
<1>14. Growing'
  <2>1. \A u \in Threads : iopc'[u] = "grow" =>
           /\ iopc[u] = "grow" /\ tasks'[u] = tasks[u]
           /\ \A j \in DOMAIN cofunc[u] : cofunc'[u][j] = cofunc[u][j]
    BY <1>7, <1>8
  <2>2. \A d \in Clients : conn'[d].addr = conn[d].addr
    BY <1>4, <1>5
  <2>. QED
    BY <2>1, <2>2, GrowingKept, FirstOf
<1>15. \A d \in Clients : /\ Live(d)' <=> Live(d)
                          /\ conn'[d].fd = conn[d].fd /\ conn'[d].t = conn[d].t
                          /\ conn'[d].cor = conn[d].cor /\ conn'[d].fe = conn[d].fe
                          /\ conn'[d].addr = conn[d].addr
  BY <1>2, <1>4, <1>5 DEF Live, Open
<1>16. Mapped'
  <2>1. ASSUME NEW u \in Threads, NEW f \in Fds, NEW d \in Clients, clients_'[u][f] = d
        PROVE  clients_[u][f] = d /\ Live(d)'
    BY <1>15, <2>1, Constants DEF Clients, Inv, Mapped
  <2>2. clients_' \in [Threads -> [Fds -> 0..MaxClients]]
    BY DEF Inv, Typed, IOTyped
  <2>. QED
    BY <1>15, <2>1, <2>2, MappedKept
<1>17. Served'
  <2>1. ASSUME NEW u \in Threads, NEW j \in DOMAIN cofunc[u], cofunc'[u][j].s \in {"ready", "in"}
        PROVE  conn'[cofunc'[u][j].c].cor = j /\ conn'[cofunc'[u][j].c].t = u
                 /\ conn'[cofunc'[u][j].c].st \in Open
    <3>1. cofunc'[t][k].s = "done"
      BY <1>2, <1>8 DEF Inv, Typed, IOTyped
    <3>2. (u # t \/ j # k) /\ cofunc'[u][j] = cofunc[u][j]
      BY <1>8, <2>1, <3>1, Zenon
    <3>3. PICK d \in Clients : d = cofunc[u][j].c
      BY Entries, Zenon
    <3>4. conn[d].cor = j /\ conn[d].t = u /\ conn[d].st \in Open
      BY <2>1, <3>2, <3>3 DEF Inv, Served
    <3>5. d # c
      BY <1>0, <3>2, <3>4 DEF Reads
    <3>. QED
      BY <1>5, <3>2, <3>3, <3>4, <3>5
  <2>. QED
    BY <1>8, <2>1 DEF Served
<1>18. Addressed'
  BY <1>15 DEF Inv, Addressed
<1>19. OnWheel'
  BY <1>4, <1>5 DEF Inv, OnWheel
<1>20. Dispatched'
  BY <1>15, DispatchedKept
<1>21. Events'
  <2>1. ~ Reading(c)'
    BY <1>4 DEF Reading, Open
  <2>2. ASSUME NEW d \in Clients, d # c PROVE Reading(d)' <=> Reading(d)
    <3>1. conn'[d] = conn[d] /\ conn[d].t \in Threads
      BY <1>5, <2>2, ConnThread, Zenon
    <3>2. CASE conn[d].t # t \/ conn[d].cor # k
      BY <1>8, <3>1, <3>2 DEF Reading, InCoFunc
    <3>3. CASE conn[d].t = t /\ conn[d].cor = k
      <4>1. ~ Reading(d)
        BY <1>2, <2>2, <3>3 DEF Reading
      <4>2. cofunc'[t][k].s = "done"
        BY <1>2, <1>8 DEF Inv, Typed, IOTyped
      <4>. QED
        BY <3>1, <3>3, <4>1, <4>2 DEF Reading, InCoFunc
    <3>. QED
      BY <3>2, <3>3
  <2>. SUFFICES ASSUME raced = "no"
                PROVE  /\ \A d \in Clients : conn'[d].st # "none" =>
                            conn'[d].fd \in DOMAIN fds_ /\ conn'[d].fe = fds_[conn'[d].fd]
                       /\ \A x \in listening' : \E d \in Clients : Reading(d)' /\ conn'[d].fe = x
                       /\ \A d \in Clients : Reading(d)' => conn'[d].fd \in epoll'[conn'[d].t]
    BY DEF Inv, Events
  <2>3. \A d \in Clients : conn'[d].st # "none" =>
          conn'[d].fd \in DOMAIN fds_ /\ conn'[d].fe = fds_[conn'[d].fd]
    BY <1>2, <1>5, <1>15 DEF Inv, Events, Open
  <2>4. ASSUME NEW x \in listening' PROVE \E d \in Clients : Reading(d)' /\ conn'[d].fe = x
    <3>1. x \in listening /\ x # fe
      BY <1>1
    <3>2. PICK d \in Clients : Reading(d) /\ conn[d].fe = x
      BY <3>1 DEF Inv, Events
    <3>. QED
      BY <1>0, <1>15, <2>2, <3>1, <3>2
  <2>5. ASSUME NEW d \in Clients, Reading(d)' PROVE conn'[d].fd \in epoll'[conn'[d].t]
    <3>1. d # c /\ Reading(d)
      BY <2>1, <2>2, <2>5, Zenon
    <3>2. conn[d].fd \in epoll[conn[d].t] /\ conn[d].t \in Threads
      BY <3>1, ConnThread, Zenon DEF Inv, Events
    <3>3. Owner(d)
      BY <3>1 DEF Reading, Owner, Inv, Arrivals, Open
    <3>4. conn[d].fd # fd
      BY <1>0, <1>2, <3>1, <3>3, Zenon DEF Inv, Owned
    <3>5. epoll \in [Threads -> SUBSET Fds]
      BY Zenon DEF Inv, Typed, IOTyped
    <3>. QED
      BY <1>1, <1>15, <3>2, <3>4, <3>5
  <2>. QED
    BY <2>3, <2>4, <2>5
<1>. QED
  BY <1>5, <1>6, <1>9, <1>10, <1>11, <1>12, <1>13, <1>14, <1>16, <1>17, <1>18, <1>19, <1>20, <1>21
  DEF Inv, Typed

-----------------------------------------------------------------------------
(* A coroutine starts to read.                                             *)

LEMMA ListenInv ==
  ASSUME Inv, NEW t \in Threads, NEW k, FirstTask(t, "run", k), cofunc[t][k].s = "ready",
         NEW fe \in FdEvents, Listen(t, k, fe), FdsStep(t),
         raced' = "no" => /\ conn[cofunc[t][k].c].fd \in DOMAIN fds_'
                          /\ fe = fds_'[conn[cofunc[t][k].c].fd]
  PROVE  Inv'
<1>1. PICK c \in Clients : k \in DOMAIN cofunc[t] /\ k \in Nat /\ cofunc[t][k].c = c
  BY FirstRun
<1>2. conn[c].cor = k /\ conn[c].t = t /\ conn[c].st \in Open /\ conn[c].fd \in Fds /\ Owner(c)
  <2>1. conn[c].cor = k /\ conn[c].t = t /\ conn[c].st \in Open
    BY <1>1 DEF Inv, Served
  <2>2. conn[c].fd # 0 /\ conn[c].fd \in Fds \cup {0}
    BY <2>1, ConnFields DEF ConnRecords, Inv, Arrivals, Open
  <2>. QED
    BY <2>1, <2>2 DEF Owner
<1>3. /\ cofunc' = [cofunc EXCEPT ![t][k].s = "in"] /\ listening' = listening \cup {fe}
      /\ epoll' = [epoll EXCEPT ![t] = IF fe \in listening THEN @ ELSE @ \cup {conn[c].fd}]
      /\ tasks' = [tasks EXCEPT ![t] = Tail(@)]
      /\ UNCHANGED <<mainVars, netVars, clients_, wheel_, pool, conn>>
  BY <1>1, Zenon DEF Listen
<1>4. UNCHANGED <<mpc, ready, peer, size_, index_, backlog, arrived, opened, clients_, wheel_, pool, conn>>
  BY <1>3 DEF mainVars, netVars
<1>5. /\ tasks' \in [Threads -> Seq(Tasks)]
      /\ \A u \in Threads : u # t => tasks'[u] = tasks[u]
      /\ \A i \in DOMAIN tasks'[t] : i + 1 \in DOMAIN tasks[t] /\ tasks'[t][i] = tasks[t][i + 1]
  BY <1>3, DroppedTask, Zenon DEF FirstTask
<1>6. /\ DOMAIN cofunc' = Threads /\ \A u \in Threads : DOMAIN cofunc'[u] = DOMAIN cofunc[u]
      /\ cofunc'[t][k] = [cofunc[t][k] EXCEPT !.s = "in"]
      /\ \A u \in Threads : \A j \in DOMAIN cofunc[u] :
           u # t \/ j # k => cofunc'[u][j] = cofunc[u][j]
  BY <1>1, <1>3, Zenon DEF Inv, Typed, IOTyped
<1>7. /\ cofunc'[t][k] \in [s : {"ready", "in", "done"}, c : Clients]
      /\ cofunc'[t][k].s = "in" /\ cofunc'[t][k].c = c
  <2>1. cofunc[t][k] \in [s : {"ready", "in", "done"}, c : Clients]
    BY <1>1, Zenon DEF Inv, Typed, IOTyped
  <2>. QED
    BY <1>1, <1>6, <2>1, Zenon
<1>8. MainTyped' /\ ConnTyped' /\ FdsTyped'
  BY <1>3, <1>4 DEF Inv, Typed, MainTyped, ConnTyped, ConnRecords, FdsTyped, FdsStep
<1>9. IOTyped'
  <2>1. ASSUME NEW u \in Threads, NEW j \in DOMAIN cofunc[u]
        PROVE  cofunc'[u][j] \in [s : {"ready", "in", "done"}, c : Clients]
    <3>1. (u = t /\ j = k) \/ cofunc'[u][j] = cofunc[u][j]
      BY <1>6
    <3>2. cofunc[u][j] \in [s : {"ready", "in", "done"}, c : Clients]
      BY DEF Inv, Typed, IOTyped
    <3>. QED
      BY <1>7, <3>1, <3>2, Zenon
  <2>2. epoll' \in [Threads -> SUBSET Fds]
    BY <1>2, <1>3 DEF Inv, Typed, IOTyped
  <2>3. IOTyped /\ UNCHANGED <<clients_, wheel_, pool>>
    BY <1>4 DEF Inv, Typed
  <2>4. iopc' \in [Threads -> {"new", "loop", "grow"}]
    BY DEF FdsStep
  <2>5. \A u \in Threads : DOMAIN cofunc'[u] \subseteq Nat
    BY <1>6 DEF Inv, Typed, IOTyped
  <2>. QED
    BY <1>5, <1>6, <2>1, <2>2, <2>3, <2>4, <2>5, Zenon DEF IOTyped
<1>10. Arrivals' /\ Addressed' /\ OnWheel' /\ Mapped' /\ Dispatched'
  <2>1. Arrivals'
    BY <1>4 DEF Inv, Arrivals
  <2>2. Addressed'
    BY <1>4 DEF Inv, Addressed, Live
  <2>3. OnWheel'
    BY <1>4, Zenon DEF Inv, OnWheel
  <2>4. Mapped'
    BY <1>4 DEF Inv, Mapped, Live
  <2>5. Dispatched'
    BY <1>4, DispatchedKept, Zenon DEF Live
  <2>. QED
    BY <2>1, <2>2, <2>3, <2>4, <2>5, Zenon
<1>11. Owned'
  BY <1>4 DEF Inv, Owned, Owner
<1>12. AddQueued'
  <2>1. tasks \in [Threads -> Seq(Tasks)] /\ \A u \in Threads : \A i \in DOMAIN tasks[u] : i + 0 = i
    BY DEF Inv, Typed, IOTyped
  <2>2. \A u \in Threads : \E o \in {0, 1} : \A i \in DOMAIN tasks'[u] :
          tasks'[u][i][1] = "add" => i + o \in DOMAIN tasks[u] /\ tasks'[u][i] = tasks[u][i + o]
    BY <1>5, <2>1, Zenon
  <2>3. tasks' \in [Threads -> Seq(Tasks)]
    BY <1>5, Zenon
  <2>4. conn' = conn
    BY <1>4, Zenon
  <2>. QED
    BY <2>2, <2>3, <2>4, AddQueuedKept, Zenon
<1>13. RunQueued'
  <2>1. \A u \in Threads : DOMAIN cofunc[u] \subseteq DOMAIN cofunc'[u]
    BY <1>6
  <2>2. \A u \in Threads : \A i \in DOMAIN tasks'[u] : \E j \in DOMAIN tasks[u] : tasks[u][j] = tasks'[u][i]
    BY <1>5, Zenon
  <2>. QED
    BY <2>1, <2>2, RunQueuedKept, Zenon
<1>14. Growing'
  <2>1. \A u \in Threads : iopc'[u] = "grow" => iopc[u] = "grow" /\ u # t
    BY DEF FdsStep
  <2>2. \A u \in Threads : iopc'[u] = "grow" =>
          /\ iopc[u] = "grow" /\ tasks'[u] = tasks[u]
          /\ \A j \in DOMAIN cofunc[u] : cofunc'[u][j] = cofunc[u][j]
    <3>. SUFFICES ASSUME NEW u \in Threads, iopc'[u] = "grow"
                  PROVE  /\ iopc[u] = "grow" /\ tasks'[u] = tasks[u]
                         /\ \A j \in DOMAIN cofunc[u] : cofunc'[u][j] = cofunc[u][j]
      OBVIOUS
    <3>1. iopc[u] = "grow" /\ u # t
      BY <2>1
    <3>. QED
      BY <1>5, <1>6, <3>1, Zenon
  <2>. QED
    BY <1>4, <2>2, GrowingKept, Zenon
<1>15. Served'
  <2>1. ASSUME NEW u \in Threads, NEW j \in DOMAIN cofunc'[u], cofunc'[u][j].s \in {"ready", "in"}
        PROVE  conn[cofunc'[u][j].c].cor = j /\ conn[cofunc'[u][j].c].t = u
                 /\ conn[cofunc'[u][j].c].st \in Open
    <3>0. j \in DOMAIN cofunc[u]
      BY <1>6, <2>1, Zenon
    <3>1. CASE u = t /\ j = k
      BY <1>2, <1>7, <3>1, Zenon
    <3>2. CASE u # t \/ j # k
      <4>1. cofunc'[u][j] = cofunc[u][j]
        BY <1>6, <3>0, <3>2, Zenon
      <4>2. /\ conn[cofunc[u][j].c].cor = j /\ conn[cofunc[u][j].c].t = u
            /\ conn[cofunc[u][j].c].st \in Open
        BY <2>1, <3>0, <4>1, Zenon DEF Inv, Served
      <4>. QED
        BY <4>1, <4>2, Zenon
    <3>. QED
      BY <3>1, <3>2, Zenon
  <2>2. conn' = conn
    BY <1>4, Zenon
  <2>. QED
    BY <2>1, <2>2, Zenon DEF Served
<1>16. ASSUME NEW d \in Clients PROVE Reading(d)' <=> Reading(d) \/ d = c
  <2>1. conn'[d] = conn[d] /\ conn[d].t \in Threads
    BY <1>4, ConnThread, Zenon
  <2>2. CASE conn[d].t # t \/ conn[d].cor # k
    <3>1. d # c
      BY <1>2, <2>2, Zenon
    <3>2. /\ DOMAIN cofunc'[conn[d].t] = DOMAIN cofunc[conn[d].t]
          /\ conn[d].cor \in DOMAIN cofunc[conn[d].t] =>
               cofunc'[conn[d].t][conn[d].cor] = cofunc[conn[d].t][conn[d].cor]
      BY <1>6, <2>1, <2>2, Zenon
    <3>. QED
      BY <2>1, <3>1, <3>2, Zenon DEF Reading, InCoFunc
  <2>3. CASE conn[d].t = t /\ conn[d].cor = k
    <3>1. Reading(d)' <=> conn[d].st \in Open /\ d = c
      <4>1. conn'[d].t = t /\ conn'[d].cor = k /\ conn'[d].st = conn[d].st
        BY <2>1, <2>3, Zenon
      <4>2. k \in DOMAIN cofunc'[t] /\ cofunc'[t][k].s = "in" /\ cofunc'[t][k].c = c
        BY <1>1, <1>6, <1>7, Zenon
      <4>. QED
        BY <4>1, <4>2, Zenon DEF Reading, InCoFunc
    <3>2. ~ Reading(d)
      BY <2>3 DEF Reading, InCoFunc
    <3>. QED
      BY <1>2, <3>1, <3>2
  <2>. QED
    BY <2>2, <2>3, Zenon
<1>17. Events'
  <2>. SUFFICES ASSUME raced' = "no" PROVE Events'
    BY DEF Events
  <2>1. /\ raced = "no"
        /\ \A i \in DOMAIN fds_ : i \in DOMAIN fds_' /\ fds_'[i] = fds_[i]
        /\ \A i \in DOMAIN fds_' : fds_'[i][1] = i
    BY DEF FdsStep
  <2>2. ASSUME NEW d \in Clients, conn[d].st # "none"
        PROVE  conn[d].fd \in DOMAIN fds_' /\ conn[d].fe = fds_'[conn[d].fd] /\ conn[d].fe[1] = conn[d].fd
    <3>1. conn[d].fd \in DOMAIN fds_ /\ conn[d].fe = fds_[conn[d].fd]
      BY <2>1, <2>2 DEF Inv, Events
    <3>2. conn[d].fd \in DOMAIN fds_' /\ fds_'[conn[d].fd] = fds_[conn[d].fd]
      BY <2>1, <3>1, Zenon
    <3>3. fds_'[conn[d].fd][1] = conn[d].fd
      BY <2>1, <3>2, Zenon
    <3>. QED
      BY <3>1, <3>2, <3>3, Zenon
  <2>3. conn[c].fe = fe /\ conn[c].st # "none"
    <3>1. fe = fds_'[conn[c].fd] /\ conn[c].st # "none"
      BY <1>1, <1>2, Zenon DEF Open
    <3>. QED
      BY <2>2, <3>1, Zenon
  <2>4. fe \notin listening
    <3>. SUFFICES ASSUME fe \in listening PROVE FALSE
      OBVIOUS
    <3>1. PICK d \in Clients : Reading(d) /\ conn[d].fe = fe
      BY <2>1, Zenon DEF Inv, Events
    <3>2. conn[d].st # "none" /\ Owner(d)
      BY <3>1 DEF Reading, Owner, Inv, Arrivals, Open
    <3>3. conn[d].fd = conn[c].fd
      BY <2>2, <2>3, <3>1, <3>2, Zenon
    <3>4. d = c
      BY <1>2, <3>2, <3>3, Zenon DEF Inv, Owned
    <3>. QED
      BY <1>2, <3>1, <3>4, Zenon DEF Reading, InCoFunc
  <2>5. ASSUME NEW x \in listening' PROVE \E d \in Clients : Reading(d)' /\ conn'[d].fe = x
    <3>1. CASE x = fe
      BY <1>4, <1>16, <2>3, <3>1, Zenon
    <3>2. CASE x \in listening
      <4>1. PICK d \in Clients : Reading(d) /\ conn[d].fe = x
        BY <2>1, <3>2 DEF Inv, Events
      <4>. QED
        BY <1>4, <1>16, <4>1, Zenon
    <3>. QED
      BY <1>3, <3>1, <3>2
  <2>6. ASSUME NEW d \in Clients, Reading(d)' PROVE conn'[d].fd \in epoll'[conn'[d].t]
    <3>1. epoll \in [Threads -> SUBSET Fds] /\ conn[d].t \in Threads
      BY ConnThread, Zenon DEF Inv, Typed, IOTyped
    <3>2. epoll'[t] = epoll[t] \cup {conn[c].fd} /\ \A u \in Threads : epoll[u] \subseteq epoll'[u]
      BY <1>3, <2>4, <3>1, Zenon
    <3>3. d = c \/ conn[d].fd \in epoll[conn[d].t]
      BY <1>16, <2>1, <2>6, Zenon DEF Inv, Events
    <3>. QED
      BY <1>2, <1>4, <3>1, <3>2, <3>3, Zenon
  <2>. QED
    BY <1>4, <2>1, <2>2, <2>5, <2>6, Zenon DEF Events
<1>. QED
  BY <1>8, <1>9, <1>10, <1>11, <1>12, <1>13, <1>14, <1>15, <1>17, Zenon DEF Inv, Typed

-----------------------------------------------------------------------------
(* A coroutine runs.                                                       *)

(* A step that leaves the threads and the connections alone.               *)
LEMMA MainOnly ==
  ASSUME Inv, UNCHANGED <<opened, fdVars, ioVars, conn, size_>>, MainTyped', Arrivals'
  PROVE  Inv'
<1>. USE DEF fdVars, ioVars
<1>1. ConnTyped' /\ IOTyped' /\ FdsTyped'
  BY Zenon DEF Inv, Typed, ConnTyped, ConnRecords, IOTyped, FdsTyped
<1>2. Owned' /\ Addressed'
  BY Zenon DEF Inv, Owned, Owner, Addressed, Live
<1>3. OnWheel'
  BY Zenon DEF Inv, OnWheel
<1>4. Mapped'
  BY MappedSame, Zenon DEF Inv
<1>5. AddQueued'
  BY AddQueuedSame, Zenon DEF Inv
<1>6. RunQueued'
  BY DEF Inv, RunQueued
<1>7. Growing' /\ Served'
  BY Zenon DEF Inv, Growing, Served
<1>8. Dispatched'
  BY Zenon DEF Inv, Dispatched, Live
<1>9. Events'
  BY Zenon DEF Inv, Events, Reading, InCoFunc
<1>. QED
  BY <1>1, <1>2, <1>3, <1>4, <1>5, <1>6, <1>7, <1>8, <1>9, Zenon DEF Inv, Typed

(* Steps of the accept coroutine that accept nobody, and what leaves the   *)
(* defined.                                                                *)
LEMMA MainWaits ==
  ASSUME Inv, mpc' \in {"new", "cold", "call", "hook", "main", "dead"}, ready' \in {"no", "yes"},
         UNCHANGED <<peer, index_, size_, netVars, fdVars, ioVars, conn>>
  PROVE  Inv'
<1>1. MainTyped' /\ Arrivals'
  BY DEF Inv, Typed, MainTyped, Arrivals, netVars
<1>. QED
  BY <1>1, MainOnly DEF netVars

(* A coroutine finds the container too small when it starts.               *)
RunGrows(t) ==
  /\ iopc' = [iopc EXCEPT ![t] = "grow"] /\ copied' = [copied EXCEPT ![t] = fds_]
  /\ UNCHANGED <<mainVars, netVars, fds_, listening, raced, tasks, clients_, wheel_, pool, cofunc,
                 epoll, conn>>

LEMMA RunGrowInv ==
  ASSUME Inv, NEW t \in Threads, NEW k, FirstTask(t, "run", k), cofunc[t][k].s = "ready", RunGrows(t)
  PROVE  Inv'
<1>0. /\ UNCHANGED <<mpc, ready, peer, size_, index_, backlog, arrived, opened>>
      /\ UNCHANGED <<fds_, listening, raced, tasks, clients_, wheel_, pool, cofunc, epoll, conn>>
  BY Zenon DEF RunGrows, mainVars, netVars
<1>1. MainTyped' /\ ConnTyped' /\ Arrivals'
  BY <1>0 DEF Inv, Typed, MainTyped, ConnTyped, ConnRecords, Arrivals
<1>2. /\ iopc' \in [Threads -> {"new", "loop", "grow"}]
      /\ iopc'[t] = "grow" /\ \A u \in Threads : u # t => iopc'[u] = iopc[u]
      /\ copied'[t] = fds_ /\ DOMAIN copied' = Threads
      /\ \A u \in Threads : u # t => copied'[u] = copied[u]
  BY Zenon DEF RunGrows, Inv, Typed, IOTyped, FdsTyped
<1>3. IOTyped'
  <2>1. IOTyped /\ UNCHANGED <<tasks, clients_, wheel_, pool, cofunc, epoll>>
    BY <1>0, Zenon DEF Inv, Typed
  <2>. QED
    BY <1>2, <2>1, Zenon DEF IOTyped
<1>4. FdsTyped'
  BY <1>0, <1>2 DEF Inv, Typed, FdsTyped
<1>5. Owned' /\ Addressed'
  BY <1>0, Zenon DEF Inv, Owned, Owner, Addressed, Live
<1>6. AddQueued'
  BY <1>0, AddQueuedSame, Zenon DEF Inv
<1>7. RunQueued'
  BY <1>0, Zenon DEF Inv, RunQueued
<1>8. Growing'
  <2>. SUFFICES ASSUME NEW u \in Threads, iopc'[u] = "grow"
                PROVE  /\ tasks[u] # <<>>
                       /\ LET task == Head(tasks[u])
                          IN /\ task[1] = "add" => conn[task[2]].addr >= task[2]
                             /\ task[1] = "run" => cofunc[u][task[2]].s = "ready"
    BY <1>0, Zenon DEF Growing
  <2>1. CASE u = t
    BY <2>1 DEF FirstTask
  <2>2. CASE u # t
    BY <1>2, <2>2, Zenon DEF Inv, Growing
  <2>. QED
    BY <2>1, <2>2, Zenon
<1>9. Mapped'
  BY <1>0, MappedSame, Zenon DEF Inv
<1>10. Served'
  BY <1>0, Zenon DEF Inv, Served
<1>11. OnWheel'
  BY <1>0, Zenon DEF Inv, OnWheel
<1>12. Dispatched'
  <2>1. \A d \in Clients : Live(d)' => Live(d) /\ conn'[d] = conn[d]
    BY <1>0, Zenon DEF Live
  <2>. QED
    BY <1>0, <2>1, DispatchedKept, Zenon
<1>13. Events'
  <2>1. Events /\ UNCHANGED <<fds_, listening, raced, cofunc, epoll, conn>>
    BY <1>0, Zenon DEF Inv
  <2>. QED
    BY <2>1, Zenon DEF Events, Reading, InCoFunc
<1>. QED
  BY <1>1, <1>3, <1>4, <1>5, <1>6, <1>7, <1>8, <1>9, <1>10, <1>11, <1>12, <1>13, Zenon
     DEF Inv, Typed

(* A task that changes nothing but the queue it is taken from.             *)
Drops(t) ==
  /\ iopc[t] = "loop" /\ tasks[t] # <<>> /\ tasks' = [tasks EXCEPT ![t] = Tail(@)]
  /\ UNCHANGED <<mpc, ready, peer, size_, index_, netVars, fdVars, iopc, clients_, wheel_, pool,
                 cofunc, epoll, conn>>

LEMMA DropInv ==
  ASSUME Inv, NEW t \in Threads, Drops(t)
  PROVE  Inv'
<1>0. /\ UNCHANGED <<mpc, ready, peer, size_, index_, backlog, arrived, opened>>
      /\ UNCHANGED <<fds_, listening, copied, raced, iopc, clients_, wheel_, pool, cofunc, epoll, conn>>
  BY Zenon DEF Drops, netVars, fdVars
<1>1. MainTyped' /\ ConnTyped' /\ Arrivals' /\ FdsTyped'
  BY <1>0 DEF Inv, Typed, MainTyped, ConnTyped, ConnRecords, Arrivals, FdsTyped
<1>2. /\ tasks' \in [Threads -> Seq(Tasks)]
      /\ \A u \in Threads : u # t => tasks'[u] = tasks[u]
      /\ \A i \in DOMAIN tasks'[t] : i + 1 \in DOMAIN tasks[t] /\ tasks'[t][i] = tasks[t][i + 1]
  <2>1. tasks[t] # <<>> /\ tasks' = [tasks EXCEPT ![t] = Tail(@)]
    BY DEF Drops
  <2>. QED
    BY <2>1, DroppedTask, Zenon
<1>3. IOTyped'
  <2>1. IOTyped /\ UNCHANGED <<iopc, clients_, wheel_, pool, cofunc, epoll>>
    BY <1>0 DEF Inv, Typed
  <2>. QED
    BY <1>2, <2>1, Zenon DEF IOTyped
<1>4. Owned' /\ Addressed'
  BY <1>0, Zenon DEF Inv, Owned, Owner, Addressed, Live
<1>5. AddQueued'
  <2>1. ASSUME NEW u \in Threads
        PROVE  \E o \in {0, 1} : \A i \in DOMAIN tasks'[u] :
                 i + o \in DOMAIN tasks[u] /\ tasks'[u][i] = tasks[u][i + o]
    <3>1. CASE u = t
      BY <1>2, <3>1
    <3>2. CASE u # t
      <4>1. tasks[u] \in Seq(Tasks)
        BY DEF Inv, Typed, IOTyped
      <4>2. \A i \in DOMAIN tasks[u] : i + 0 = i
        BY <4>1
      <4>. QED
        BY <1>2, <3>2, <4>2
    <3>. QED
      BY <3>1, <3>2
  <2>2. \A d \in Clients : conn'[d].st = conn[d].st /\ conn'[d].t = conn[d].t /\ conn'[d].fd = conn[d].fd
    BY <1>0
  <2>. QED
    BY <1>2, <2>1, <2>2, AddQueuedKept, Zenon
<1>6. RunQueued'
  <2>1. ASSUME NEW u \in Threads, NEW i \in DOMAIN tasks'[u]
        PROVE  \E j \in DOMAIN tasks[u] : tasks[u][j] = tasks'[u][i]
    <3>1. CASE u = t
      BY <1>2, <3>1
    <3>2. CASE u # t
      BY <1>2, <3>2
    <3>. QED
      BY <3>1, <3>2
  <2>2. \A u \in Threads : DOMAIN cofunc[u] \subseteq DOMAIN cofunc'[u]
    BY <1>0
  <2>. QED
    BY <2>1, <2>2, RunQueuedKept
<1>7. Growing'
  <2>1. \A u \in Threads : iopc'[u] = "grow" => iopc[u] = "grow" /\ tasks'[u] = tasks[u]
    BY <1>0, <1>2 DEF Drops
  <2>. QED
    BY <1>0, <2>1, GrowingKept
<1>8. Mapped'
  BY <1>0 DEF Inv, Mapped, Live
<1>9. Served'
  BY <1>0, Zenon DEF Inv, Served
<1>10. OnWheel'
  BY <1>0, Zenon DEF Inv, OnWheel
<1>11. Dispatched'
  <2>1. \A d \in Clients : Live(d)' => Live(d) /\ conn'[d] = conn[d]
    BY <1>0, Zenon DEF Live
  <2>. QED
    BY <1>0, <2>1, DispatchedKept
<1>12. Events'
  <2>1. Events /\ UNCHANGED <<fds_, listening, raced, cofunc, epoll, conn>>
    BY <1>0 DEF Inv
  <2>. QED
    BY <2>1, Zenon DEF Events, Reading, InCoFunc
<1>. QED
  BY <1>1, <1>3, <1>4, <1>5, <1>6, <1>7, <1>8, <1>9, <1>10, <1>11, <1>12, Zenon DEF Inv, Typed

LEMMA RunCoroutineInv ==
  ASSUME Inv, NEW t \in Threads, RunCoroutine(t)
  PROVE  Inv'
<1>0. PICK k, c : k = Head(tasks[t])[2] /\ c = cofunc[t][k].c
  BY Zenon
<1>1. tasks[t] # <<>> /\ Head(tasks[t])[1] = "run" /\ iopc[t] = "loop"
  BY Zenon DEF RunCoroutine, HasTask
<1>2. FirstTask(t, "run", k)
  BY <1>0, <1>1, FirstOfKind, Zenon
<1>3. k \in DOMAIN cofunc[t] /\ cofunc[t][k].s \in {"ready", "in", "done"} /\ c \in Clients
  BY <1>0, <1>2, FirstRun
<1>4. CASE cofunc[t][k].s = "ready" /\ conn[c].fd \in DOMAIN fds_
  <2>1. Listen(t, k, fds_[conn[c].fd]) /\ UNCHANGED <<fds_, copied, raced, iopc>>
    BY <1>0, <1>4, Zenon DEF RunCoroutine
  <2>2. FdsStep(t)
    BY <1>1, <2>1, FdsUnchanged, Zenon
  <2>3. fds_[conn[c].fd] \in FdEvents
    BY <1>4, EventOf, Zenon DEF Inv, Typed, FdsTyped
  <2>4. conn[c].fd \in DOMAIN fds_' /\ fds_[conn[c].fd] = fds_'[conn[c].fd]
    BY <1>4, <2>1, Zenon
  <2>. QED
    BY <1>0, <1>2, <1>4, <2>1, <2>2, <2>3, <2>4, ListenInv, Zenon
<1>5. CASE cofunc[t][k].s = "ready" /\ conn[c].fd \notin DOMAIN fds_
  <2>1. RunGrows(t)
    BY <1>0, <1>5, Zenon DEF RunCoroutine, RunGrows
  <2>. QED
    BY <1>2, <1>5, <2>1, RunGrowInv
<1>6. CASE cofunc[t][k].s = "in"
  <2>1. /\ ClearClient(t, c) \/ UNCHANGED <<cofunc, listening, epoll, opened, conn>>
        /\ tasks' = [tasks EXCEPT ![t] = Tail(@)]
        /\ UNCHANGED <<mainVars, backlog, arrived, dropped, fds_, copied, raced, iopc, clients_,
                       wheel_, pool>>
    BY <1>0, <1>6, Zenon DEF RunCoroutine
  <2>2. UNCHANGED <<mpc, ready, peer, size_, index_, backlog, arrived, dropped, fds_, copied, raced,
                    iopc, clients_, wheel_, pool>>
    BY <2>1 DEF mainVars
  <2>3. Reads(t, c)
    <3>1. conn[c].cor = k /\ conn[c].t = t /\ conn[c].st \in Open
      <4>1. Served /\ cofunc[t][k].s \in {"ready", "in"}
        BY <1>6 DEF Inv
      <4>2. k \in DOMAIN cofunc[t]
        BY <1>3
      <4>3. /\ conn[cofunc[t][k].c].cor = k /\ conn[cofunc[t][k].c].t = t
            /\ conn[cofunc[t][k].c].st \in Open
        BY <4>1, <4>2, Zenon DEF Served
      <4>. QED
        BY <1>0, <4>3, Zenon
    <3>. QED
      BY <1>0, <1>3, <1>6, <3>1, Zenon DEF Reads, Reading, InCoFunc
  <2>4. TaskDone(t)
    BY <1>1, <2>1, Zenon DEF TaskDone
  <2>5. CASE ClearClient(t, c)
    BY <1>1, <1>3, <2>2, <2>3, <2>4, <2>5, ClearInv
  <2>6. CASE UNCHANGED <<cofunc, listening, epoll, opened, conn>>
    <3>1. Drops(t)
      BY <1>1, <2>1, <2>2, <2>6, Zenon DEF Drops, netVars, fdVars
    <3>. QED
      BY <3>1, DropInv
  <2>. QED
    BY <2>1, <2>5, <2>6
<1>7. CASE cofunc[t][k].s = "done"
  <2>1. /\ mpc' = "dead"
        /\ UNCHANGED <<cur, ready, peer, size_, index_, callbacks, netVars, fdVars, ioVars, conn>>
    BY <1>0, <1>7, Zenon DEF RunCoroutine
  <2>2. ready' \in {"no", "yes"}
    BY <2>1 DEF Inv, Typed, MainTyped
  <2>. QED
    BY <2>1, <2>2, MainWaits
<1>. QED
  BY <1>3, <1>4, <1>5, <1>6, <1>7, Zenon

LEMMA EndOfStreamInv ==
  ASSUME Inv, NEW t \in Threads, NEW c \in Clients, EndOfStream(t, c)
  PROVE  Inv'
<1>1. Reads(t, c) /\ iopc[t] = "loop"
  BY Zenon DEF EndOfStream, Waits, Reads, Reading, Open
<1>2. /\ ClearClient(t, c) /\ mpc' \in {mpc, "dead"} /\ tasks' = tasks
      /\ UNCHANGED <<ready, peer, size_, index_, backlog, arrived, fds_, copied, raced, iopc,
                     clients_, wheel_, pool>>
  BY Zenon DEF EndOfStream, CallBack
<1>3. TaskDone(t)
  BY <1>2 DEF TaskDone
<1>. QED
  BY <1>1, <1>2, <1>3, ClearInv, Zenon

-----------------------------------------------------------------------------
(* The thread that accepts.                                                *)

(* When somebody waits there is an fd for the client.                      *)
LEMMA FreeFd ==
  ASSUME Counting, Inv, backlog # <<>>
  PROVE  Min(Fds \ opened) \in Fds \ opened
<1>. DEFINE c == backlog[1]
<1>1. c \in Clients /\ c > peer
  <2>1. backlog \in Seq(1..arrived) /\ arrived \in 0..MaxClients
    BY DEF Inv, Typed, MainTyped
  <2>2. 1 \in DOMAIN backlog /\ c \in 1..arrived
    BY <2>1
  <2>. QED
    BY <2>1, <2>2, Constants DEF Inv, Arrivals, Clients
<1>2. ~ Owner(c)
  BY <1>1 DEF Inv, Arrivals, Owner
<1>3. Fds \ opened # {}
  <2>. SUFFICES ASSUME Fds \subseteq opened PROVE FALSE
    OBVIOUS
  <2>. DEFINE f == [fd \in Fds |-> CHOOSE d \in Clients : Owner(d) /\ conn[d].fd = fd]
  <2>1. ASSUME NEW fd \in Fds
        PROVE  f[fd] \in Clients /\ Owner(f[fd]) /\ conn[f[fd]].fd = fd
    <3>1. \E d \in Clients : Owner(d) /\ conn[d].fd = fd
      BY Zenon DEF Inv, Owned
    <3>. QED
      BY <3>1, Zenon
  <2>2. f \in [Fds -> Clients \ {c}]
    <3>1. \A fd \in Fds : f[fd] \in Clients \ {c}
      BY <1>2, <2>1, Zenon
    <3>. QED
      BY <3>1, Zenon
  <2>. HIDE DEF f
  <2>3. \E x, y \in Fds : x # y /\ f[x] = f[y]
    BY <1>1, <2>2, Zenon DEF Counting
  <2>. QED
    BY <2>1, <2>3, Zenon
<1>. QED
  BY <1>3, Constants DEF Counting

LEMMA AppendQueue ==
  ASSUME NEW S, NEW q \in Seq(S), NEW x \in S
  PROVE  /\ Append(q, x) \in Seq(S) /\ Len(Append(q, x)) = Len(q) + 1
         /\ DOMAIN Append(q, x) = 1..Len(q) + 1 /\ DOMAIN q = 1..Len(q)
         /\ \A i \in DOMAIN q : Append(q, x)[i] = q[i]
         /\ Append(q, x)[Len(q) + 1] = x
OBVIOUS

(* A backlog from which a client has gone.                                 *)
LEMMA Without ==
  ASSUME NEW S, NEW q \in Seq(S), NEW i \in DOMAIN q
  PROVE  LET r == SubSeq(q, 1, i - 1) \o SubSeq(q, i + 1, Len(q))
         IN /\ r \in Seq(S) /\ Len(r) = Len(q) - 1
            /\ \A j \in DOMAIN r : r[j] = IF j < i THEN q[j] ELSE q[j + 1]
<1>. DEFINE a == SubSeq(q, 1, i - 1)
            b == SubSeq(q, i + 1, Len(q))
<1>0. i \in 1..Len(q) /\ Len(q) \in Nat
  OBVIOUS
<1>1. a \in Seq(S) /\ Len(a) = i - 1 /\ \A j \in 1..i - 1 : a[j] = q[j]
  BY <1>0
<1>2. b \in Seq(S) /\ Len(b) = Len(q) - i /\ \A j \in 1..Len(q) - i : b[j] = q[i + j]
  BY <1>0
<1>. HIDE DEF a, b
<1>3. a \o b \in Seq(S) /\ Len(a \o b) = Len(q) - 1
  BY <1>0, <1>1, <1>2
<1>4. ASSUME NEW j \in DOMAIN (a \o b)
      PROVE  (a \o b)[j] = IF j < i THEN q[j] ELSE q[j + 1]
  <2>1. j \in 1..Len(q) - 1
    BY <1>3
  <2>2. CASE j < i
    BY <1>0, <1>1, <1>2, <2>1, <2>2
  <2>3. CASE ~ (j < i)
    <3>1. (a \o b)[j] = b[j - (i - 1)]
      BY <1>0, <1>1, <1>2, <2>1, <2>3
    <3>2. j - (i - 1) \in 1..Len(q) - i
      BY <1>0, <2>1, <2>3
    <3>3. b[j - (i - 1)] = q[i + (j - (i - 1))] /\ i + (j - (i - 1)) = j + 1
      BY <1>0, <1>2, <2>1, <3>2
    <3>. QED
      BY <2>3, <3>1, <3>3
  <2>. QED
    BY <2>2, <2>3
<1>. QED
  BY <1>3, <1>4, Zenon DEF a, b

LEMMA ArriveInv == ASSUME Inv, Arrive PROVE Inv'
<1>1. arrived \in 0..MaxClients /\ backlog \in Seq(1..arrived) /\ size_ \in 1..MaxThreads
      /\ peer \in 0..arrived
  BY DEF Inv, Typed, MainTyped
<1>2. arrived' \in 0..MaxClients /\ arrived' = arrived + 1 /\ peer' \in 0..arrived'
  BY <1>1, Constants DEF Arrive, mainVars
<1>3. backlog' = Append(backlog, arrived + 1) /\ backlog' \in Seq(1..arrived')
  <2>1. backlog \in Seq(1..arrived') /\ arrived + 1 \in 1..arrived'
    BY <1>1, <1>2
  <2>. QED
    BY <2>1 DEF Arrive
<1>4. MainTyped'
  BY <1>2, <1>3 DEF Arrive, mainVars, Inv, Typed, MainTyped
<1>5. ASSUME NEW i \in DOMAIN backlog'
      PROVE  \/ i \in DOMAIN backlog /\ backlog'[i] = backlog[i] /\ backlog[i] <= arrived
             \/ i = Len(backlog) + 1 /\ backlog'[i] = arrived + 1
  <2>1. backlog \in Seq(1..arrived') /\ arrived + 1 \in 1..arrived'
    BY <1>1, <1>2
  <2>2. /\ DOMAIN backlog' = 1..Len(backlog) + 1 /\ DOMAIN backlog = 1..Len(backlog)
        /\ \A j \in DOMAIN backlog : backlog'[j] = backlog[j]
        /\ backlog'[Len(backlog) + 1] = arrived + 1
    BY <1>3, <2>1, AppendQueue
  <2>3. \A j \in DOMAIN backlog : backlog[j] <= arrived
    BY <1>1
  <2>4. Len(backlog) \in Nat
    BY <1>1
  <2>5. i \in 1..Len(backlog) + 1 /\ (i \in 1..Len(backlog) \/ i = Len(backlog) + 1)
    <3>1. i \in 1..Len(backlog) + 1
      BY <2>2, Zenon
    <3>. QED
      BY <2>4, <3>1
  <2>6. CASE i \in 1..Len(backlog)
    <3>1. i \in DOMAIN backlog
      BY <2>2, <2>6, Zenon
    <3>. QED
      BY <2>2, <2>3, <3>1
  <2>7. CASE i = Len(backlog) + 1
    BY <2>2, <2>7
  <2>. QED
    BY <2>5, <2>6, <2>7
<1>6. Arrivals'
  <2>1. ASSUME NEW i \in DOMAIN backlog' PROVE backlog'[i] > peer'
    BY <1>1, <1>5 DEF Arrive, mainVars, Inv, Arrivals
  <2>2. ASSUME NEW i \in DOMAIN backlog', NEW j \in DOMAIN backlog', i < j
        PROVE  backlog'[i] < backlog'[j]
    <3>1. DOMAIN backlog = 1..Len(backlog) /\ Len(backlog) \in Nat
      BY <1>1
    <3>2. CASE j \in DOMAIN backlog /\ backlog'[j] = backlog[j]
      BY <1>5, <2>2, <3>1, <3>2 DEF Inv, Arrivals
    <3>3. CASE j = Len(backlog) + 1 /\ backlog'[j] = arrived + 1
      BY <1>1, <1>5, <2>2, <3>1, <3>3
    <3>. QED
      BY <1>5, <3>2, <3>3
  <2>3. UNCHANGED <<conn, peer>>
    BY DEF Arrive, mainVars
  <2>. QED
    BY <2>1, <2>2, <2>3, Zenon DEF Inv, Arrivals
<1>. QED
  BY <1>4, <1>6, MainOnly DEF Arrive, mainVars

LEMMA GiveUpInv == ASSUME Inv, GiveUp PROVE Inv'
<1>1. backlog \in Seq(1..arrived)
  BY DEF Inv, Typed, MainTyped
<1>2. PICK i \in DOMAIN backlog :
        backlog' = SubSeq(backlog, 1, i - 1) \o SubSeq(backlog, i + 1, Len(backlog))
  BY Zenon DEF GiveUp
<1>3. /\ backlog' \in Seq(1..arrived) /\ Len(backlog') = Len(backlog) - 1
      /\ \A j \in DOMAIN backlog' : backlog'[j] = IF j < i THEN backlog[j] ELSE backlog[j + 1]
  BY <1>1, <1>2, Without, Zenon
<1>4. UNCHANGED <<mainVars, arrived, opened, fdVars, ioVars, conn>>
  BY DEF GiveUp
<1>5. MainTyped'
  BY <1>3, <1>4 DEF mainVars, Inv, Typed, MainTyped
<1>6. \A j \in DOMAIN backlog' : j \in DOMAIN backlog /\ j + 1 \in DOMAIN backlog /\ j \in Nat
  BY <1>1, <1>3
<1>7. Arrivals'
  <2>1. \A j \in DOMAIN backlog' : backlog'[j] > peer
    BY <1>3, <1>6, Zenon DEF Inv, Arrivals
  <2>2. ASSUME NEW j \in DOMAIN backlog', NEW k \in DOMAIN backlog', j < k
        PROVE  backlog'[j] < backlog'[k]
    <3>. DEFINE jj == IF j < i THEN j ELSE j + 1
                kk == IF k < i THEN k ELSE k + 1
    <3>1. backlog'[j] = backlog[jj] /\ backlog'[k] = backlog[kk]
      BY <1>3
    <3>2. jj \in DOMAIN backlog /\ kk \in DOMAIN backlog
      BY <1>6
    <3>3. jj < kk
      BY <1>1, <1>6, <2>2
    <3>. HIDE DEF jj, kk
    <3>. QED
      BY <3>1, <3>2, <3>3, Zenon DEF Inv, Arrivals
  <2>. QED
    BY <1>4, <2>1, <2>2 DEF Inv, Arrivals, mainVars
<1>. QED
  BY <1>4, <1>5, <1>7, MainOnly DEF mainVars

(* A client without a connection is in no table.                           *)
LEMMA NoneChanged ==
  ASSUME Inv, NEW c \in Clients, conn[c].st = "none", conn'[c].st = "none",
         \A d \in Clients : d # c => conn'[d] = conn[d],
         UNCHANGED <<clients_, wheel_, pool, cofunc, epoll, fds_, listening, raced>>
  PROVE  Mapped' /\ Served' /\ Addressed' /\ OnWheel' /\ Dispatched' /\ Events'
<1>1. Mapped'
  <2>1. ASSUME NEW t \in Threads, NEW fd \in Fds, clients_'[t][fd] # 0
        PROVE  /\ conn'[clients_'[t][fd]].fd = fd /\ conn'[clients_'[t][fd]].t = t
               /\ Live(clients_[t][fd])'
    <3>1. PICK d \in Clients : d = clients_[t][fd] /\ d # 0 /\ clients_'[t][fd] = d
      BY <2>1, Entries, Zenon
    <3>2. Live(d) /\ conn[d].t = t /\ conn[d].fd = fd
      BY <3>1 DEF Inv, Mapped
    <3>3. d # c
      BY <3>2, Zenon DEF Live
    <3>4. conn'[d].fd = fd /\ conn'[d].t = t /\ Live(d)'
      BY <3>2, <3>3, Zenon DEF Live
    <3>. QED
      BY <3>1, <3>4, Zenon DEF Live
  <2>. QED
    BY <2>1, Zenon DEF Mapped, Live
<1>2. Served'
  <2>1. ASSUME NEW t \in Threads, NEW k \in DOMAIN cofunc'[t], cofunc'[t][k].s \in {"ready", "in"}
        PROVE  /\ conn'[cofunc'[t][k].c].cor = k /\ conn'[cofunc'[t][k].c].t = t
               /\ conn'[cofunc'[t][k].c].st \in Open
    <3>0. cofunc' = cofunc
      BY Zenon
    <3>1. PICK d \in Clients : d = cofunc[t][k].c /\ d = cofunc'[t][k].c
      BY <3>0, Entries, Zenon
    <3>2. conn[d].cor = k /\ conn[d].t = t /\ conn[d].st \in Open
      <4>1. k \in DOMAIN cofunc[t] /\ cofunc[t][k].s \in {"ready", "in"}
        BY <2>1, <3>0, Zenon
      <4>2. /\ conn[cofunc[t][k].c].cor = k /\ conn[cofunc[t][k].c].t = t
            /\ conn[cofunc[t][k].c].st \in Open
        BY <4>1, Zenon DEF Inv, Served
      <4>. QED
        BY <3>1, <4>2, Zenon
    <3>3. d # c
      BY <3>2, Zenon DEF Open
    <3>. QED
      BY <3>1, <3>2, <3>3, Zenon
  <2>. QED
    BY <2>1, Zenon DEF Served
<1>3. Addressed' /\ OnWheel'
  BY Zenon DEF Inv, Addressed, OnWheel, Live
<1>4. Dispatched'
  <2>1. \A d \in Clients : Live(d)' => Live(d) /\ d # c /\ conn'[d] = conn[d]
    BY Zenon DEF Live
  <2>2. pool' = pool
    BY Zenon
  <2>. QED
    BY <2>1, <2>2, DispatchedKept, Zenon
<1>5. Events'
  <2>1. ASSUME NEW d \in Clients
        PROVE  /\ conn'[d].st # "none" => conn'[d] = conn[d] /\ conn[d].st # "none"
               /\ Reading(d)' <=> Reading(d)
               /\ Reading(d) => conn'[d] = conn[d]
    BY DEF Reading, InCoFunc, Open
  <2>2. Events /\ UNCHANGED <<fds_, raced, listening, epoll>>
    BY Zenon DEF Inv
  <2>. QED
    BY <2>1, <2>2, EventsSame, Zenon
<1>. QED
  BY <1>1, <1>2, <1>3, <1>4, <1>5, Zenon

LEMMA AcceptInv ==
  ASSUME Counting, Inv, backlog # <<>>, Accept(Head(backlog)), ready' \in {"no", "yes"},
         UNCHANGED <<size_, arrived, fdVars, iopc, clients_, wheel_, pool, cofunc, epoll>>
  PROVE  Inv'
<1>0. PICK c, t, fd : c = Head(backlog) /\ t = IOThreadIndex /\ fd = Min(Fds \ opened)
  BY Zenon
<1>1. /\ backlog \in Seq(1..arrived) /\ arrived \in 0..MaxClients /\ size_ \in 1..MaxThreads
      /\ index_ \in -1..size_ /\ peer \in 0..arrived /\ mpc \in {"new", "cold", "call", "hook", "main", "dead"}
      /\ opened \subseteq Fds
  BY DEF Inv, Typed, MainTyped
<1>2. c = backlog[1] /\ c \in 1..arrived /\ 1 \in DOMAIN backlog
  BY <1>0, <1>1
<1>3. c \in Clients /\ c > peer /\ conn[c].st = "none" /\ conn[c].fd = 0 /\ conn[c].idle = 0
  <2>1. c \in Clients
    BY <1>1, <1>2, Constants DEF Clients
  <2>. QED
    BY <1>2, <2>1 DEF Inv, Arrivals
<1>4. fd \in Fds /\ fd \notin opened /\ fd # 0
  BY <1>0, FreeFd, Constants
<1>5. t \in 0..size_ - 1 /\ t \in Threads
  BY <1>0, <1>1, Constants DEF IOThreadIndex, Threads
<1>6. /\ opened' = opened \cup {fd} /\ backlog' = Tail(backlog) /\ peer' = c /\ index_' = t + 1
      /\ conn' = [conn EXCEPT ![c].fd = fd, ![c].t = t]
      /\ mpc' \in {"dead", "call"}
      /\ \/ tasks' = tasks
         \/ tasks' = [tasks EXCEPT ![t] = Append(@, <<"add", c>>)]
  BY <1>0, Zenon DEF Accept, AddTask
<1>7. /\ conn' = [conn EXCEPT ![c] = conn'[c]]
      /\ conn'[c] = [conn[c] EXCEPT !.fd = fd, !.t = t]
  BY <1>3, <1>6, Zenon DEF Inv, Typed, ConnTyped
<1>8. /\ conn'[c] \in ConnRecords
      /\ conn'[c].fd = fd /\ conn'[c].t = t /\ conn'[c].st = "none" /\ conn'[c].idle = 0
      /\ conn'[c].addr = conn[c].addr
  BY <1>3, <1>4, <1>5, <1>7, ConnFields, Zenon DEF ConnRecords
<1>9. ConnTyped' /\ \A d \in Clients : d # c => conn'[d] = conn[d]
  BY <1>3, <1>7, <1>8, Zenon DEF Inv, Typed, ConnTyped, ConnRecords
<1>10. MainTyped'
  <2>1. backlog' \in Seq(1..arrived)
    BY <1>1, <1>6, TailOf, Zenon
  <2>2. index_' \in -1..size_
    BY <1>1, <1>5, <1>6
  <2>. QED
    BY <1>1, <1>2, <1>4, <1>6, <2>1, <2>2 DEF MainTyped
<1>11. Arrivals'
  <2>1. ASSUME NEW i \in DOMAIN backlog'
        PROVE  i + 1 \in DOMAIN backlog /\ backlog'[i] = backlog[i + 1] /\ i \in Nat /\ 1 < i + 1
    BY <1>1, <1>6, TailOf, Zenon
  <2>2. ASSUME NEW i \in DOMAIN backlog' PROVE backlog'[i] > c
    <3>1. backlog[1] < backlog[i + 1]
      BY <1>2, <2>1, Zenon DEF Inv, Arrivals
    <3>. QED
      BY <1>2, <2>1, <3>1
  <2>3. \A i, j \in DOMAIN backlog' : i < j => backlog'[i] < backlog'[j]
    BY <2>1 DEF Inv, Arrivals
  <2>4. ASSUME NEW d \in Clients
        PROVE  /\ d > c => conn'[d].st = "none" /\ conn'[d].fd = 0
               /\ conn'[d].st = "none" => conn'[d].idle = 0
               /\ conn'[d].st # "none" => conn'[d].fd # 0
    <3>1. d > c => d # c /\ d > peer
      BY <1>1, <1>2, <1>3 DEF Clients
    <3>. QED
      BY <1>3, <1>8, <1>9, <3>1 DEF Inv, Arrivals
  <2>. QED
    BY <1>6, <2>2, <2>3, <2>4, Zenon DEF Arrivals
<1>12. Owned'
  <2>1. \A d \in Clients : d # c => (Owner(d)' <=> Owner(d)) /\ conn'[d].fd = conn[d].fd
    BY <1>9 DEF Owner
  <2>2. Owner(c)' /\ conn'[c].fd = fd /\ ~ Owner(c)
    BY <1>3, <1>4, <1>8 DEF Owner
  <2>3. \A d \in Clients : Owner(d) => conn[d].fd \in opened
    BY DEF Inv, Owned
  <2>4. ASSUME NEW d \in Clients, Owner(d)' PROVE conn'[d].fd \in opened'
    <3>1. fd \in opened' /\ opened \subseteq opened'
      BY <1>6
    <3>. QED
      BY <2>1, <2>2, <2>3, <2>4, <3>1, Zenon
  <2>5. ASSUME NEW d \in Clients, NEW e \in Clients, Owner(d)', Owner(e)',
               conn'[d].fd = conn'[e].fd
        PROVE  d = e
    <3>1. d # c /\ e # c => d = e
      BY <2>1, <2>5, Zenon DEF Inv, Owned
    <3>2. d = c /\ e # c => FALSE
      BY <1>4, <2>1, <2>2, <2>3, <2>5, Zenon
    <3>3. d # c /\ e = c => FALSE
      BY <1>4, <2>1, <2>2, <2>3, <2>5, Zenon
    <3>. QED
      BY <3>1, <3>2, <3>3, Zenon
  <2>6. ASSUME NEW f \in opened' PROVE \E d \in Clients : Owner(d)' /\ conn'[d].fd = f
    <3>1. CASE f = fd
      BY <1>3, <2>2, <3>1, Zenon
    <3>2. CASE f \in opened
      BY <2>1, <2>2, <3>2, Zenon DEF Inv, Owned
    <3>. QED
      BY <1>6, <3>1, <3>2, Zenon
  <2>. QED
    BY <2>4, <2>5, <2>6 DEF Owned
<1>13. IOTyped' /\ FdsTyped'
  <2>1. tasks' \in [Threads -> Seq(Tasks)]
    <3>1. <<"add", c>> \in Tasks /\ tasks \in [Threads -> Seq(Tasks)]
      BY <1>3, Zenon DEF Tasks, Inv, Typed, IOTyped
    <3>2. Append(tasks[t], <<"add", c>>) \in Seq(Tasks)
      BY <1>5, <3>1, AppendQueue, Zenon
    <3>. QED
      BY <1>6, <3>1, <3>2, Zenon
  <2>. QED
    BY <2>1, Zenon DEF Inv, Typed, IOTyped, FdsTyped, fdVars
<1>14. ASSUME NEW u \in Threads, NEW i \in DOMAIN tasks'[u]
       PROVE  \/ i \in DOMAIN tasks[u] /\ tasks'[u][i] = tasks[u][i]
              \/ u = t /\ tasks'[u][i] = <<"add", c>> /\ i = Len(tasks[t]) + 1
  <2>1. tasks \in [Threads -> Seq(Tasks)] /\ <<"add", c>> \in Tasks
    BY <1>3, Zenon DEF Inv, Typed, IOTyped, Tasks
  <2>2. CASE tasks' = tasks
    BY <1>14, <2>2, Zenon
  <2>3. CASE tasks' = [tasks EXCEPT ![t] = Append(@, <<"add", c>>)] /\ u # t
    BY <1>5, <1>14, <2>1, <2>3, Zenon
  <2>4. CASE tasks' = [tasks EXCEPT ![t] = Append(@, <<"add", c>>)] /\ u = t
    <3>1. tasks'[u] = Append(tasks[t], <<"add", c>>) /\ tasks[t] \in Seq(Tasks)
      BY <1>5, <2>1, <2>4, Zenon
    <3>2. i \in 1..Len(tasks[t]) + 1 /\ Len(tasks[t]) \in Nat /\ DOMAIN tasks[t] = 1..Len(tasks[t])
      BY <1>14, <2>1, <3>1, AppendQueue
    <3>3. i \in DOMAIN tasks[t] \/ i = Len(tasks[t]) + 1
      BY <3>2
    <3>. QED
      BY <2>1, <2>4, <3>1, <3>3, AppendQueue
  <2>. QED
    BY <1>6, <2>2, <2>3, <2>4, Zenon
<1>15. \A u \in Threads : \A i \in DOMAIN tasks[u] : tasks[u][i] # <<"add", c>>
  BY <1>3, NotQueued, Zenon
<1>16. AddQueued'
  <2>1. ASSUME NEW u \in Threads, NEW i \in DOMAIN tasks'[u], NEW d \in Clients,
               tasks'[u][i] = <<"add", d>>
        PROVE  /\ conn'[d].st = "none" /\ conn'[d].t = u /\ conn'[d].fd # 0
               /\ \A j \in DOMAIN tasks'[u] : tasks'[u][j] = <<"add", d>> => j = i
    <3>1. CASE d # c
      <4>0. <<"add", d>> # <<"add", c>>
        BY <3>1
      <4>1. i \in DOMAIN tasks[u] /\ tasks[u][i] = <<"add", d>>
        BY <1>14, <2>1, <4>0, Zenon
      <4>2. /\ conn[d].st = "none" /\ conn[d].t = u /\ conn[d].fd # 0
            /\ \A j \in DOMAIN tasks[u] : tasks[u][j] = <<"add", d>> => j = i
        <5>1. AddsOnce(u, i, d)
          BY <4>1, QueuedAdd, Zenon
        <5>. QED
          BY <5>1, Zenon DEF AddsOnce
      <4>3. ASSUME NEW j \in DOMAIN tasks'[u], tasks'[u][j] = <<"add", d>> PROVE j = i
        BY <1>14, <4>0, <4>2, <4>3, Zenon
      <4>. QED
        BY <1>9, <3>1, <4>2, <4>3, Zenon
    <3>2. CASE d = c
      <4>1. u = t /\ i = Len(tasks[t]) + 1
        BY <1>14, <1>15, <2>1, <3>2, Zenon
      <4>2. ASSUME NEW j \in DOMAIN tasks'[u], tasks'[u][j] = <<"add", d>> PROVE j = i
        BY <1>14, <1>15, <3>2, <4>1, <4>2, Zenon
      <4>. QED
        BY <1>4, <1>8, <3>2, <4>1, <4>2, Zenon
    <3>. QED
      BY <3>1, <3>2, Zenon
  <2>2. tasks' \in [Threads -> Seq(Tasks)]
    BY <1>13, Zenon DEF IOTyped
  <2>. QED
    BY <2>1, <2>2, AddQueuedIf, Zenon
<1>17. RunQueued'
  <2>1. ASSUME NEW u \in Threads, NEW i \in DOMAIN tasks'[u], tasks'[u][i][1] = "run"
        PROVE  i \in DOMAIN tasks[u] /\ tasks'[u][i] = tasks[u][i]
    <3>1. <<"add", c>>[1] # "run"
      OBVIOUS
    <3>. QED
      BY <1>14, <2>1, <3>1, Zenon
  <2>. QED
    BY <2>1, Zenon DEF RunQueued, Inv
<1>18. Growing'
  <2>. SUFFICES ASSUME NEW u \in Threads, iopc[u] = "grow"
                PROVE  /\ tasks'[u] # <<>>
                       /\ LET task == Head(tasks'[u])
                          IN /\ task[1] = "add" => conn'[task[2]].addr >= task[2]
                             /\ task[1] = "run" => cofunc[u][task[2]].s = "ready"
    BY Zenon DEF Growing
  <2>1. /\ tasks[u] # <<>> /\ tasks[u] \in Seq(Tasks) /\ Head(tasks[u]) \in Tasks
        /\ 1 \in DOMAIN tasks[u] /\ tasks[u][1] = Head(tasks[u])
        /\ \A d : Head(tasks[u]) = <<"add", d>> => conn[d].addr >= d
        /\ Head(tasks[u])[1] = "run" => cofunc[u][Head(tasks[u])[2]].s = "ready"
    BY GrowingTask, Zenon
  <2>2. tasks'[u] # <<>> /\ Head(tasks'[u]) = Head(tasks[u])
    <3>1. tasks \in [Threads -> Seq(Tasks)] /\ <<"add", c>> \in Tasks
      BY <1>3, Zenon DEF Inv, Typed, IOTyped, Tasks
    <3>2. tasks'[u] = tasks[u] \/ tasks'[u] = Append(tasks[u], <<"add", c>>)
      BY <1>5, <1>6, <3>1, Zenon
    <3>. QED
      BY <2>1, <3>1, <3>2
  <2>3. ASSUME NEW d \in Clients, Head(tasks[u]) = <<"add", d>>
        PROVE  conn'[d].addr >= d
    <3>1. d # c
      BY <1>15, <2>1, <2>3, Zenon
    <3>. QED
      BY <1>9, <2>1, <2>3, <3>1, Zenon
  <2>4. Head(tasks[u])[1] = "run" => cofunc[u][Head(tasks[u])[2]].s = "ready"
    BY <2>1, Zenon
  <2>. QED
    BY <2>1, <2>2, <2>3, <2>4, TaskKinds, Zenon
<1>19. Mapped' /\ Served' /\ Addressed' /\ OnWheel' /\ Dispatched' /\ Events'
  BY <1>3, <1>8, <1>9, NoneChanged, Zenon DEF fdVars
<1>. QED
  BY <1>9, <1>10, <1>11, <1>12, <1>13, <1>16, <1>17, <1>18, <1>19, Zenon DEF Inv, Typed

LEMMA MainStepInv == ASSUME Counting, Inv, MainStep PROVE Inv'
<1>1. CASE Start
  BY <1>1, MainWaits, Zenon DEF Start, Inv, Typed, MainTyped
<1>2. CASE ListenReady
  BY <1>2, MainWaits, Zenon DEF ListenReady, Inv, Typed, MainTyped
<1>3. CASE AcceptAgain
  BY <1>3, MainWaits, Zenon DEF AcceptAgain
<1>4. CASE AcceptHook
  BY <1>4, AcceptInv DEF AcceptHook
<1>5. CASE AcceptFails
  BY <1>5, MainWaits, Zenon DEF AcceptFails
<1>. QED
  BY <1>1, <1>2, <1>3, <1>4, <1>5, Zenon DEF MainStep
=============================================================================

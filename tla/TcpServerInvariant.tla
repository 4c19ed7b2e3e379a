------------------------- MODULE TcpServerInvariant -------------------------
(***************************************************************************)
(* The inductive invariant of TcpServer, what follows from it, and the steps *)
(* that only shut connections down or free them: those of the io threads   *)
(* when data comes, when the wheel turns and when the Closed connections are *)
(* swept.                                                                  *)
(***************************************************************************)
EXTENDS TcpServer, TLAPS

(* What the tables hold.                                                   *)
Open == {"Connected", "HalfClosing"}
States == Open \cup {"none", "Closed", "freed"}
FdEvents == Nat \X (Threads \cup {"first"})
Tasks == ({"add"} \X Clients) \cup ({"run"} \X Nat)
IsFds(f) == \E m \in Nat : f \in [0..m - 1 -> FdEvents]
IsPool(p) ==
  \E n \in Nat \ {0, 1} :
    p \in [m_pool_size : {n}, first : [0..n -> 0..n], second : [0..n -> BOOLEAN]]
MainTyped ==
  /\ arrived \in 0..MaxClients /\ backlog \in Seq(1..arrived) /\ opened \subseteq Fds
  /\ mpc \in {"new", "cold", "call", "hook", "main", "dead"} /\ ready \in {"no", "yes"}
  /\ peer \in 0..arrived /\ size_ \in 1..MaxThreads /\ index_ \in -1..size_
ConnRecords ==
  [st : States, t : 0..size_ - 1, fd : Fds \cup {0}, addr : Nat, cor : Nat,
   fe : FdEvents \cup {<<0, 0>>}, idle : 0..Buckets]
ConnTyped == conn \in [Clients -> ConnRecords]
IOTyped ==
  /\ iopc \in [Threads -> {"new", "loop", "grow"}]
  /\ tasks \in [Threads -> Seq(Tasks)]
  /\ clients_ \in [Threads -> [Fds -> 0..MaxClients]]
  /\ wheel_ \in [Threads -> Seq(SUBSET Clients)]
  /\ DOMAIN pool = Threads /\ DOMAIN cofunc = Threads
  /\ epoll \in [Threads -> SUBSET Fds]
  /\ \A t \in Threads :
       /\ Len(wheel_[t]) = Buckets /\ IsPool(pool[t])
       /\ DOMAIN cofunc[t] \subseteq Nat
       /\ \A k \in DOMAIN cofunc[t] :
            cofunc[t][k] \in [s : {"ready", "in", "done"}, c : Clients]
FdsTyped ==
  /\ IsFds(fds_) /\ listening \subseteq FdEvents /\ raced \in {"no", "yes"}
  /\ DOMAIN copied = Threads
  /\ \A t \in Threads : iopc[t] = "grow" => IsFds(copied[t])
Typed == MainTyped /\ ConnTyped /\ IOTyped /\ FdsTyped

(* A client holds an fd from accept() to close().                          *)
Owner(c) == conn[c].fd # 0 /\ conn[c].st \in Open \cup {"none"}

(* Clients are accepted in the order of their numbers; one that is still   *)
(* to come has no fd and no connection.                                    *)
Arrivals ==
  /\ \A i \in DOMAIN backlog : backlog[i] > peer
  /\ \A i, j \in DOMAIN backlog : i < j => backlog[i] < backlog[j]
  /\ \A c \in Clients :
       /\ c > peer => conn[c].st = "none" /\ conn[c].fd = 0
       /\ conn[c].st = "none" => conn[c].idle = 0
       /\ conn[c].st # "none" => conn[c].fd # 0

(* An open fd has one owner.                                               *)
Owned ==
  /\ \A c \in Clients : Owner(c) => conn[c].fd \in opened
  /\ \A c, d \in Clients : Owner(c) /\ Owner(d) /\ conn[c].fd = conn[d].fd => c = d
  /\ \A fd \in opened : \E c \in Clients : Owner(c) /\ conn[c].fd = fd

(* A client to be added is waited for by its own thread, once.             *)
AddQueued ==
  \A t \in Threads : \A i \in DOMAIN tasks[t] :
    tasks[t][i][1] = "add" =>
      LET c == tasks[t][i][2]
      IN /\ conn[c].st = "none" /\ conn[c].t = t /\ conn[c].fd # 0
         /\ \A j \in DOMAIN tasks[t] : tasks[t][j] = tasks[t][i] => j = i

(* A coroutine to be resumed has been given a callback.                    *)
RunQueued ==
  \A t \in Threads : \A i \in DOMAIN tasks[t] :
    tasks[t][i][1] = "run" => tasks[t][i][2] \in DOMAIN cofunc[t]

(* What a thread was doing when it began to grow the container is still to *)
(* be done when it goes on.                                                *)
Growing ==
  \A t \in Threads : iopc[t] = "grow" =>
    /\ tasks[t] # <<>>
    /\ LET task == Head(tasks[t])
       IN /\ task[1] = "add" => conn[task[2]].addr >= task[2]
          /\ task[1] = "run" => cofunc[t][task[2]].s = "ready"

(* The map of a thread holds connections of this thread.                   *)
Mapped ==
  \A t \in Threads, fd \in Fds :
    clients_[t][fd] # 0 =>
      /\ conn[clients_[t][fd]].fd = fd /\ conn[clients_[t][fd]].t = t
      /\ Live(clients_[t][fd])

(* A coroutine with a callback to run serves an open connection that holds *)
(* it.                                                                     *)
Served ==
  \A t \in Threads : \A k \in DOMAIN cofunc[t] :
    cofunc[t][k].s \in {"ready", "in"} =>
      /\ conn[cofunc[t][k].c].cor = k /\ conn[cofunc[t][k].c].t = t
      /\ conn[cofunc[t][k].c].st \in Open
Addressed == \A c \in Clients : Live(c) => conn[c].addr >= c

(* A connection that has idled for i turns is in the bucket i before the   *)
(* last and in no later one.                                               *)
OnWheel ==
  \A c \in Clients :
    /\ conn[c].st = "Connected" =>
         /\ conn[c].idle < Buckets
         /\ c \in wheel_[conn[c].t][Buckets - conn[c].idle]
         /\ \A b \in 1..Buckets : b > Buckets - conn[c].idle => c \notin wheel_[conn[c].t][b]
    /\ conn[c].st = "HalfClosing" => conn[c].idle = Buckets

(* A pool never shrinks; in one that has not grown every connection has a  *)
(* coroutine of its own, and its slot is marked.                           *)
Dispatched ==
  \A t \in Threads :
    /\ pool[t].m_pool_size >= PoolSize
    /\ pool[t].m_pool_size = PoolSize =>
         /\ pool[t].first = [i \in 0..PoolSize |-> i]
         /\ \A c \in Clients : Live(c) /\ conn[c].t = t =>
              /\ conn[c].cor \in 0..PoolSize /\ pool[t].second[conn[c].cor]
              /\ \A d \in Clients : Live(d) /\ conn[d].t = t /\ conn[d].cor = conn[c].cor => d = c

(* The coroutine of c is inside read_hook.                                 *)
Reading(c) ==
  /\ conn[c].st \in Open /\ conn[c].cor \in InCoFunc(conn[c].t)
  /\ cofunc[conn[c].t][conn[c].cor].c = c

(* Until two threads have grown the container from the same copy, an fd    *)
(* has one FdEvent for ever; READ is in the events of one exactly while a  *)
(* coroutine reads from its fd.                                            *)
Events ==
  raced = "no" =>
    /\ \A i \in DOMAIN fds_ : fds_[i][1] = i
    /\ \A c \in Clients : conn[c].st # "none" =>
         conn[c].fd \in DOMAIN fds_ /\ conn[c].fe = fds_[conn[c].fd]
    /\ \A fe \in listening : \E c \in Clients : Reading(c) /\ conn[c].fe = fe
    /\ \A c \in Clients : Reading(c) => conn[c].fd \in epoll[conn[c].t]
Inv ==
  /\ Typed /\ Arrivals /\ Owned /\ AddQueued /\ RunQueued /\ Growing /\ Mapped /\ Served
  /\ Addressed /\ OnWheel /\ Dispatched /\ Events

-----------------------------------------------------------------------------
(* The operators.                                                          *)

LEMMA Constants ==
  /\ MaxClients \in Nat \ {0} /\ MaxThreads \in Nat \ {0} /\ FdSize \in Nat \ {0}
  /\ PoolSize \in Nat /\ PoolSize > 1 /\ Buckets \in Nat \ {0}
  /\ Fds \subseteq Nat \ {0} /\ 0 \notin Fds /\ IsFiniteSet(Fds)
BY ServerAssumption

(* Facts of counting, none of them about a state.  They are proved in      *)
(* TcpServerProofs, from the library; here they are hypotheses.            *)
Counting ==
  /\ \A m \in Nat : Cardinality(0..m - 1) = m
  /\ \A S \in SUBSET Nat : S # {} => Min(S) \in S
  /\ \A c \in Clients : \A f \in [Fds -> Clients \ {c}] : \E x, y \in Fds : x # y /\ f[x] = f[y]

(* The wheel with a client in its last bucket, and after a turn.           *)
LEMMA FreshWheel ==
  ASSUME NEW w \in Seq(SUBSET Clients), Len(w) = Buckets, NEW c \in Clients
  PROVE  /\ Fresh(w, c) \in Seq(SUBSET Clients) /\ Len(Fresh(w, c)) = Buckets
         /\ Fresh(w, c)[Buckets] = w[Buckets] \cup {c}
         /\ \A b \in 1..Buckets : b # Buckets => Fresh(w, c)[b] = w[b]
BY Constants DEF Fresh

LEMMA PoppedWheel ==
  ASSUME NEW w \in Seq(SUBSET Clients), Len(w) = Buckets
  PROVE  /\ Popped(w) \in Seq(SUBSET Clients) /\ Len(Popped(w)) = Buckets
         /\ Popped(w)[Buckets] = {}
         /\ \A b \in 1..Buckets - 1 : Popped(w)[b] = w[b + 1]
<1>1. w # <<>> /\ {} \in SUBSET Clients
  BY Constants
<1>. QED
  BY <1>1, Constants DEF Popped

(* A queue loses its first task and may get another one.                   *)
LEMMA TailQueue ==
  ASSUME NEW S, NEW q \in Seq(S), q # <<>>
  PROVE  /\ Tail(q) \in Seq(S) /\ Len(Tail(q)) = Len(q) - 1 /\ Len(q) >= 1
         /\ \A i \in DOMAIN Tail(q) : i + 1 \in DOMAIN q /\ Tail(q)[i] = q[i + 1]
         /\ Head(q) = q[1] /\ 1 \in DOMAIN q
OBVIOUS

(* The pool: a new one, a dispatch, a growth, a return.                    *)
LEMMA PoolFields ==
  ASSUME NEW p, IsPool(p)
  PROVE  /\ p.m_pool_size \in Nat \ {0, 1}
         /\ p.first \in [0..p.m_pool_size -> 0..p.m_pool_size]
         /\ p.second \in [0..p.m_pool_size -> BOOLEAN]
BY DEF IsPool

-----------------------------------------------------------------------------
(* What the invariant says of a connection and of the task at the head of a *)
(* queue.                                                                  *)

LEMMA ConnFields ==
  ASSUME Inv, NEW c \in Clients
  PROVE  conn[c] \in ConnRecords
BY DEF Inv, Typed, ConnTyped

LEMMA ConnFd ==
  ASSUME Inv, NEW c \in Clients
  PROVE  conn[c].fd \in Nat
<1>1. conn[c].fd \in Fds \cup {0}
  BY ConnFields DEF ConnRecords
<1>2. 0 \in Nat
  OBVIOUS
<1>3. ASSUME NEW x \in Fds PROVE x \in Nat
  BY <1>3, Constants, Zenon
<1>. QED
  BY <1>1, <1>2, <1>3, Zenon

LEMMA ConnThread ==
  ASSUME Inv, NEW c \in Clients
  PROVE  conn[c].t \in Threads
<1>1. conn[c].t \in 0..size_ - 1
  BY ConnFields DEF ConnRecords
<1>2. size_ \in 1..MaxThreads
  BY DEF Inv, Typed, MainTyped
<1>. QED
  BY <1>1, <1>2, Constants DEF Threads

(* The task at the head of a queue.                                        *)
LEMMA TaskKinds ==
  ASSUME NEW x \in Tasks
  PROVE  \/ x[1] = "add" /\ x[2] \in Clients /\ x = <<"add", x[2]>>
         \/ x[1] = "run" /\ x[2] \in Nat /\ x = <<"run", x[2]>>
BY DEF Tasks

FirstTask(t, kind, x) == tasks[t] # <<>> /\ Head(tasks[t]) = <<kind, x>>

LEMMA FirstOf ==
  ASSUME Inv, NEW t \in Threads, NEW kind, NEW x, FirstTask(t, kind, x)
  PROVE  /\ tasks[t] \in Seq(Tasks) /\ 1 \in DOMAIN tasks[t] /\ tasks[t][1] = <<kind, x>>
         /\ kind = "add" => x \in Clients
         /\ kind = "run" => x \in Nat
<1>1. tasks[t] \in Seq(Tasks)
  BY DEF Inv, Typed, IOTyped
<1>2. 1 \in DOMAIN tasks[t] /\ tasks[t][1] = <<kind, x>> /\ tasks[t][1] \in Tasks
  BY <1>1 DEF FirstTask
<1>. QED
  BY <1>1, <1>2 DEF Tasks

LEMMA FirstAdd ==
  ASSUME Inv, NEW t \in Threads, NEW c, FirstTask(t, "add", c)
  PROVE  /\ c \in Clients
         /\ conn[c].st = "none" /\ conn[c].t = t /\ conn[c].fd \in Fds /\ conn[c].fd # 0
         /\ conn[c].idle = 0 /\ c <= peer
         /\ \A u \in Threads : \A i \in DOMAIN tasks[u] :
              tasks[u][i] = <<"add", c>> => u = t /\ i = 1
<1>1. c \in Clients /\ 1 \in DOMAIN tasks[t] /\ tasks[t][1] = <<"add", c>>
  BY FirstOf
<1>2. conn[c].st = "none" /\ conn[c].t = t /\ conn[c].fd # 0
  BY <1>1 DEF Inv, AddQueued
<1>3. conn[c].fd \in Fds
  BY <1>1, <1>2, ConnFields DEF ConnRecords
<1>4. conn[c].idle = 0 /\ c <= peer
  <2>1. ~ (c > peer) /\ conn[c].idle = 0
    BY <1>1, <1>2 DEF Inv, Arrivals
  <2>2. c \in Int /\ peer \in Int
    BY <1>1, Constants DEF Clients, Inv, Typed, MainTyped
  <2>. QED
    BY <2>1, <2>2
<1>5. ASSUME NEW u \in Threads, NEW i \in DOMAIN tasks[u], tasks[u][i] = <<"add", c>>
      PROVE  u = t /\ i = 1
  <2>1. conn[c].t = u
    BY <1>5 DEF Inv, AddQueued
  <2>2. u = t
    BY <1>2, <2>1
  <2>. QED
    BY <1>1, <1>5, <2>2 DEF Inv, AddQueued
<1>. QED
  BY <1>1, <1>2, <1>3, <1>4, <1>5

LEMMA FirstRun ==
  ASSUME Inv, NEW t \in Threads, NEW k, FirstTask(t, "run", k)
  PROVE  /\ k \in DOMAIN cofunc[t] /\ k \in Nat
         /\ cofunc[t][k] \in [s : {"ready", "in", "done"}, c : Clients]
<1>1. k \in Nat /\ 1 \in DOMAIN tasks[t] /\ tasks[t][1] = <<"run", k>>
  BY FirstOf
<1>2. k \in DOMAIN cofunc[t]
  BY <1>1 DEF Inv, RunQueued
<1>. QED
  BY <1>1, <1>2 DEF Inv, Typed, IOTyped

LEMMA FirstOfKind ==
  ASSUME Inv, NEW t \in Threads, tasks[t] # <<>>
  PROVE  /\ Head(tasks[t])[1] \in {"add", "run"}
         /\ FirstTask(t, Head(tasks[t])[1], Head(tasks[t])[2])
<1>1. tasks[t] \in Seq(Tasks)
  BY DEF Inv, Typed, IOTyped
<1>2. Head(tasks[t]) \in Tasks
  BY <1>1
<1>. QED
  BY <1>2, TaskKinds, Zenon DEF FirstTask

(* The entries of the tables are clients.                                  *)
LEMMA Entries ==
  ASSUME Inv, NEW t \in Threads
  PROVE  /\ \A fd \in Fds : clients_[t][fd] # 0 => clients_[t][fd] \in Clients
         /\ \A k \in DOMAIN cofunc[t] : k \in Nat /\ cofunc[t][k].c \in Clients
<1>1. ASSUME NEW fd \in Fds, clients_[t][fd] # 0 PROVE clients_[t][fd] \in Clients
  <2>1. clients_[t][fd] \in 0..MaxClients
    BY DEF Inv, Typed, IOTyped
  <2>. QED
    BY <1>1, <2>1, Constants DEF Clients
<1>2. \A k \in DOMAIN cofunc[t] : k \in Nat /\ cofunc[t][k].c \in Clients
  BY DEF Inv, Typed, IOTyped
<1>. QED
  BY <1>1, <1>2

-----------------------------------------------------------------------------
(* What keeps the parts of the invariant.                                  *)

LEMMA AddQueuedKept ==
  ASSUME Inv, tasks' \in [Threads -> Seq(Tasks)],
         \A u \in Threads : \E o \in {0, 1} : \A i \in DOMAIN tasks'[u] :
           tasks'[u][i][1] = "add" => i + o \in DOMAIN tasks[u] /\ tasks'[u][i] = tasks[u][i + o],
         \A u \in Threads, d \in Clients :
           (\E i \in DOMAIN tasks'[u] : tasks'[u][i] = <<"add", d>>) =>
             conn'[d].st = conn[d].st /\ conn'[d].t = conn[d].t /\ conn'[d].fd = conn[d].fd
  PROVE  AddQueued'
<1>. SUFFICES ASSUME NEW u \in Threads, NEW i \in DOMAIN tasks'[u], tasks'[u][i][1] = "add"
              PROVE  LET d == tasks'[u][i][2]
                     IN /\ conn'[d].st = "none" /\ conn'[d].t = u /\ conn'[d].fd # 0
                        /\ \A j \in DOMAIN tasks'[u] : tasks'[u][j] = tasks'[u][i] => j = i
  BY Zenon DEF AddQueued
<1>1. PICK o \in {0, 1} : \A j \in DOMAIN tasks'[u] :
        tasks'[u][j][1] = "add" => j + o \in DOMAIN tasks[u] /\ tasks'[u][j] = tasks[u][j + o]
  BY Zenon
<1>2. PICK d \in Clients : tasks'[u][i] = <<"add", d>>
  BY TaskKinds
<1>3. i + o \in DOMAIN tasks[u] /\ tasks[u][i + o] = <<"add", d>>
  BY <1>1, <1>2
<1>4. conn[d].st = "none" /\ conn[d].t = u /\ conn[d].fd # 0
  BY <1>3 DEF Inv, AddQueued
<1>5. conn'[d].st = conn[d].st /\ conn'[d].t = conn[d].t /\ conn'[d].fd = conn[d].fd
  BY <1>2, Zenon
<1>6. ASSUME NEW j \in DOMAIN tasks'[u], tasks'[u][j] = tasks'[u][i] PROVE j = i
  <2>1. j + o \in DOMAIN tasks[u] /\ tasks[u][j + o] = <<"add", d>>
    BY <1>1, <1>2, <1>6
  <2>2. j + o = i + o
    <3>1. tasks[u][i + o][1] = "add"
      BY <1>3
    <3>2. \A m \in DOMAIN tasks[u] : tasks[u][m] = tasks[u][i + o] => m = i + o
      BY <1>3, <3>1, Zenon DEF Inv, AddQueued
    <3>. QED
      BY <1>3, <2>1, <3>2, Zenon
  <2>3. i \in Int /\ j \in Int
    OBVIOUS
  <2>. QED
    BY <2>2, <2>3
<1>. QED
  BY <1>2, <1>4, <1>5, <1>6

LEMMA RunQueuedKept ==
  ASSUME Inv, \A u \in Threads : DOMAIN cofunc[u] \subseteq DOMAIN cofunc'[u],
         \A u \in Threads : \A i \in DOMAIN tasks'[u] : tasks'[u][i][1] = "run" =>
           \/ \E j \in DOMAIN tasks[u] : tasks[u][j] = tasks'[u][i]
           \/ tasks'[u][i][2] \in DOMAIN cofunc'[u]
  PROVE  RunQueued'
BY DEF Inv, RunQueued

LEMMA GrowingKept ==
  ASSUME Inv,
         \A u \in Threads : iopc'[u] = "grow" =>
           /\ iopc[u] = "grow" /\ tasks'[u] = tasks[u]
           /\ \A k \in DOMAIN cofunc[u] : cofunc'[u][k] = cofunc[u][k],
         \A u \in Threads, d \in Clients :
           iopc'[u] = "grow" /\ FirstTask(u, "add", d) => conn'[d].addr = conn[d].addr
  PROVE  Growing'
<1>. SUFFICES ASSUME NEW u \in Threads, iopc'[u] = "grow"
              PROVE  /\ tasks'[u] # <<>>
                     /\ LET task == Head(tasks'[u])
                        IN /\ task[1] = "add" => conn'[task[2]].addr >= task[2]
                           /\ task[1] = "run" => cofunc'[u][task[2]].s = "ready"
  BY Zenon DEF Growing
<1>1. iopc[u] = "grow" /\ tasks'[u] = tasks[u] /\ tasks[u] # <<>> /\ tasks[u] \in Seq(Tasks)
      /\ Head(tasks[u]) \in Tasks
  BY DEF Inv, Growing, Typed, IOTyped
<1>2. ASSUME NEW d \in Clients, Head(tasks[u]) = <<"add", d>> PROVE conn'[d].addr >= d
  BY <1>1, <1>2 DEF Inv, Growing, FirstTask
<1>3. ASSUME NEW k, Head(tasks[u]) = <<"run", k>> PROVE cofunc'[u][k].s = "ready"
  <2>1. k \in DOMAIN cofunc[u]
    BY <1>1, <1>3, FirstRun DEF FirstTask
  <2>. QED
    BY <1>1, <1>3, <2>1 DEF Inv, Growing
<1>. QED
  BY <1>1, <1>2, <1>3, TaskKinds

LEMMA MappedKept ==
  ASSUME Inv, clients_' \in [Threads -> [Fds -> 0..MaxClients]],
         \A t \in Threads, fd \in Fds, d \in Clients :
           clients_'[t][fd] = d => clients_[t][fd] = d /\ Live(d)',
         \A d \in Clients : conn'[d].fd = conn[d].fd /\ conn'[d].t = conn[d].t
  PROVE  Mapped'
<1>1. ASSUME NEW t \in Threads, NEW fd \in Fds, NEW d \in Clients, clients_'[t][fd] = d
      PROVE  conn'[d].fd = fd /\ conn'[d].t = t /\ Live(d)'
  <2>1. clients_[t][fd] = d /\ d # 0
    BY <1>1, Constants DEF Clients
  <2>. QED
    BY <1>1, <2>1 DEF Inv, Mapped
<1>2. \A t \in Threads, fd \in Fds : clients_'[t][fd] # 0 => clients_'[t][fd] \in Clients
  BY Constants DEF Clients
<1>. QED
  BY <1>1, <1>2, Zenon DEF Mapped, Live

LEMMA DispatchedKept ==
  ASSUME Inv, pool' = pool,
         \A d \in Clients : Live(d)' => Live(d) /\ conn'[d].cor = conn[d].cor /\ conn'[d].t = conn[d].t
  PROVE  Dispatched'
BY DEF Inv, Dispatched

(* A task is done, and perhaps a resume queued in its place.               *)
LEMMA DroppedTask ==
  ASSUME Inv, NEW t \in Threads, tasks[t] # <<>>, tasks' = [tasks EXCEPT ![t] = Tail(@)]
  PROVE  /\ tasks' \in [Threads -> Seq(Tasks)]
         /\ \A u \in Threads : u # t => tasks'[u] = tasks[u]
         /\ \A i \in DOMAIN tasks'[t] : i + 1 \in DOMAIN tasks[t] /\ tasks'[t][i] = tasks[t][i + 1]
<1>1. tasks \in [Threads -> Seq(Tasks)] /\ tasks[t] \in Seq(Tasks)
  BY DEF Inv, Typed, IOTyped
<1>2. tasks'[t] = Tail(tasks[t]) /\ Tail(tasks[t]) \in Seq(Tasks)
  BY <1>1, TailQueue
<1>3. \A i \in DOMAIN Tail(tasks[t]) : i + 1 \in DOMAIN tasks[t] /\ Tail(tasks[t])[i] = tasks[t][i + 1]
  BY <1>1, TailQueue
<1>4. tasks' \in [Threads -> Seq(Tasks)] /\ \A u \in Threads : u # t => tasks'[u] = tasks[u]
  BY <1>1, <1>2, Zenon
<1>. QED
  BY <1>2, <1>3, <1>4, Zenon

(* A step of thread t after which it grows nothing; unless it undoes       *)
(* another growth every fd keeps its FdEvent.                              *)
FdsStep(t) ==
  /\ IsFds(fds_') /\ raced' \in {"no", "yes"} /\ DOMAIN copied' = Threads
  /\ iopc' \in [Threads -> {"new", "loop", "grow"}]
  /\ \A u \in Threads : iopc'[u] = "grow" => u # t /\ iopc[u] = "grow" /\ copied'[u] = copied[u]
  /\ raced' = "no" =>
       /\ raced = "no"
       /\ \A i \in DOMAIN fds_ : i \in DOMAIN fds_' /\ fds_'[i] = fds_[i]
       /\ \A i \in DOMAIN fds_' : fds_'[i][1] = i

(* The event of an fd in the container.                                    *)
LEMMA EventOf ==
  ASSUME NEW f, IsFds(f), NEW i \in DOMAIN f
  PROVE  f[i] \in FdEvents
BY DEF IsFds

LEMMA FdsUnchanged ==
  ASSUME Inv, NEW t \in Threads, iopc[t] = "loop", UNCHANGED <<fds_, copied, raced, iopc>>
  PROVE  FdsStep(t)
BY DEF FdsStep, Inv, Typed, IOTyped, FdsTyped, Events

-----------------------------------------------------------------------------
(* The io threads.                                                         *)

(* A step that only shuts open connections down or frees closed ones.      *)
Softly ==
  \A d \in Clients :
    /\ UNCHANGED <<conn[d].t, conn[d].fd, conn[d].addr, conn[d].cor, conn[d].fe>>
    /\ \/ conn'[d].st = conn[d].st
       \/ conn[d].st \in Open /\ conn'[d].st \in Open
       \/ conn[d].st = "Closed" /\ conn'[d].st = "freed"
    /\ conn[d].st = "none" => conn'[d].idle = conn[d].idle

LEMMA SoftStep ==
  ASSUME Inv, Softly,
         mpc' \in {mpc, "dead"},
         UNCHANGED <<backlog, arrived, opened, ready, peer, size_, index_, fdVars, iopc, tasks,
                     cofunc, epoll>>
  PROVE  /\ MainTyped' /\ FdsTyped' /\ Arrivals' /\ Owned' /\ AddQueued' /\ RunQueued' /\ Growing'
         /\ Served' /\ Addressed' /\ Events'
<1>. USE DEF fdVars
<1>1. MainTyped' /\ FdsTyped'
  BY DEF Inv, Typed, MainTyped, FdsTyped
<1>2. \A d \in Clients : conn'[d].st = "none" <=> conn[d].st = "none"
  BY DEF Softly, Open
<1>3. Arrivals'
  BY <1>2 DEF Inv, Arrivals, Softly
<1>4. \A d \in Clients : Owner(d)' <=> Owner(d)
  BY DEF Owner, Softly, Open
<1>5. Owned'
  BY <1>4 DEF Inv, Owned, Softly
<1>6. AddQueued'
  <2>1. ASSUME NEW u \in Threads, NEW d \in Clients,
               \E i \in DOMAIN tasks[u] : tasks[u][i] = <<"add", d>>
        PROVE  conn'[d].st = conn[d].st /\ conn'[d].t = conn[d].t /\ conn'[d].fd = conn[d].fd
    <3>1. conn[d].st = "none"
      BY <2>1 DEF Inv, AddQueued
    <3>. QED
      BY <1>2, <3>1 DEF Softly
  <2>2. tasks \in [Threads -> Seq(Tasks)]
    BY DEF Inv, Typed, IOTyped
  <2>3. \A u \in Threads : \A i \in DOMAIN tasks[u] : i + 0 \in DOMAIN tasks[u] /\ tasks[u][i] = tasks[u][i + 0]
    BY <2>2
  <2>. QED
    BY <2>1, <2>2, <2>3, AddQueuedKept, Zenon
<1>7. RunQueued' /\ Growing'
  <2>1. RunQueued'
    BY DEF Inv, RunQueued
  <2>2. Growing'
    BY GrowingKept DEF Softly
  <2>. QED
    BY <2>1, <2>2
<1>8. Served'
  <2>1. ASSUME NEW t \in Threads, NEW k \in DOMAIN cofunc[t], cofunc[t][k].s \in {"ready", "in"}
        PROVE  conn'[cofunc[t][k].c].cor = k /\ conn'[cofunc[t][k].c].t = t
                 /\ conn'[cofunc[t][k].c].st \in Open
    <3>1. PICK d \in Clients : d = cofunc[t][k].c
      BY Entries
    <3>2. conn[d].cor = k /\ conn[d].t = t /\ conn[d].st \in Open
      BY <2>1, <3>1 DEF Inv, Served
    <3>3. conn'[d].cor = k /\ conn'[d].t = t /\ conn'[d].st \in Open
      BY <3>2 DEF Softly, Open
    <3>. QED
      BY <3>1, <3>3
  <2>. QED
    BY <2>1 DEF Served
<1>9. Addressed'
  BY DEF Inv, Addressed, Live, Softly, Open
<1>10. Events'
  <2>1. \A d \in Clients : Reading(d)' <=> Reading(d)
    BY DEF Reading, InCoFunc, Softly, Open
  <2>. QED
    BY <1>2, <2>1 DEF Inv, Events, Softly
<1>. QED
  BY <1>1, <1>3, <1>5, <1>6, <1>7, <1>8, <1>9, <1>10

LEMMA IOMainInv ==
  ASSUME Inv, NEW t \in Threads, IOMain(t)
  PROVE  Inv'
<1>0. /\ iopc[t] = "new" /\ iopc' = [iopc EXCEPT ![t] = "loop"]
      /\ UNCHANGED <<mpc, ready, peer, size_, index_, backlog, arrived, opened>>
      /\ UNCHANGED <<fds_, listening, copied, raced, tasks, clients_, wheel_, pool, cofunc, epoll, conn>>
  BY DEF IOMain, mainVars, netVars, fdVars
<1>1. MainTyped' /\ ConnTyped' /\ Arrivals'
  BY <1>0 DEF Inv, Typed, MainTyped, ConnTyped, ConnRecords, Arrivals
<1>2. iopc \in [Threads -> {"new", "loop", "grow"}]
  BY DEF Inv, Typed, IOTyped
<1>3. \A u \in Threads : iopc'[u] = "grow" => iopc[u] = "grow"
  BY <1>0, <1>2
<1>4. iopc' \in [Threads -> {"new", "loop", "grow"}]
  BY <1>0, <1>2
<1>5. IOTyped'
  BY <1>0, <1>4, Zenon DEF Inv, Typed, IOTyped
<1>6. FdsTyped'
  BY <1>0, <1>3, Zenon DEF Inv, Typed, FdsTyped
<1>7. Owned' /\ Addressed'
  BY <1>0, Zenon DEF Inv, Owned, Owner, Addressed, Live
<1>8. AddQueued'
  BY <1>0 DEF Inv, AddQueued
<1>9. RunQueued'
  BY <1>0 DEF Inv, RunQueued
<1>10. Growing'
  BY <1>0, <1>3, GrowingKept
<1>11. Mapped'
  BY <1>0 DEF Inv, Mapped, Live
<1>12. Served'
  BY <1>0, Zenon DEF Inv, Served
<1>13. OnWheel'
  BY <1>0, Zenon DEF Inv, OnWheel
<1>14. Dispatched'
  <2>1. \A d \in Clients : Live(d)' => Live(d) /\ conn'[d] = conn[d]
    BY <1>0 DEF Live
  <2>. QED
    BY <1>0, <2>1, DispatchedKept
<1>15. Events'
  BY <1>0 DEF Inv, Events, Reading, InCoFunc
<1>. QED
  BY <1>1, <1>5, <1>6, <1>7, <1>8, <1>9, <1>10, <1>11, <1>12, <1>13, <1>14, <1>15, Zenon
     DEF Inv, Typed

(* Data comes: the client goes to the last bucket.                         *)
LEMMA InputInv ==
  ASSUME Inv, NEW t \in Threads, NEW c \in Clients, Input(t, c)
  PROVE  Inv'
<1>0. /\ conn[c].st = "Connected" /\ conn[c].t = t
      /\ IF c \in UNION Range(wheel_[t]) THEN wheel_' = [wheel_ EXCEPT ![t] = Fresh(@, c)]
         ELSE wheel_' = wheel_
      /\ conn' = [conn EXCEPT ![c].idle = 0]
      /\ mpc' \in {mpc, "dead"}
      /\ UNCHANGED <<ready, peer, size_, index_, backlog, arrived, opened, fdVars, iopc, tasks,
                     clients_, pool, cofunc, epoll>>
  BY DEF Input, Waits, CallBack, netVars
<1>1. conn[c] \in ConnRecords /\ conn \in [Clients -> ConnRecords]
  BY ConnFields DEF Inv, Typed, ConnTyped
<1>2. conn'[c] = [conn[c] EXCEPT !.idle = 0] /\ \A d \in Clients : d # c => conn'[d] = conn[d]
  BY <1>0, <1>1, Zenon
<1>3. /\ conn'[c] \in ConnRecords /\ conn'[c].idle = 0
      /\ UNCHANGED <<conn[c].st, conn[c].t, conn[c].fd, conn[c].addr, conn[c].cor, conn[c].fe>>
  <2>1. 0 \in 0..Buckets
    BY Constants
  <2>. QED
    BY <1>1, <1>2, <2>1, Zenon DEF ConnRecords
<1>4. ConnTyped'
  <2>1. conn' \in [Clients -> ConnRecords]
    BY <1>0, <1>1, <1>2, <1>3, Zenon
  <2>. QED
    BY <1>0, <2>1 DEF ConnTyped, ConnRecords
<1>5. Softly
  BY <1>0, <1>2, <1>3 DEF Softly
<1>6. wheel_[t] \in Seq(SUBSET Clients) /\ Len(wheel_[t]) = Buckets /\ DOMAIN wheel_[t] = 1..Buckets
  BY DEF Inv, Typed, IOTyped
<1>7. wheel_' = [wheel_ EXCEPT ![t] = Fresh(@, c)]
  <2>1. conn[c].idle \in 0..Buckets /\ conn[c].idle < Buckets
        /\ c \in wheel_[t][Buckets - conn[c].idle]
    BY <1>0, <1>1 DEF ConnRecords, Inv, OnWheel
  <2>2. Buckets - conn[c].idle \in DOMAIN wheel_[t]
    BY <1>6, <2>1, Constants
  <2>3. c \in UNION Range(wheel_[t])
    BY <2>1, <2>2, Zenon DEF Range
  <2>. QED
    BY <1>0, <2>3
<1>8. /\ wheel_'[t] = Fresh(wheel_[t], c) /\ \A u \in Threads : u # t => wheel_'[u] = wheel_[u]
      /\ wheel_' \in [Threads -> Seq(SUBSET Clients)] /\ Len(wheel_'[t]) = Buckets
      /\ c \in wheel_'[t][Buckets]
      /\ \A b \in 1..Buckets, d \in Clients : d # c => (d \in wheel_'[t][b] <=> d \in wheel_[t][b])
  <2>1. wheel_ \in [Threads -> Seq(SUBSET Clients)]
    BY DEF Inv, Typed, IOTyped
  <2>2. wheel_'[t] = Fresh(wheel_[t], c) /\ \A u \in Threads : u # t => wheel_'[u] = wheel_[u]
    BY <1>7, <2>1
  <2>3. Fresh(wheel_[t], c) \in Seq(SUBSET Clients)
    BY <1>6, FreshWheel
  <2>4. wheel_' \in [Threads -> Seq(SUBSET Clients)]
    BY <1>7, <2>1, <2>3
  <2>. QED
    BY <1>6, <2>2, <2>4, FreshWheel
<1>9. IOTyped'
  <2>1. ASSUME NEW u \in Threads PROVE Len(wheel_'[u]) = Buckets
    <3>1. Len(wheel_[u]) = Buckets
      BY DEF Inv, Typed, IOTyped
    <3>. QED
      BY <1>8, <3>1
  <2>. QED
    BY <1>0, <1>8, <2>1, Zenon DEF Inv, Typed, IOTyped
<1>10. OnWheel'
  <2>1. ASSUME NEW d \in Clients, d # c
        PROVE  /\ conn'[d] = conn[d]
               /\ \A b \in 1..Buckets : d \in wheel_'[conn[d].t][b] <=> d \in wheel_[conn[d].t][b]
    <3>1. conn[d].t \in Threads
      BY ConnThread
    <3>. QED
      BY <1>2, <1>8, <2>1, <3>1
  <2>2. ASSUME NEW d \in Clients, conn[d].st = "Connected", conn[d].idle < Buckets
        PROVE  Buckets - conn[d].idle \in 1..Buckets
    BY <2>2, ConnFields, Constants DEF ConnRecords
  <2>. SUFFICES ASSUME NEW d \in Clients
                PROVE  /\ conn'[d].st = "Connected" =>
                            /\ conn'[d].idle < Buckets
                            /\ d \in wheel_'[conn'[d].t][Buckets - conn'[d].idle]
                            /\ \A b \in 1..Buckets :
                                 b > Buckets - conn'[d].idle => d \notin wheel_'[conn'[d].t][b]
                       /\ conn'[d].st = "HalfClosing" => conn'[d].idle = Buckets
    BY Zenon DEF OnWheel
  <2>3. CASE d = c
    BY <1>0, <1>3, <1>8, <2>3, Constants
  <2>4. CASE d # c
    BY <2>1, <2>2, <2>4 DEF Inv, OnWheel
  <2>. QED
    BY <2>3, <2>4
<1>11. Mapped'
  <2>1. \A d \in Clients : Live(d)' <=> Live(d)
    BY <1>2, <1>3, Zenon DEF Live
  <2>2. ASSUME NEW u \in Threads, NEW fd \in Fds, NEW d \in Clients, clients_'[u][fd] = d
        PROVE  clients_[u][fd] = d /\ Live(d)'
    BY <1>0, <2>1, <2>2, Constants DEF Clients, Inv, Mapped
  <2>. QED
    BY <1>0, <1>5, <2>2, MappedKept DEF Softly, Inv, Typed, IOTyped
<1>12. Dispatched'
  BY <1>0, <1>2, <1>3, DispatchedKept DEF Live
<1>. QED
  BY <1>0, <1>4, <1>5, <1>9, <1>10, <1>11, <1>12, SoftStep DEF Inv, Typed

LEMMA MinPair ==
  ASSUME NEW a \in Int, NEW b \in Int
  PROVE  Min({a, b}) = IF a <= b THEN a ELSE b
BY DEF Min

(* The wheel turns: an open connection either idles a turn longer or is    *)
(* shut down.                                                              *)
LEMMA LoopFuncInv ==
  ASSUME Inv, NEW t \in Threads, LoopFunc(t)
  PROVE  Inv'
<1>. DEFINE w == Popped(wheel_[t])
            expired == (UNION Range(wheel_[t])) \ (UNION Range(w))
            Turned(d) == [conn[d] EXCEPT !.st = IF d \in expired THEN "HalfClosing" ELSE @,
                                         !.idle = Min({@ + 1, Buckets})]
<1>0. /\ wheel_ \in [Threads -> Seq(SUBSET Clients)] /\ wheel_[t] \in Seq(SUBSET Clients)
      /\ Len(wheel_[t]) = Buckets
  BY DEF Inv, Typed, IOTyped
<1>1. /\ wheel_' = [wheel_ EXCEPT ![t] = w]
      /\ mpc' \in {mpc, "dead"}
      /\ UNCHANGED <<ready, peer, size_, index_, backlog, arrived, opened, fdVars, iopc, tasks,
                     clients_, pool, cofunc, epoll>>
  BY Zenon DEF LoopFunc, mainVars, netVars
<1>2. wheel_'[t] = w /\ \A u \in Threads : u # t => wheel_'[u] = wheel_[u]
  BY <1>0, <1>1
<1>3. conn' = [d \in Clients |-> IF conn[d].t # t \/ conn[d].st \notin Open
                                  THEN conn[d] ELSE Turned(d)]
  BY <1>2, Zenon DEF LoopFunc, Open
<1>4. /\ w \in Seq(SUBSET Clients) /\ Len(w) = Buckets /\ DOMAIN w = 1..Buckets
      /\ w[Buckets] = {} /\ \A b \in 1..Buckets - 1 : w[b] = wheel_[t][b + 1]
  BY <1>0, PoppedWheel
<1>5. DOMAIN wheel_[t] = 1..Buckets
  BY <1>0
<1>. HIDE DEF w
<1>15. \A d : d \in expired <=> d \in UNION Range(wheel_[t]) /\ d \notin UNION Range(w)
  BY Zenon
<1>6. ASSUME NEW d \in Clients
      PROVE  /\ Turned(d) \in ConnRecords
             /\ Turned(d).st = IF d \in expired THEN "HalfClosing" ELSE conn[d].st
             /\ Turned(d).idle = IF conn[d].idle < Buckets THEN conn[d].idle + 1 ELSE Buckets
             /\ Turned(d).t = conn[d].t /\ Turned(d).fd = conn[d].fd /\ Turned(d).addr = conn[d].addr
             /\ Turned(d).cor = conn[d].cor /\ Turned(d).fe = conn[d].fe
  <2>. DEFINE st == IF d \in expired THEN "HalfClosing" ELSE conn[d].st
              idle == Min({conn[d].idle + 1, Buckets})
  <2>1. conn[d] \in ConnRecords
    BY ConnFields
  <2>2. Turned(d) = [conn[d] EXCEPT !.st = st, !.idle = idle]
    BY Zenon
  <2>3. conn[d].idle \in 0..Buckets /\ conn[d].st \in States
    BY <2>1 DEF ConnRecords
  <2>4. idle = (IF conn[d].idle < Buckets THEN conn[d].idle + 1 ELSE Buckets) /\ idle \in 0..Buckets
    BY <2>3, Constants, MinPair
  <2>5. st \in States
    BY <2>3 DEF States, Open
  <2>. HIDE DEF st, idle, expired
  <2>6. [conn[d] EXCEPT !.st = st, !.idle = idle] \in ConnRecords
    BY <2>1, <2>4, <2>5, Zenon DEF ConnRecords
  <2>7. /\ Turned(d).st = st /\ Turned(d).idle = idle
        /\ Turned(d).t = conn[d].t /\ Turned(d).fd = conn[d].fd /\ Turned(d).addr = conn[d].addr
        /\ Turned(d).cor = conn[d].cor /\ Turned(d).fe = conn[d].fe
    BY <2>1, <2>2, Zenon DEF ConnRecords
  <2>. QED
    BY <2>2, <2>4, <2>6, <2>7, Zenon DEF st
<1>. HIDE DEF Turned, expired
<1>7. ConnTyped'
  <2>1. conn' \in [Clients -> ConnRecords]
    BY <1>3, <1>6, ConnFields
  <2>. QED
    BY <1>1, <2>1 DEF ConnTyped, ConnRecords
<1>8. ASSUME NEW d \in Clients
      PROVE  conn'[d] = conn[d] \/ (conn[d].t = t /\ conn[d].st \in Open /\ conn'[d] = Turned(d))
  BY <1>3
<1>9. Softly
  <2>1. ASSUME NEW d \in Clients, conn[d].st \in Open, conn'[d] = Turned(d)
        PROVE  /\ UNCHANGED <<conn[d].t, conn[d].fd, conn[d].addr, conn[d].cor, conn[d].fe>>
               /\ conn'[d].st \in Open /\ conn[d].st # "none"
    BY <1>6, <2>1 DEF Open
  <2>. QED
    BY <1>8, <2>1, Zenon DEF Softly
<1>10. IOTyped'
  <2>1. wheel_' \in [Threads -> Seq(SUBSET Clients)]
    BY <1>0, <1>1, <1>4
  <2>2. ASSUME NEW u \in Threads PROVE Len(wheel_'[u]) = Buckets
    <3>1. Len(wheel_[u]) = Buckets
      BY DEF Inv, Typed, IOTyped
    <3>. QED
      BY <1>2, <1>4, <3>1
  <2>. QED
    BY <1>1, <2>1, <2>2, Zenon DEF Inv, Typed, IOTyped
<1>11. \A d \in Clients : Live(d)' <=> Live(d)
  BY <1>6, <1>8 DEF Live, Open
<1>12. Mapped'
  <2>2. ASSUME NEW u \in Threads, NEW fd \in Fds, NEW d \in Clients, clients_'[u][fd] = d
        PROVE  clients_[u][fd] = d /\ Live(d)'
    <3>1. clients_[u][fd] = d /\ d # 0
      BY <1>1, <2>2, Constants DEF Clients
    <3>2. Live(d)
      BY <3>1 DEF Inv, Mapped
    <3>. QED
      BY <1>11, <3>1, <3>2, Zenon
  <2>. QED
    BY <1>1, <1>9, <2>2, MappedKept DEF Softly, Inv, Typed, IOTyped
<1>13. Dispatched'
  BY <1>1, <1>9, <1>11, DispatchedKept DEF Softly
<1>14. OnWheel'
  <2>. SUFFICES ASSUME NEW d \in Clients
                PROVE  /\ conn'[d].st = "Connected" =>
                            /\ conn'[d].idle < Buckets
                            /\ d \in wheel_'[conn'[d].t][Buckets - conn'[d].idle]
                            /\ \A b \in 1..Buckets : b > Buckets - conn'[d].idle
                                                       => d \notin wheel_'[conn'[d].t][b]
                       /\ conn'[d].st = "HalfClosing" => conn'[d].idle = Buckets
    BY DEF OnWheel
  <2>0. conn[d].t \in Threads /\ conn[d].idle \in 0..Buckets
    BY ConnFields, ConnThread DEF ConnRecords
  <2>1. /\ conn[d].st = "Connected" =>
             /\ conn[d].idle < Buckets
             /\ d \in wheel_[conn[d].t][Buckets - conn[d].idle]
             /\ \A b \in 1..Buckets : b > Buckets - conn[d].idle => d \notin wheel_[conn[d].t][b]
        /\ conn[d].st = "HalfClosing" => conn[d].idle = Buckets
    BY DEF Inv, OnWheel
  <2>2. CASE conn[d].t # t \/ conn[d].st \notin Open
    <3>1. conn'[d] = conn[d]
      BY <1>3, <2>2
    <3>2. conn[d].st \in Open => wheel_'[conn[d].t] = wheel_[conn[d].t]
      BY <1>2, <2>0, <2>2
    <3>. QED
      BY <2>1, <3>1, <3>2 DEF Open
  <2>3. CASE conn[d].t = t /\ conn[d].st \in Open
    <3>1. conn'[d] = Turned(d)
      BY <1>3, <2>3
    <3>2. /\ conn'[d].t = t
          /\ conn'[d].st = IF d \in expired THEN "HalfClosing" ELSE conn[d].st
          /\ conn'[d].idle = IF conn[d].idle < Buckets THEN conn[d].idle + 1 ELSE Buckets
      BY <1>6, <2>3, <3>1, Zenon
    <3>3. CASE conn[d].st = "HalfClosing"
      BY <2>1, <3>2, <3>3, Constants
    <3>4. CASE conn[d].st = "Connected" /\ conn[d].idle + 1 = Buckets
      <4>1. d \in wheel_[t][1] /\ \A b \in 2..Buckets : d \notin wheel_[t][b]
        BY <2>0, <2>1, <2>3, <3>4, Constants
      <4>2. \A b \in 1..Buckets : d \notin w[b]
        BY <1>4, <4>1, Constants
      <4>3. d \in UNION Range(wheel_[t])
        BY <1>5, <4>1, Constants DEF Range
      <4>4. d \notin UNION Range(w)
        <5>1. \A x \in Range(w) : \E b \in 1..Buckets : x = w[b]
          BY <1>4, Zenon DEF Range
        <5>. QED
          BY <4>2, <5>1, Zenon
      <4>5. d \in expired
        BY <1>15, <4>3, <4>4, Zenon
      <4>. QED
        BY <2>0, <3>2, <3>4, <4>5, Constants
    <3>5. CASE conn[d].st = "Connected" /\ conn[d].idle + 1 < Buckets
      <4>. DEFINE j == Buckets - conn[d].idle
      <4>1. j \in 2..Buckets /\ d \in wheel_[t][j] /\ \A b \in 1..Buckets : b > j => d \notin wheel_[t][b]
        BY <2>0, <2>1, <2>3, <3>5, Constants
      <4>2. conn'[d].idle < Buckets /\ Buckets - conn'[d].idle = j - 1
        BY <2>0, <3>2, <3>5, Constants
      <4>. HIDE DEF j
      <4>3. d \in w[j - 1]
        BY <1>4, <4>1, Constants
      <4>4. \A b \in 1..Buckets : b > j - 1 => d \notin w[b]
        BY <1>4, <4>1, Constants
      <4>5. d \in UNION Range(w)
        <5>1. j - 1 \in 1..Buckets
          BY <4>1, Constants
        <5>2. w[j - 1] \in Range(w)
          BY <1>4, <5>1, Zenon DEF Range
        <5>. QED
          BY <4>3, <5>2, Zenon
      <4>6. d \notin expired
        BY <1>15, <4>5, Zenon
      <4>. QED
        BY <1>2, <3>2, <3>5, <4>2, <4>3, <4>4, <4>6
    <3>. QED
      BY <2>0, <2>1, <2>3, <3>3, <3>4, <3>5, Constants DEF Open
  <2>. QED
    BY <2>2, <2>3
<1>. QED
  BY <1>1, <1>7, <1>9, <1>10, <1>12, <1>13, <1>14, SoftStep DEF Inv, Typed

LEMMA ReturnedPool ==
  ASSUME NEW p, IsPool(p), NEW cors
  PROVE  LET r == ReturnCoroutines(p, cors)
         IN /\ IsPool(r) /\ r.m_pool_size = p.m_pool_size /\ r.first = p.first
            /\ \A i \in 0..p.m_pool_size : r.second[i] = (i \notin cors /\ p.second[i])
<1>. DEFINE s == [i \in DOMAIN p.second |-> i \notin cors /\ p.second[i]]
<1>1. PICK n \in Nat \ {0, 1} :
        p \in [m_pool_size : {n}, first : [0..n -> 0..n], second : [0..n -> BOOLEAN]]
  BY DEF IsPool
<1>2. s \in [0..n -> BOOLEAN] /\ \A i \in 0..n : s[i] = (i \notin cors /\ p.second[i])
  BY <1>1
<1>3. ReturnCoroutines(p, cors) = [p EXCEPT !.second = s]
  BY <1>1 DEF ReturnCoroutines
<1>. HIDE DEF s
<1>. QED
  BY <1>1, <1>2, <1>3, Zenon DEF IsPool

(* The sweep frees the Closed connections of its thread.                   *)
LEMMA SweepInv ==
  ASSUME Inv, NEW t \in Threads, MainLoopTimerFunc(t)
  PROVE  Inv'
<1>. DEFINE closed == {c \in Range(clients_[t]) \ {0} : conn[c].st = "Closed"}
            cors == {conn[c].cor : c \in closed}
<1>1. /\ conn' = [c \in Clients |->
                    IF c \in closed THEN [conn[c] EXCEPT !.st = "freed"] ELSE conn[c]]
      /\ clients_' = [clients_ EXCEPT ![t] =
                        [fd \in Fds |-> IF @[fd] \in closed THEN 0 ELSE @[fd]]]
      /\ pool' = [pool EXCEPT ![t] = ReturnCoroutines(@, cors)]
      /\ mpc' \in {mpc, "dead"}
      /\ UNCHANGED <<ready, peer, size_, index_, backlog, arrived, opened, fdVars, iopc, tasks,
                     wheel_, cofunc, epoll>>
  BY DEF MainLoopTimerFunc, mainVars, netVars
<1>2. /\ clients_ \in [Threads -> [Fds -> 0..MaxClients]]
      /\ DOMAIN pool = Threads
      /\ \A u \in Threads : IsPool(pool[u])
  BY DEF Inv, Typed, IOTyped
<1>3. ASSUME NEW c \in closed
      PROVE  c \in Clients /\ conn[c].st = "Closed" /\ conn[c].t = t /\ Live(c)
  <2>1. PICK fd \in Fds : c = clients_[t][fd]
    BY <1>2, <1>3 DEF Range
  <2>. QED
    BY <1>2, <1>3, <2>1, Constants DEF Inv, Mapped, Clients
<1>. HIDE DEF closed, cors
<1>4. ASSUME NEW d \in Clients
      PROVE  conn'[d] = IF d \in closed THEN [conn[d] EXCEPT !.st = "freed"] ELSE conn[d]
  BY <1>1, Zenon
<1>5. ASSUME NEW d \in Clients, d \in closed
      PROVE  /\ conn'[d] \in ConnRecords /\ conn'[d].st = "freed"
             /\ conn'[d].t = conn[d].t /\ conn'[d].fd = conn[d].fd /\ conn'[d].addr = conn[d].addr
             /\ conn'[d].cor = conn[d].cor /\ conn'[d].fe = conn[d].fe
             /\ conn'[d].idle = conn[d].idle
  <2>1. conn'[d] = [conn[d] EXCEPT !.st = "freed"]
    BY <1>4, <1>5, Zenon
  <2>2. conn[d] \in ConnRecords
    BY ConnFields
  <2>3. "freed" \in States
    BY DEF States, Open
  <2>4. [conn[d] EXCEPT !.st = "freed"] \in ConnRecords
    BY <2>2, <2>3, Zenon DEF ConnRecords
  <2>. QED
    BY <2>1, <2>2, <2>4 DEF ConnRecords
<1>6. ConnTyped'
  <2>1. \A d \in Clients : conn'[d] \in ConnRecords
    BY <1>4, <1>5, ConnFields, Zenon
  <2>2. conn' \in [Clients -> ConnRecords]
    BY <1>1, <2>1
  <2>. QED
    BY <1>1, <2>2, Zenon DEF ConnTyped, ConnRecords
<1>7. Softly
  BY <1>3, <1>4, <1>5, Zenon DEF Softly
<1>8. \A d \in Clients : Live(d)' <=> Live(d) /\ d \notin closed
  BY <1>4, <1>5, Zenon DEF Live
<1>9. ASSUME NEW u \in Threads, NEW fd \in Fds
      PROVE  clients_'[u][fd] = IF u = t /\ clients_[u][fd] \in closed THEN 0 ELSE clients_[u][fd]
  BY <1>1, <1>2
<1>10. clients_' \in [Threads -> [Fds -> 0..MaxClients]]
  BY <1>1, <1>2, Constants
<1>11. Mapped'
  <2>1. ASSUME NEW u \in Threads, NEW fd \in Fds, NEW d \in Clients, clients_'[u][fd] = d
        PROVE  clients_[u][fd] = d /\ Live(d)'
    <3>1. d # 0
      BY Constants DEF Clients
    <3>2. clients_[u][fd] = d /\ ~(u = t /\ d \in closed)
      BY <1>9, <2>1, <3>1
    <3>3. Live(d) /\ conn[d].t = u
      BY <3>1, <3>2 DEF Inv, Mapped
    <3>. QED
      BY <1>3, <1>8, <3>2, <3>3
  <2>. QED
    BY <1>7, <1>10, <2>1, MappedKept DEF Softly
<1>12. /\ pool'[t] = ReturnCoroutines(pool[t], cors) /\ DOMAIN pool' = Threads
       /\ \A u \in Threads : u # t => pool'[u] = pool[u]
  BY <1>1, <1>2
<1>13. /\ IsPool(pool'[t]) /\ pool'[t].m_pool_size = pool[t].m_pool_size
       /\ pool'[t].first = pool[t].first
       /\ \A i \in 0..pool[t].m_pool_size : pool'[t].second[i] = (i \notin cors /\ pool[t].second[i])
  <2>1. IsPool(pool[t])
    BY <1>2
  <2>2. LET r == ReturnCoroutines(pool[t], cors)
        IN /\ IsPool(r) /\ r.m_pool_size = pool[t].m_pool_size /\ r.first = pool[t].first
           /\ \A i \in 0..pool[t].m_pool_size : r.second[i] = (i \notin cors /\ pool[t].second[i])
    BY <2>1, ReturnedPool
  <2>. QED
    BY <1>12, <2>2, Zenon
<1>14. IOTyped'
  <2>1. \A u \in Threads : IsPool(pool'[u])
    BY <1>2, <1>12, <1>13
  <2>2. IOTyped /\ UNCHANGED <<iopc, tasks, wheel_, cofunc, epoll>>
    BY <1>1 DEF Inv, Typed
  <2>. QED
    BY <1>10, <1>12, <2>1, <2>2, Zenon DEF IOTyped
<1>15. Dispatched'
  <2>. SUFFICES ASSUME NEW u \in Threads, pool'[u].m_pool_size = PoolSize
                PROVE  /\ pool'[u].first = [i \in 0..PoolSize |-> i]
                       /\ \A c \in Clients : Live(c)' /\ conn'[c].t = u =>
                            /\ conn'[c].cor \in 0..PoolSize /\ pool'[u].second[conn'[c].cor]
                            /\ \A d \in Clients : Live(d)' /\ conn'[d].t = u /\ conn'[d].cor = conn'[c].cor
                                                    => d = c
    <3>1. \A v \in Threads : pool'[v].m_pool_size >= PoolSize
      BY <1>12, <1>13, Zenon DEF Inv, Dispatched
    <3>. QED
      BY <3>1 DEF Dispatched
  <2>1. /\ pool[u].m_pool_size = PoolSize /\ pool'[u].first = pool[u].first
        /\ \A i \in 0..PoolSize : (u # t \/ i \notin cors) /\ pool[u].second[i] => pool'[u].second[i]
    <3>1. CASE u = t
      BY <1>13, <3>1, Zenon
    <3>2. CASE u # t
      BY <1>12, <3>2, Zenon
    <3>. QED
      BY <3>1, <3>2
  <2>2. /\ pool[u].first = [i \in 0..PoolSize |-> i]
        /\ \A c \in Clients : Live(c) /\ conn[c].t = u =>
             /\ conn[c].cor \in 0..PoolSize /\ pool[u].second[conn[c].cor]
             /\ \A d \in Clients : Live(d) /\ conn[d].t = u /\ conn[d].cor = conn[c].cor => d = c
    BY <2>1, Zenon DEF Inv, Dispatched
  <2>3. \A d \in Clients : conn'[d].t = conn[d].t /\ conn'[d].cor = conn[d].cor
    BY <1>7 DEF Softly
  <2>4. ASSUME NEW c \in Clients, Live(c), c \notin closed, conn[c].t = u
        PROVE  u # t \/ conn[c].cor \notin cors
    <3>. SUFFICES ASSUME u = t, NEW d \in closed, conn[c].cor = conn[d].cor PROVE FALSE
      BY DEF cors
    <3>. QED
      BY <1>3, <2>2, <2>4
  <2>5. ASSUME NEW c \in Clients, Live(c)', conn'[c].t = u
        PROVE  /\ conn'[c].cor \in 0..PoolSize /\ pool'[u].second[conn'[c].cor]
               /\ \A d \in Clients : Live(d)' /\ conn'[d].t = u /\ conn'[d].cor = conn'[c].cor
                                       => d = c
    BY <1>8, <2>1, <2>2, <2>3, <2>4, <2>5, Zenon
  <2>. QED
    BY <2>1, <2>2, <2>5, Zenon
<1>16. OnWheel'
  BY <1>1, <1>4, <1>5 DEF Inv, OnWheel
<1>. QED
  BY <1>1, <1>6, <1>7, <1>11, <1>14, <1>15, <1>16, SoftStep DEF Inv, Typed
=============================================================================

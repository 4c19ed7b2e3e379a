------------------------------ MODULE TcpServer ------------------------------
(***************************************************************************)
(* A net::TcpServer (net/tcp_server.cc) and its io threads                 *)
(* (net/io_thread.cc): the accept coroutine on the thread that called      *)
(* start(), and on every io thread the tasks that add accepted clients,    *)
(* the coroutines that serve them, the time wheel that shuts idle ones     *)
(* down (net/tcp_conn_timer.cc) and the timer that frees closed ones.      *)
(* They share the FdEventContainer (net/fd_event.cc), the acceptor's       *)
(* m_peer_addr and the kernel's fd numbers, which come back into use as    *)
(* soon as a connection closes.                                            *)
(*                                                                         *)
(* A client is a number, in the order in which clients arrive.  What a     *)
(* connection does with its bytes is the subject of TcpConnection; here it *)
(* receives something or closes.  Of the reactor of an io thread the queue *)
(* is kept, and that a task pushed by another thread may be dropped.       *)
(***************************************************************************)
EXTENDS CoroutinePool, Sequences

CONSTANTS
  MaxClients,   \* bound on the clients that arrive at a server with one thread;
                \* one less for each thread more
  MaxThreads,   \* bound on the number of io threads
  Fds,          \* fd numbers left for connections
  FdSize,       \* initial size of the FdEventContainer, 128
  PoolSize,     \* initial size of a CoroutinePool, 100
  Buckets       \* number of buckets of a time wheel, 2

ASSUME ServerAssumption ==
  /\ {MaxClients, MaxThreads, FdSize, PoolSize, Buckets} \cup Fds \subseteq Nat \ {0}
  /\ IsFiniteSet(Fds) /\ Cardinality(Fds) >= MaxClients /\ PoolSize > 1

Clients == 1..MaxClients
Threads == 0..MaxThreads - 1

VARIABLES
  backlog, arrived,   \* clients waiting in the kernel; number that came
  opened,             \* fds open for connections
  dropped,            \* history: clients whose task the reactor has dropped
  mpc,                \* where the accept coroutine is
  cur,                \* t_cur_coroutine of that thread: "null" or "main"
  ready,              \* "yes" when its reactor has seen the listening fd readable
  peer,               \* m_peer_addr of the acceptor
  size_, index_,      \* of the IOThreadPool
  iopc,               \* where each io thread is
  tasks,              \* tasks queued on its reactor
  clients_,           \* its map from fds to connections, 0 for null
  wheel_,             \* its time wheel: front bucket first
  pool,               \* its CoroutinePool
  cofunc,             \* its coroutines: their callbacks and how far they are
  epoll,              \* fds registered with its epoll
  conn,               \* the connection of each client
  fds_,               \* the FdEvent of each fd: <<fd, who made it>>
  listening,          \* FdEvents with READ in listen_events_
  copied,             \* the copy of fds_ a thread is growing
  callbacks,          \* rcb_ and wcb_ of the connections: "set" or "empty"
  raced               \* history: "yes" after a growth that undid another one

mainVars == <<mpc, cur, ready, peer, size_, index_, callbacks>>
netVars == <<backlog, arrived, opened, dropped>>
fdVars == <<fds_, listening, copied, raced>>
ioVars == <<iopc, tasks, clients_, wheel_, pool, cofunc, epoll>>
vars == <<mainVars, netVars, fdVars, ioVars, conn>>

(* Connections that exist as objects: made and not yet freed.              *)
Live(c) == conn[c].st \in {"Connected", "HalfClosing", "Closed"}

(* The constructors of the server and its threads.  The thread that will   *)
(* call start() has a current coroutine only if it has asked for one.      *)
(* addClient() leaves the callbacks of a connection empty; they are set    *)
(* when somebody has called OnRead() and OnWrite().                        *)
Init ==
  /\ backlog = <<>> /\ arrived = 0 /\ opened = {} /\ dropped = {}
  /\ mpc = "new" /\ cur \in {"null", "main"} /\ ready = "no" /\ peer = 0
  /\ callbacks \in {"set", "empty"}
  /\ size_ \in 1..MaxThreads /\ index_ = -1
  /\ iopc = [t \in Threads |-> "new"] /\ tasks = [t \in Threads |-> <<>>]
  /\ clients_ = [t \in Threads |-> [fd \in Fds |-> 0]]
  /\ wheel_ = [t \in Threads |-> [b \in 1..Buckets |-> {}]]
  /\ pool = [t \in Threads |-> NewPool(PoolSize)]
  /\ cofunc = [t \in Threads |-> <<>>] /\ epoll = [t \in Threads |-> {}]
  /\ conn = [c \in Clients |-> [st |-> "none", t |-> 0, fd |-> 0, addr |-> 0, cor |-> 0,
                                fe |-> <<0, 0>>, idle |-> 0]]
  /\ fds_ = [fd \in 0..FdSize - 1 |-> <<fd, "first">>] /\ listening = {}
  /\ copied = [t \in Threads |-> <<>>] /\ raced = "no"
-----------------------------------------------------------------------------
(* The kernel's side of the listening socket: a client arrives, or gives   *)
(* up before it is accepted.                                               *)
Arrive ==
  /\ arrived <= MaxClients - size_
  /\ arrived' = arrived + 1 /\ backlog' = Append(backlog, arrived + 1)
  /\ UNCHANGED <<mainVars, opened, dropped, fdVars, ioVars, conn>>

GiveUp ==
  /\ \E i \in DOMAIN backlog :
       backlog' = SubSeq(backlog, 1, i - 1) \o SubSeq(backlog, i + 1, Len(backlog))
  /\ UNCHANGED <<mainVars, arrived, opened, dropped, fdVars, ioVars, conn>>

ListenReady ==
  /\ mpc \in {"hook", "main"} /\ backlog # <<>> /\ ready = "no"
  /\ ready' = "yes"
  /\ UNCHANGED <<mpc, cur, peer, size_, index_, callbacks, netVars, fdVars, ioVars, conn>>
-----------------------------------------------------------------------------
(* The accept coroutine.                                                   *)

(* start(): Resume() refuses unless the thread's current coroutine is its  *)
(* main one; the pool has made a main coroutine, but only                  *)
(* GetCurrentCoroutine() makes it the current one.                         *)
Start ==
  /\ mpc = "new"
  /\ mpc' = IF cur = "main" THEN "call" ELSE "cold"
  /\ UNCHANGED <<cur, ready, peer, size_, index_, callbacks, netVars, fdVars, ioVars, conn>>

(* getIOThread(): round robin.                                             *)
IOThreadIndex == IF index_ = size_ \/ index_ = -1 THEN 0 ELSE index_

(* addTask() for thread t.  The loop of its reactor walks the queue and    *)
(* clears it without the lock: a task pushed when all the others have run  *)
(* may be dropped.                                                         *)
AddTask(t, c) ==
  \/ tasks' = [tasks EXCEPT ![t] = Append(@, <<"add", c>>)] /\ UNCHANGED dropped
  \/ iopc[t] = "loop" /\ tasks[t] = <<>> /\ dropped' = dropped \cup {c} /\ UNCHANGED tasks

(* toAccept() succeeds: the acceptor keeps the peer's address, and the     *)
(* next io thread gets a task that adds the client.  A thread that has not *)
(* yet run leaves reactor_ uninitialised.                                  *)
Accept(c) ==
  LET t == IOThreadIndex
      fd == Min(Fds \ opened)
  IN /\ opened' = opened \cup {fd} /\ backlog' = Tail(backlog)
     /\ peer' = c /\ index_' = t + 1
     /\ conn' = [conn EXCEPT ![c].fd = fd, ![c].t = t]
     /\ \/ iopc[t] = "new" /\ mpc' = "dead" /\ UNCHANGED <<tasks, dropped>>
        \/ iopc[t] # "new" /\ mpc' = "call" /\ AddTask(t, c)

(* accept_hook() calls accept(), and once more when it was resumed because *)
(* the fd is readable.                                                     *)
Accepting == mpc \in {"call", "hook"} /\ (mpc = "hook" => ready = "yes")

AcceptHook ==
  /\ Accepting /\ backlog # <<>>
  /\ ready' = "no" /\ Accept(Head(backlog))
  /\ UNCHANGED <<cur, size_, callbacks, arrived, fdVars, iopc, clients_, wheel_, pool, cofunc, epoll>>

(* accept() fails: there is no client, or the kernel has no fd or memory   *)
(* for it.  The first failure makes accept_hook() yield, the second        *)
(* MainAcceptCorFunc.                                                      *)
AcceptFails ==
  /\ Accepting
  /\ ready' = "no" /\ mpc' = IF mpc = "call" THEN "hook" ELSE "main"
  /\ UNCHANGED <<cur, peer, size_, index_, callbacks, netVars, fdVars, ioVars, conn>>

(* Defect: the coroutine yields again instead of going on.                 *)
AcceptAgainYields ==
  /\ mpc = "main" /\ ready = "yes" /\ ready' = "no" /\ mpc' = "main"
  /\ UNCHANGED <<cur, peer, size_, index_, callbacks, netVars, fdVars, ioVars, conn>>

AcceptAgain ==
  /\ mpc = "main" /\ ready = "yes" /\ ready' = "no" /\ mpc' = "call"
  /\ UNCHANGED <<cur, peer, size_, index_, callbacks, netVars, fdVars, ioVars, conn>>
-----------------------------------------------------------------------------
(* An io thread.                                                           *)

(* IOThread::main(): makes the reactor, the time wheel and the main        *)
(* coroutine and enters the loop.                                          *)
IOMain(t) ==
  /\ t < size_ /\ iopc[t] = "new"
  /\ iopc' = [iopc EXCEPT ![t] = "loop"]
  /\ UNCHANGED <<mainVars, netVars, fdVars, tasks, clients_, wheel_, pool, cofunc, epoll, conn>>

HasTask(t, kind) == iopc[t] = "loop" /\ tasks[t] # <<>> /\ Head(tasks[t])[1] = kind

InCoFunc(t) == {k \in DOMAIN cofunc[t] : cofunc[t][k].s = "in"}

(* Coroutine::setCallBack(): refused while the coroutine runs a callback.  *)
SetCallBack(t, cor, c) ==
  IF cor \in InCoFunc(t) THEN cofunc[t]
  ELSE [k \in DOMAIN cofunc[t] \cup {cor} |->
          IF k = cor THEN [s |-> "ready", c |-> c] ELSE cofunc[t][k]]

(* TcpTimeWheel::fresh()                                                   *)
Fresh(w, c) == [w EXCEPT ![Buckets] = @ \cup {c}]

(* The server constructor of TcpConnection with FdEvent fe, which takes a  *)
(* coroutine and queues its first resume; clients_ keeps the connection    *)
(* and registerToTimeWheel() puts it on the wheel.                         *)
Construct(t, c, p, conns, fe) ==
  LET got == GetCoroutineInstanse(p, InCoFunc(t))
  IN /\ pool' = [pool EXCEPT ![t] = got.pool]
     /\ conn' = [conns EXCEPT ![c].st = "Connected", ![c].cor = got.cor, ![c].fe = fe]
     /\ cofunc' = [cofunc EXCEPT ![t] = SetCallBack(t, got.cor, c)]
     /\ tasks' = [tasks EXCEPT ![t] = Append(Tail(@), <<"run", got.cor>>)]
     /\ clients_' = [clients_ EXCEPT ![t][conn[c].fd] = c]
     /\ wheel_' = [wheel_ EXCEPT ![t] = Fresh(@, c)]
     /\ UNCHANGED <<mainVars, netVars, epoll, listening>>

(* addClient(): a connection left under this fd must be Closed and is      *)
(* freed, which returns its coroutine.  The new one reads the acceptor's   *)
(* address only now, and takes the fd's FdEvent from the container, or     *)
(* starts to grow a copy of the container that is too small.               *)
AddClient(t) ==
  /\ HasTask(t, "add")
  /\ LET c == Head(tasks[t])[2]
         fd == conn[c].fd
         old == clients_[t][fd]
         p == IF old = 0 THEN pool[t] ELSE ReturnCoroutine(pool[t], conn[old].cor)
         conns == [d \in Clients |->
                     IF d = c THEN [conn[c] EXCEPT !.addr = peer]
                     ELSE IF d = old THEN [conn[d] EXCEPT !.st = "freed"] ELSE conn[d]]
     IN CASE old # 0 /\ conn[old].st # "Closed" ->
               /\ tasks' = [tasks EXCEPT ![t] = Tail(@)]
               /\ UNCHANGED <<mainVars, netVars, fdVars, iopc, clients_, wheel_, pool,
                              cofunc, epoll, conn>>
          [] (old = 0 \/ conn[old].st = "Closed") /\ fd \in DOMAIN fds_ ->
               /\ Construct(t, c, p, conns, fds_[fd])
               /\ UNCHANGED <<iopc, fds_, copied, raced>>
          [] OTHER ->
               /\ iopc' = [iopc EXCEPT ![t] = "grow"] /\ copied' = [copied EXCEPT ![t] = fds_]
               /\ pool' = [pool EXCEPT ![t] = p] /\ conn' = conns
               /\ clients_' = [clients_ EXCEPT ![t][fd] = 0]
               /\ UNCHANGED <<mainVars, netVars, fds_, listening, raced, tasks, wheel_,
                              cofunc, epoll>>

(* Defect: the FdEvent keeps its events and its place in the container.    *)
ClearClientKeepsEvents(t, c) ==
  /\ epoll' = [epoll EXCEPT ![t] = @ \ {conn[c].fd}]
  /\ opened' = opened \ {conn[c].fd} /\ conn' = [conn EXCEPT ![c].st = "Closed"]
  /\ cofunc' = [cofunc EXCEPT ![t][conn[c].cor].s = "done"]
  /\ UNCHANGED listening

(* Defect: the fd is closed and the connection not marked Closed.          *)
ClearClientNotClosed(t, c) ==
  /\ listening' = listening \ {conn[c].fe}
  /\ epoll' = [epoll EXCEPT ![t] = @ \ {conn[c].fd}]
  /\ opened' = opened \ {conn[c].fd}
  /\ cofunc' = [cofunc EXCEPT ![t][conn[c].cor].s = "done"]
  /\ UNCHANGED conn

(* clearClient(), called by the coroutine, which then leaves its loop and  *)
(* its callback.                                                           *)
ClearClient(t, c) ==
  /\ listening' = listening \ {conn[c].fe}
  /\ epoll' = [epoll EXCEPT ![t] = @ \ {conn[c].fd}]
  /\ opened' = opened \ {conn[c].fd} /\ conn' = [conn EXCEPT ![c].st = "Closed"]
  /\ cofunc' = [cofunc EXCEPT ![t][conn[c].cor].s = "done"]

(* The first resume enters the callback, whose read_hook finds nothing,    *)
(* listens on FdEvent fe and yields.                                       *)
Listen(t, cor, fe) ==
  /\ cofunc' = [cofunc EXCEPT ![t][cor].s = "in"]
  /\ listening' = listening \cup {fe}
  /\ epoll' = [epoll EXCEPT ![t] = IF fe \in listening THEN @
                                   ELSE @ \cup {conn[cofunc[t][cor].c].fd}]
  /\ tasks' = [tasks EXCEPT ![t] = Tail(@)]
  /\ UNCHANGED <<mainVars, netVars, clients_, wheel_, pool, conn>>

(* A queued Resume().  The first one starts the coroutine, with the        *)
(* container's FdEvent; one that was not meant for a coroutine in          *)
(* read_hook makes its read fail unless there is data, and that clears the *)
(* client; a finished coroutine has nowhere to return to.                  *)
RunCoroutine(t) ==
  /\ HasTask(t, "run")
  /\ LET cor == Head(tasks[t])[2]
         c == cofunc[t][cor].c
         fd == conn[c].fd
     IN CASE cofunc[t][cor].s = "ready" /\ fd \in DOMAIN fds_ ->
               Listen(t, cor, fds_[fd]) /\ UNCHANGED <<fds_, copied, raced, iopc>>
          [] cofunc[t][cor].s = "ready" /\ fd \notin DOMAIN fds_ ->
               /\ iopc' = [iopc EXCEPT ![t] = "grow"] /\ copied' = [copied EXCEPT ![t] = fds_]
               /\ UNCHANGED <<mainVars, netVars, fds_, listening, raced, tasks, clients_,
                              wheel_, pool, cofunc, epoll, conn>>
          [] cofunc[t][cor].s = "in" ->
               /\ ClearClient(t, c) \/ UNCHANGED <<cofunc, listening, epoll, opened, conn>>
               /\ tasks' = [tasks EXCEPT ![t] = Tail(@)]
               /\ UNCHANGED <<mainVars, backlog, arrived, dropped, fds_, copied, raced, iopc,
                              clients_, wheel_, pool>>
          [] OTHER ->
               /\ mpc' = "dead"
               /\ UNCHANGED <<cur, ready, peer, size_, index_, callbacks, netVars, fdVars,
                              ioVars, conn>>

(* The rest of getFdEvent(): the copy gets new FdEvents and replaces the   *)
(* container, whatever happened to that since; an fd not below the grown   *)
(* size would be read past the end.                                        *)
GrowFds(t) ==
  /\ iopc[t] = "grow"
  /\ LET task == Head(tasks[t])
         c == IF task[1] = "add" THEN task[2] ELSE cofunc[t][task[2]].c
         n == Max({(3 * Cardinality(DOMAIN copied[t])) \div 2, conn[c].fd})
         tmps == [i \in 0..n - 1 |-> IF i \in DOMAIN copied[t] THEN copied[t][i] ELSE <<i, t>>]
     IN IF conn[c].fd < n
        THEN /\ IF task[1] = "add" THEN Construct(t, c, pool[t], conn, tmps[conn[c].fd])
                ELSE Listen(t, task[2], tmps[conn[c].fd])
             /\ fds_' = tmps /\ copied' = [copied EXCEPT ![t] = <<>>]
             /\ raced' = IF fds_ = copied[t] THEN raced ELSE "yes"
             /\ iopc' = [iopc EXCEPT ![t] = "loop"]
        ELSE /\ mpc' = "dead"
             /\ UNCHANGED <<cur, ready, peer, size_, index_, callbacks, netVars, fdVars,
                            ioVars, conn>>

(* The coroutine of c waits in read_hook and its fd can wake it.           *)
Waits(t, c) ==
  /\ iopc[t] = "loop" /\ conn[c].t = t /\ conn[c].st \in {"Connected", "HalfClosing"}
  /\ conn[c].cor \in InCoFunc(t) /\ cofunc[t][conn[c].cor].c = c
  /\ conn[c].fd \in epoll[t]

(* What follows input(): rcb_ is called, and an empty one throws.          *)
CallBack == mpc' = IF callbacks = "set" THEN mpc ELSE "dead"

(* input() with data: the slot goes to the back of the wheel again, if it  *)
(* is still somewhere on it.                                               *)
Input(t, c) ==
  /\ Waits(t, c) /\ conn[c].st = "Connected"
  /\ IF c \in UNION Range(wheel_[t])
     THEN wheel_' = [wheel_ EXCEPT ![t] = Fresh(@, c)]
     ELSE UNCHANGED wheel_
  /\ conn' = [conn EXCEPT ![c].idle = 0]
  /\ CallBack
  /\ UNCHANGED <<cur, ready, peer, size_, index_, callbacks, netVars, fdVars, iopc, tasks,
                 clients_, pool, cofunc, epoll>>

(* input() at the end of the stream: the peer has closed, or the           *)
(* connection was shut down.                                               *)
EndOfStream(t, c) ==
  /\ Waits(t, c) /\ ClearClient(t, c) /\ CallBack
  /\ UNCHANGED <<cur, ready, peer, size_, index_, callbacks, backlog, arrived, dropped, fds_,
                 copied, raced, iopc, tasks, clients_, wheel_, pool>>

(* Defect: the bucket that was filled last is dropped.                     *)
PoppedNewest(w) == <<{}>> \o SubSeq(w, 1, Buckets - 1)

(* The wheel after loopFunc(): the front bucket is dropped and an empty    *)
(* one appended.                                                           *)
Popped(w) == Append(Tail(w), {})

(* loopFunc(), every ten seconds: a slot that no bucket holds any more     *)
(* shuts its connection down, if that still exists and is not Closed.      *)
LoopFunc(t) ==
  /\ iopc[t] = "loop"
  /\ wheel_' = [wheel_ EXCEPT ![t] = Popped(@)]
  /\ LET expired == (UNION Range(wheel_[t])) \ (UNION Range(wheel_'[t]))
     IN conn' = [c \in Clients |->
                   IF conn[c].t # t \/ conn[c].st \notin {"Connected", "HalfClosing"}
                   THEN conn[c]
                   ELSE [conn[c] EXCEPT !.st = IF c \in expired THEN "HalfClosing" ELSE @,
                                        !.idle = Min({@ + 1, Buckets})]]
  /\ UNCHANGED <<mainVars, netVars, fdVars, iopc, tasks, clients_, pool, cofunc, epoll>>

(* MainLoopTimerFunc(), every ten seconds: frees the Closed connections,   *)
(* which returns their coroutines.                                         *)
MainLoopTimerFunc(t) ==
  /\ iopc[t] = "loop"
  /\ LET closed == {c \in Range(clients_[t]) \ {0} : conn[c].st = "Closed"}
         cors == {conn[c].cor : c \in closed}
     IN /\ closed # {}
        /\ conn' = [c \in Clients |->
                      IF c \in closed THEN [conn[c] EXCEPT !.st = "freed"] ELSE conn[c]]
        /\ clients_' = [clients_ EXCEPT ![t] =
                          [fd \in Fds |-> IF @[fd] \in closed THEN 0 ELSE @[fd]]]
        /\ pool' = [pool EXCEPT ![t] = ReturnCoroutines(@, cors)]
  /\ UNCHANGED <<mainVars, netVars, fdVars, iopc, tasks, wheel_, cofunc, epoll>>

(* Nothing is said of the program once it has left what C++ defines.       *)
Undefined == mpc = "dead" /\ UNCHANGED vars

MainStep == Start \/ ListenReady \/ AcceptHook \/ AcceptFails \/ AcceptAgain
IOStep(t) == IOMain(t) \/ AddClient(t) \/ GrowFds(t) \/ RunCoroutine(t)

Next ==
  \/ /\ mpc # "dead"
     /\ \/ Arrive \/ GiveUp \/ MainStep
        \/ \E t \in Threads :
             \/ IOStep(t) \/ LoopFunc(t) \/ MainLoopTimerFunc(t)
             \/ \E c \in Clients : Input(t, c) \/ EndOfStream(t, c)
  \/ Undefined

Spec == Init /\ [][Next]_vars

(* Threads run, reactors poll and the timer of the sweep fires; an         *)
(* accept() that is called again and again with a client waiting succeeds  *)
(* in the end.  Clients, peers and the time wheel may do nothing.          *)
FairSpec ==
  /\ Spec
  /\ WF_vars(mpc # "dead" /\ MainStep) /\ SF_vars(AcceptHook)
  /\ \A t \in Threads :
       /\ WF_vars(mpc # "dead" /\ IOStep(t))
       /\ WF_vars(mpc # "dead" /\ MainLoopTimerFunc(t))
-----------------------------------------------------------------------------
(* Properties.                                                             *)
TypeOK ==
  /\ mpc \in {"new", "cold", "call", "hook", "main", "dead"} /\ ready \in {"no", "yes"}
  /\ peer \in 0..arrived /\ size_ \in 1..MaxThreads /\ index_ \in -1..size_
  /\ opened \subseteq Fds
  /\ \A t \in Threads :
       /\ iopc[t] \in {"new", "loop", "grow"} /\ epoll[t] \subseteq Fds
       /\ clients_[t] \in [Fds -> 0..arrived]
       /\ DOMAIN wheel_[t] = 1..Buckets /\ UNION Range(wheel_[t]) \subseteq 1..arrived
       /\ Range(pool[t].first) \subseteq Slots(pool[t])
  /\ \A c \in Clients :
       /\ conn[c].st \in {"none", "Connected", "HalfClosing", "Closed", "freed"}
       /\ conn[c].t < size_ /\ conn[c].idle \in 0..Buckets

(* What addClient() finds is still valid although it runs later than the   *)
(* accept, on another thread.  It never meets the error "this fd of        *)
(* TcpConection exist and state not Closed": an fd that comes back from    *)
(* accept() belongs to no connection that its io thread still takes for    *)
(* open, whatever happened to the connection that had the fd before.  And  *)
(* the address it reads from the acceptor is its own client's, or, when    *)
(* further clients were accepted meanwhile, that of a later one; never     *)
(* that of an earlier one.                                                 *)
AcceptStillValid ==
  /\ \A t \in Threads : HasTask(t, "add") =>
       LET old == clients_[t][conn[Head(tasks[t])[2]].fd]
       IN old = 0 \/ conn[old].st = "Closed"
  /\ \A c \in Clients : Live(c) => conn[c].addr >= c

(* A connection whose coroutine waits in read_hook is registered with the  *)
(* epoll of its own thread, although FdEvents are shared by all threads    *)
(* and outlive the connections that used them - as long as no two threads  *)
(* have grown the container from the same copy.                            *)
WaitingIsRegistered ==
  raced = "no" =>
    \A c \in Clients :
      /\ conn[c].st \in {"Connected", "HalfClosing"}
      /\ conn[c].cor \in InCoFunc(conn[c].t) /\ cofunc[conn[c].t][conn[c].cor].c = c
      => conn[c].fd \in epoll[conn[c].t]

(* A coroutine serves one connection at a time: none is dispatched again   *)
(* before the connection that holds it is freed, as long as its pool has   *)
(* not grown; and the tables of the threads have their types.              *)
OneUser ==
  /\ TypeOK
  /\ \A c, d \in Clients :
       /\ c # d /\ Live(c) /\ Live(d)
       /\ conn[c].t = conn[d].t /\ pool[conn[c].t].m_pool_size = PoolSize
       => conn[c].cor # conn[d].cor

(* The time wheel shuts down exactly the connections that have received    *)
(* nothing for as many turns as it has buckets.                            *)
ShutWhenIdle ==
  \A c \in Clients :
    /\ conn[c].st = "Connected" => conn[c].idle < Buckets
    /\ conn[c].st = "HalfClosing" => conn[c].idle = Buckets

(* Every client that does not give up gets a connection, once the accept   *)
(* coroutine runs, however often accept() fails for it, unless the reactor *)
(* of its io thread drops the task that adds it; and a connection that is  *)
(* closed is freed by its io thread, with its coroutine returned.          *)
ServedThenFreed ==
  \A c \in Clients :
    /\ c \in Range(backlog) ~> \/ conn[c].st # "none" \/ mpc \in {"cold", "dead"}
                               \/ c \in dropped
                               \/ c \notin Range(backlog) /\ conn[c].fd = 0
    /\ conn[c].st = "Closed" ~> conn[c].st = "freed" \/ mpc = "dead"

(* Resume() "switches from the main coroutine to the target coroutine"     *)
(* (coroutine.cc:150): start() sets the accept coroutine going.            *)
StartResumes == mpc # "cold"
=============================================================================

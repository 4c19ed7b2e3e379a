------------------------- MODULE TcpServerAddClient -------------------------
(***************************************************************************)
(* addClient() keeps the invariant of TcpServer, whether it constructs a   *)
(* connection or reuses the one it finds under the fd, and whether or not  *)
(* the containers of coroutines and of FdEvents grow on the way.           *)
(***************************************************************************)
EXTENDS TcpServerInvariant

-----------------------------------------------------------------------------
(* The pool of coroutines.                                                 *)

LEMMA Half == ASSUME NEW m \in Nat, m > 1 PROVE (3 * m) \div 2 \in Nat /\ (3 * m) \div 2 > m
OBVIOUS

LEMMA GrownPool ==
  ASSUME Counting, NEW p, IsPool(p)
  PROVE  /\ IsPool(Grown(p)) /\ Grown(p).m_pool_size > p.m_pool_size
         /\ Grown(p).first[p.m_pool_size] \in Nat
<1>. DEFINE m == p.m_pool_size
            newsize == (3 * m) \div 2
            k == newsize - m
            size == Cardinality(Slots(p))
            new(i) == IF i < k THEN size + i ELSE IF i < size THEN p.first[i] ELSE i
            first == [i \in 0..size + k - 1 |-> new(i)]
            second == [i \in 0..size + k - 1 |-> i \in k..size - 1 /\ p.second[i]]
<1>1. m \in Nat /\ m > 1 /\ p.first \in [0..m -> 0..m] /\ p.second \in [0..m -> BOOLEAN]
  BY PoolFields
<1>2. size = m + 1
  <2>1. m + 1 \in Nat /\ Slots(p) = 0..(m + 1) - 1
    BY <1>1 DEF Slots
  <2>. QED
    BY <2>1, Zenon DEF Counting
<1>3. newsize \in Nat /\ newsize > m
  BY <1>1, Half, Zenon
<1>4. size + k - 1 = newsize
  BY <1>1, <1>2, <1>3
<1>5. Grown(p) = [m_pool_size |-> newsize, first |-> first, second |-> second]
  BY Zenon DEF Grown
<1>6. second \in [0..newsize -> BOOLEAN]
  BY <1>4, Zenon
<1>7. ASSUME NEW i \in 0..newsize PROVE new(i) \in 0..newsize
  <2>. HIDE DEF newsize, size
  <2>. QED
    BY <1>1, <1>2, <1>3
<1>8. first \in [0..newsize -> 0..newsize]
  BY <1>4, <1>7, Zenon
<1>. HIDE DEF first, second, newsize
<1>9. IsPool(Grown(p))
  <2>1. newsize \in Nat \ {0, 1}
    BY <1>1, <1>3
  <2>2. Grown(p) \in [m_pool_size : {newsize}, first : [0..newsize -> 0..newsize],
                      second : [0..newsize -> BOOLEAN]]
    BY <1>5, <1>6, <1>8
  <2>. QED
    BY <2>1, <2>2, Zenon DEF IsPool
<1>. QED
  BY <1>1, <1>3, <1>5, <1>8, <1>9

(* Pool np is what a dispatch of coroutine k leaves of pool p.             *)
Dispatch(p, np, k) ==
  /\ IsPool(np) /\ k \in Nat
  /\ \/ np.m_pool_size > p.m_pool_size
     \/ \E j \in 0..p.m_pool_size :
          /\ ~ p.second[j] /\ k = p.first[j] /\ np.second[j]
          /\ np.m_pool_size = p.m_pool_size /\ np.first = p.first
          /\ \A i \in 0..p.m_pool_size : i # j => np.second[i] = p.second[i]

(* A dispatch either marks a free slot or leaves a larger pool.            *)
LEMMA GotCoroutine ==
  ASSUME Counting, NEW p, IsPool(p), NEW I
  PROVE  LET got == GetCoroutineInstanse(p, I)
         IN /\ IsPool(got.pool) /\ got.cor \in Nat
            /\ \/ got.pool.m_pool_size > p.m_pool_size
               \/ \E j \in 0..p.m_pool_size :
                    /\ ~ p.second[j] /\ got.cor = p.first[j] /\ got.pool.second[j]
                    /\ got.pool.m_pool_size = p.m_pool_size /\ got.pool.first = p.first
                    /\ \A i \in 0..p.m_pool_size : i # j => got.pool.second[i] = p.second[i]
<1>. DEFINE free == Dispatchable(p, I)
            got == GetCoroutineInstanse(p, I)
<1>1. CASE free # {}
  <2>. DEFINE j == Min(free)
  <2>1. p.m_pool_size \in Nat
    BY PoolFields
  <2>2. j \in free /\ free \in SUBSET Nat
    <3>1. free \in SUBSET Nat
      BY <2>1 DEF Dispatchable
    <3>. QED
      BY <1>1, <3>1, Zenon DEF Counting
  <2>3. j \in 0..p.m_pool_size /\ ~ p.second[j]
    BY <2>1, <2>2 DEF Dispatchable
  <2>4. got.pool = [p EXCEPT !.second[j] = TRUE] /\ got.cor = p.first[j]
    BY <1>1 DEF GetCoroutineInstanse
  <2>. HIDE DEF j, got
  <2>5. PICK n \in Nat \ {0, 1} :
          p \in [m_pool_size : {n}, first : [0..n -> 0..n], second : [0..n -> BOOLEAN]]
    BY Zenon DEF IsPool
  <2>6. /\ got.pool \in [m_pool_size : {n}, first : [0..n -> 0..n], second : [0..n -> BOOLEAN]]
        /\ got.pool.first = p.first /\ got.pool.second = [p.second EXCEPT ![j] = TRUE]
        /\ got.pool.m_pool_size = n /\ p.m_pool_size = n /\ got.cor \in Nat
    <3>. DEFINE s == [p.second EXCEPT ![j] = TRUE]
    <3>1. s \in [0..n -> BOOLEAN]
      BY <2>5, Zenon
    <3>2. got.pool = [p EXCEPT !.second = s]
      BY <2>4
    <3>3. p.first[j] \in Nat /\ p.m_pool_size = n
      BY <2>3, <2>5
    <3>. HIDE DEF s
    <3>4. got.pool.first = p.first /\ got.pool.second = s /\ got.pool.m_pool_size = n
      BY <2>5, <3>2
    <3>5. got.pool \in [m_pool_size : {n}, first : [0..n -> 0..n], second : [0..n -> BOOLEAN]]
      BY <2>5, <3>1, <3>2
    <3>. QED
      BY <2>4, <3>3, <3>4, <3>5, Zenon DEF s
  <2>7. IsPool(got.pool)
    BY <2>5, <2>6, Zenon DEF IsPool
  <2>8. got.pool.second[j] /\ \A i \in 0..n : i # j => got.pool.second[i] = p.second[i]
    BY <2>3, <2>5, <2>6
  <2>. QED
    BY <2>3, <2>4, <2>6, <2>7, <2>8, Zenon DEF got
<1>2. CASE free = {}
  <2>1. got.pool = Grown(p) /\ got.cor = Grown(p).first[p.m_pool_size]
    BY <1>2 DEF GetCoroutineInstanse
  <2>. QED
    BY <2>1, GrownPool, Zenon
<1>. QED
  BY <1>1, <1>2

-----------------------------------------------------------------------------
(* A client is added.                                                      *)

LEMMA RequeuedTask ==
  ASSUME Inv, NEW t \in Threads, tasks[t] # <<>>, NEW k \in Nat,
         tasks' = [tasks EXCEPT ![t] = Append(Tail(@), <<"run", k>>)]
  PROVE  /\ tasks' \in [Threads -> Seq(Tasks)]
         /\ \A u \in Threads : u # t => tasks'[u] = tasks[u]
         /\ \A i \in DOMAIN tasks'[t] :
              \/ i + 1 \in DOMAIN tasks[t] /\ tasks'[t][i] = tasks[t][i + 1]
              \/ tasks'[t][i] = <<"run", k>>
<1>. DEFINE q == Tail(tasks[t])
<1>1. tasks \in [Threads -> Seq(Tasks)] /\ tasks[t] \in Seq(Tasks) /\ <<"run", k>> \in Tasks
  BY DEF Inv, Typed, IOTyped, Tasks
<1>2. q \in Seq(Tasks) /\ \A i \in DOMAIN q : i + 1 \in DOMAIN tasks[t] /\ q[i] = tasks[t][i + 1]
  BY <1>1, TailQueue
<1>. HIDE DEF q
<1>3. /\ Append(q, <<"run", k>>) \in Seq(Tasks)
      /\ \A i \in DOMAIN Append(q, <<"run", k>>) :
           \/ i \in DOMAIN q /\ Append(q, <<"run", k>>)[i] = q[i]
           \/ Append(q, <<"run", k>>)[i] = <<"run", k>>
  <2>. DEFINE x == <<"run", k>>
  <2>1. x \in Tasks
    BY <1>1
  <2>. HIDE DEF x
  <2>2. /\ Append(q, x) \in Seq(Tasks)
        /\ \A i \in DOMAIN Append(q, x) :
             \/ i \in DOMAIN q /\ Append(q, x)[i] = q[i]
             \/ Append(q, x)[i] = x
    BY <1>2, <2>1
  <2>. QED
    BY <2>2 DEF x
<1>4. tasks'[t] = Append(q, <<"run", k>>)
  BY <1>1, Zenon DEF q
<1>5. tasks' \in [Threads -> Seq(Tasks)] /\ \A u \in Threads : u # t => tasks'[u] = tasks[u]
  BY <1>1, <1>3, Zenon DEF q
<1>. QED
  BY <1>2, <1>3, <1>4, <1>5, Zenon

(* Connections conns and pool p of thread t before the one of c is made:   *)
(* what was left under its fd is freed and has returned its coroutine.     *)
Frees(t, c, conns, p) ==
  /\ conns \in [Clients -> ConnRecords]
  /\ IsPool(p) /\ p.m_pool_size = pool[t].m_pool_size /\ p.first = pool[t].first
  /\ conns[c].st = "none" /\ conns[c].t = t /\ conns[c].fd = conn[c].fd
  /\ conns[c].idle = 0 /\ conns[c].addr >= c
  /\ \A d \in Clients : d # c =>
       \/ conns[d] = conn[d]
       \/ /\ conn[d].st = "Closed" /\ conn[d].t = t /\ conn[d].fd = conn[c].fd
          /\ conns[d].st = "freed" /\ conns[d].fd = conn[d].fd /\ conns[d].fe = conn[d].fe
          /\ conns[d].t = conn[d].t
  /\ pool[t].m_pool_size = PoolSize =>
       \A d \in Clients : Live(d) /\ conn[d].t = t /\ conns[d] = conn[d] => p.second[conn[d].cor]

(* What has become of the connections when c has one, or is about to.      *)
Adds(t, c, conns) ==
  /\ conn' \in [Clients -> ConnRecords] /\ \A d \in Clients : d # c => conn'[d] = conns[d]
  /\ conn'[c].fd = conn[c].fd /\ conn'[c].t = t /\ conn'[c].idle = 0
  /\ conn'[c].addr >= c /\ conn'[c].st \in {"none", "Connected"}

Others(t, c) ==
  \A d \in Clients : d # c =>
    /\ conn[d].st # "Closed" => conn'[d] = conn[d]
    /\ Live(d)' => Live(d) /\ conn'[d] = conn[d]
    /\ ~ Live(d)' /\ Live(d) => conn[d].t = t /\ conn[d].fd = conn[c].fd
    /\ conn'[d].st = "none" <=> conn[d].st = "none"
    /\ conn'[d].st \in Open <=> conn[d].st \in Open
    /\ conn'[d].fd = conn[d].fd /\ conn'[d].fe = conn[d].fe /\ conn'[d].t = conn[d].t

LEMMA AddStep ==
  ASSUME Inv, NEW t \in Threads, NEW c, FirstTask(t, "add", c),
         NEW conns, NEW p, Frees(t, c, conns, p), Adds(t, c, conns),
         UNCHANGED <<mpc, ready, peer, size_, index_, netVars>>
  PROVE  /\ MainTyped' /\ ConnTyped' /\ Arrivals' /\ Owned' /\ Addressed'
         /\ Others(t, c)
<1>1. /\ c \in Clients /\ conn[c].st = "none" /\ conn[c].t = t /\ conn[c].fd # 0 /\ c <= peer
  BY FirstAdd
<1>2. ASSUME NEW d \in Clients, d # c
      PROVE  \/ conn'[d] = conn[d]
             \/ /\ conn[d].st = "Closed" /\ conn[d].t = t /\ conn[d].fd = conn[c].fd
                /\ conn'[d].st = "freed" /\ conn'[d].fd = conn[d].fd /\ conn'[d].fe = conn[d].fe
                /\ conn'[d].t = conn[d].t
  BY <1>2, Zenon DEF Frees, Adds
<1>3. ASSUME NEW d \in Clients, d # c
      PROVE  /\ conn[d].st # "Closed" => conn'[d] = conn[d]
             /\ Live(d)' => Live(d) /\ conn'[d] = conn[d]
             /\ ~ Live(d)' /\ Live(d) => conn[d].t = t /\ conn[d].fd = conn[c].fd
             /\ conn'[d].st = "none" <=> conn[d].st = "none"
             /\ conn'[d].st \in Open <=> conn[d].st \in Open
             /\ conn'[d].fd = conn[d].fd /\ conn'[d].fe = conn[d].fe /\ conn'[d].t = conn[d].t
  <2>1. CASE conn'[d] = conn[d]
    BY <2>1 DEF Live
  <2>2. CASE /\ conn[d].st = "Closed" /\ conn[d].t = t /\ conn[d].fd = conn[c].fd
             /\ conn'[d].st = "freed" /\ conn'[d].fd = conn[d].fd /\ conn'[d].fe = conn[d].fe
             /\ conn'[d].t = conn[d].t
    BY <2>2 DEF Live, Open
  <2>. QED
    BY <1>2, <1>3, <2>1, <2>2, Zenon
<1>4. MainTyped'
  BY DEF Inv, Typed, MainTyped, netVars
<1>5. ConnTyped'
  BY DEF Adds, ConnTyped, ConnRecords
<1>6. Arrivals'
  <2>1. /\ \A i \in DOMAIN backlog' : backlog'[i] > peer'
        /\ \A i, j \in DOMAIN backlog' : i < j => backlog'[i] < backlog'[j]
    BY DEF Inv, Arrivals, netVars
  <2>2. ASSUME NEW d \in Clients
        PROVE  /\ d > peer => conn'[d].st = "none" /\ conn'[d].fd = 0
               /\ conn'[d].st = "none" => conn'[d].idle = 0
               /\ conn'[d].st # "none" => conn'[d].fd # 0
    <3>1. CASE d = c
      <4>1. ~ (c > peer)
        BY <1>1 DEF Clients, Inv, Typed, MainTyped
      <4>. QED
        BY <1>1, <3>1, <4>1 DEF Adds
    <3>2. CASE d # c
      <4>1. /\ d > peer => conn[d].st = "none" /\ conn[d].fd = 0
            /\ conn[d].st = "none" => conn[d].idle = 0
            /\ conn[d].st # "none" => conn[d].fd # 0
        BY DEF Inv, Arrivals
      <4>. QED
        BY <1>3, <3>2, <4>1
    <3>. QED
      BY <3>1, <3>2
  <2>. QED
    BY <2>1, <2>2, Zenon DEF Arrivals
<1>7. Owned'
  <2>1. \A d \in Clients : (Owner(d)' <=> Owner(d)) /\ conn'[d].fd = conn[d].fd
    <3>1. Owner(c)' /\ Owner(c) /\ conn'[c].fd = conn[c].fd
      BY <1>1 DEF Owner, Adds, Open
    <3>2. ASSUME NEW d \in Clients, d # c
          PROVE  (Owner(d)' <=> Owner(d)) /\ conn'[d].fd = conn[d].fd
      BY <1>3, <3>2 DEF Owner
    <3>. QED
      BY <3>1, <3>2, Zenon
  <2>2. opened' = opened
    BY DEF netVars
  <2>. QED
    BY <2>1, <2>2, Zenon DEF Inv, Owned
<1>8. Addressed'
  <2>1. conn'[c].addr >= c
    BY DEF Adds
  <2>2. \A d \in Clients : d # c /\ Live(d)' => conn'[d].addr >= d
    BY <1>3, Zenon DEF Inv, Addressed
  <2>. QED
    BY <2>1, <2>2, Zenon DEF Addressed
<1>. QED
  BY <1>3, <1>4, <1>5, <1>6, <1>7, <1>8, Zenon DEF Others

(* The clients that wait to be added, and the ones that coroutines serve,  *)
(* are not touched.                                                        *)
QueuedSame(c) ==
  \A u \in Threads : \A i \in DOMAIN tasks[u] : \A d \in Clients :
    d # c /\ tasks[u][i] = <<"add", d>> => conn'[d] = conn[d]

ServedSame(c) ==
  \A u \in Threads : \A j \in DOMAIN cofunc[u] :
    cofunc[u][j].s \in {"ready", "in"} =>
      /\ cofunc[u][j].c \in Clients /\ cofunc[u][j].c # c
      /\ conn'[cofunc[u][j].c] = conn[cofunc[u][j].c]

LEMMA OthersSame ==
  ASSUME Inv, NEW t \in Threads, NEW c \in Clients, conn[c].st = "none", Others(t, c)
  PROVE  QueuedSame(c) /\ ServedSame(c)
<1>1. ASSUME NEW u \in Threads, NEW i \in DOMAIN tasks[u], NEW d \in Clients,
             d # c, tasks[u][i] = <<"add", d>>
      PROVE  conn'[d] = conn[d]
  <2>1. conn[d].st = "none"
    BY <1>1 DEF Inv, AddQueued
  <2>. QED
    BY <1>1, <2>1 DEF Others
<1>2. ASSUME NEW u \in Threads, NEW j \in DOMAIN cofunc[u], cofunc[u][j].s \in {"ready", "in"}
      PROVE  /\ cofunc[u][j].c \in Clients /\ cofunc[u][j].c # c
             /\ conn'[cofunc[u][j].c] = conn[cofunc[u][j].c]
  <2>1. PICK d \in Clients : d = cofunc[u][j].c
    BY Entries
  <2>2. conn[d].st \in Open
    BY <1>2, <2>1 DEF Inv, Served
  <2>3. d # c /\ conn'[d] = conn[d]
    BY <2>2 DEF Others, Open
  <2>. QED
    BY <2>1, <2>3
<1>. QED
  BY <1>1, <1>2, Zenon DEF QueuedSame, ServedSame

(* addClient() makes the connection.                                       *)
LEMMA ConstructInv ==
  ASSUME Counting, Inv, NEW t \in Threads, NEW c, FirstTask(t, "add", c),
         NEW conns, NEW p, Frees(t, c, conns, p),
         NEW fe \in FdEvents, Construct(t, c, p, conns, fe), FdsStep(t),
         raced' = "no" => conn[c].fd \in DOMAIN fds_' /\ fe = fds_'[conn[c].fd]
  PROVE  Inv'
<1>1. /\ c \in Clients /\ conn[c].st = "none" /\ conn[c].t = t /\ conn[c].fd \in Fds
      /\ \A u \in Threads : \A i \in DOMAIN tasks[u] :
           tasks[u][i] = <<"add", c>> => u = t /\ i = 1
  BY FirstAdd
<1>2. PICK np, k :
        /\ pool' = [pool EXCEPT ![t] = np]
        /\ conn' = [conns EXCEPT ![c].st = "Connected", ![c].cor = k, ![c].fe = fe]
        /\ cofunc' = [cofunc EXCEPT ![t] = SetCallBack(t, k, c)]
        /\ tasks' = [tasks EXCEPT ![t] = Append(Tail(@), <<"run", k>>)]
        /\ Dispatch(p, np, k)
  <2>. DEFINE I == InCoFunc(t)
              got == GetCoroutineInstanse(p, I)
  <2>1. IsPool(p)
    BY DEF Frees
  <2>. HIDE DEF I
  <2>2. Dispatch(p, got.pool, got.cor)
    BY <2>1, GotCoroutine DEF Dispatch
  <2>3. /\ pool' = [pool EXCEPT ![t] = got.pool]
        /\ conn' = [conns EXCEPT ![c].st = "Connected", ![c].cor = got.cor, ![c].fe = fe]
        /\ cofunc' = [cofunc EXCEPT ![t] = SetCallBack(t, got.cor, c)]
        /\ tasks' = [tasks EXCEPT ![t] = Append(Tail(@), <<"run", got.cor>>)]
    BY Zenon DEF Construct, I
  <2>. HIDE DEF got
  <2>. QED
    BY <2>2, <2>3, Zenon
<1>3. /\ clients_' = [clients_ EXCEPT ![t][conn[c].fd] = c]
      /\ wheel_' = [wheel_ EXCEPT ![t] = Fresh(@, c)]
      /\ UNCHANGED <<mpc, ready, peer, size_, index_, netVars, epoll, listening>>
  BY DEF Construct, mainVars
<1>4. /\ conn'[c] \in ConnRecords /\ conn'[c].st = "Connected" /\ conn'[c].cor = k /\ conn'[c].fe = fe
      /\ conn'[c].t = t /\ conn'[c].fd = conn[c].fd /\ conn'[c].idle = 0 /\ conn'[c].addr >= c
      /\ conn' \in [Clients -> ConnRecords] /\ \A d \in Clients : d # c => conn'[d] = conns[d]
  <2>1. conns \in [Clients -> ConnRecords] /\ k \in Nat /\ "Connected" \in States
    BY <1>2 DEF Frees, Dispatch, States, Open
  <2>2. conns[c] \in ConnRecords
    BY <1>1, <2>1
  <2>. DEFINE r == [conns[c] EXCEPT !.st = "Connected", !.cor = k, !.fe = fe]
  <2>3. r \in ConnRecords
    BY <2>1, <2>2, Zenon DEF ConnRecords
  <2>4. /\ r.st = "Connected" /\ r.cor = k /\ r.fe = fe /\ r.t = conns[c].t
        /\ r.fd = conns[c].fd /\ r.idle = conns[c].idle /\ r.addr = conns[c].addr
    BY <2>2, Zenon DEF ConnRecords
  <2>5. conn' = [conns EXCEPT ![c] = r]
    BY <1>1, <1>2, <2>1, Zenon
  <2>. HIDE DEF r
  <2>6. /\ conn'[c] = r /\ conn' \in [Clients -> ConnRecords]
        /\ \A d \in Clients : d # c => conn'[d] = conns[d]
    BY <1>1, <2>1, <2>3, <2>5, Zenon
  <2>7. conns[c].t = t /\ conns[c].fd = conn[c].fd /\ conns[c].idle = 0 /\ conns[c].addr >= c
    BY DEF Frees
  <2>. QED
    BY <2>3, <2>4, <2>6, <2>7, Zenon
<1>5. MainTyped' /\ ConnTyped' /\ Arrivals' /\ Owned' /\ Addressed' /\ Others(t, c)
  <2>1. Adds(t, c, conns)
    BY <1>4, Zenon DEF Adds
  <2>. QED
    BY <1>3, <2>1, AddStep, Zenon
<1>same. QueuedSame(c) /\ ServedSame(c)
  BY <1>1, <1>5, OthersSame, Zenon
<1>6. /\ tasks' \in [Threads -> Seq(Tasks)]
      /\ \A u \in Threads : u # t => tasks'[u] = tasks[u]
      /\ \A i \in DOMAIN tasks'[t] :
           \/ i + 1 \in DOMAIN tasks[t] /\ tasks'[t][i] = tasks[t][i + 1]
           \/ tasks'[t][i] = <<"run", k>>
  BY <1>2, RequeuedTask, Zenon DEF FirstTask, Dispatch
<1>7. /\ DOMAIN cofunc' = Threads /\ \A u \in Threads : u # t => cofunc'[u] = cofunc[u]
      /\ DOMAIN cofunc'[t] = DOMAIN cofunc[t] \cup {k}
      /\ \A j \in DOMAIN cofunc[t] : j # k => cofunc'[t][j] = cofunc[t][j]
      /\ \/ k \in InCoFunc(t) /\ cofunc'[t][k] = cofunc[t][k]
         \/ k \notin InCoFunc(t) /\ cofunc'[t][k] = [s |-> "ready", c |-> c]
  <2>1. DOMAIN cofunc = Threads /\ cofunc'[t] = SetCallBack(t, k, c)
    BY <1>2, Zenon DEF Inv, Typed, IOTyped
  <2>2. DOMAIN cofunc' = Threads /\ \A u \in Threads : u # t => cofunc'[u] = cofunc[u]
    BY <1>2, <2>1, Zenon
  <2>3. CASE k \in InCoFunc(t)
    <3>1. cofunc'[t] = cofunc[t] /\ k \in DOMAIN cofunc[t]
      BY <2>1, <2>3 DEF SetCallBack, InCoFunc
    <3>. QED
      BY <2>2, <2>3, <3>1
  <2>4. CASE k \notin InCoFunc(t)
    <3>1. cofunc'[t] = [j \in DOMAIN cofunc[t] \cup {k} |->
                          IF j = k THEN [s |-> "ready", c |-> c] ELSE cofunc[t][j]]
      BY <2>1, <2>4, Zenon DEF SetCallBack
    <3>2. /\ DOMAIN cofunc'[t] = DOMAIN cofunc[t] \cup {k} /\ cofunc'[t][k] = [s |-> "ready", c |-> c]
          /\ \A j \in DOMAIN cofunc[t] : j # k => cofunc'[t][j] = cofunc[t][j]
      BY <3>1, Zenon
    <3>. QED
      BY <2>2, <2>4, <3>2, Zenon
  <2>. QED
    BY <2>3, <2>4, Zenon
<1>8. /\ clients_' \in [Threads -> [Fds -> 0..MaxClients]]
      /\ clients_'[t][conn[c].fd] = c
      /\ \A u \in Threads, f \in Fds : u # t \/ f # conn[c].fd => clients_'[u][f] = clients_[u][f]
  <2>1. clients_ \in [Threads -> [Fds -> 0..MaxClients]] /\ c \in 0..MaxClients
    BY <1>1, Constants DEF Inv, Typed, IOTyped, Clients
  <2>. QED
    BY <1>1, <1>3, <2>1
<1>9. /\ pool'[t] = np /\ DOMAIN pool' = Threads /\ \A u \in Threads : u # t => pool'[u] = pool[u]
  BY <1>2, Zenon DEF Inv, Typed, IOTyped
<1>10. /\ wheel_' \in [Threads -> Seq(SUBSET Clients)]
       /\ \A u \in Threads : u # t => wheel_'[u] = wheel_[u]
       /\ Len(wheel_'[t]) = Buckets /\ wheel_'[t][Buckets] = wheel_[t][Buckets] \cup {c}
       /\ \A b \in 1..Buckets : b # Buckets => wheel_'[t][b] = wheel_[t][b]
  <2>1. wheel_ \in [Threads -> Seq(SUBSET Clients)] /\ wheel_[t] \in Seq(SUBSET Clients)
        /\ Len(wheel_[t]) = Buckets
    BY DEF Inv, Typed, IOTyped
  <2>. DEFINE w == Fresh(wheel_[t], c)
  <2>2. /\ w \in Seq(SUBSET Clients) /\ Len(w) = Buckets
        /\ w[Buckets] = wheel_[t][Buckets] \cup {c}
        /\ \A b \in 1..Buckets : b # Buckets => w[b] = wheel_[t][b]
    BY <1>1, <2>1, FreshWheel
  <2>3. wheel_' = [wheel_ EXCEPT ![t] = w]
    BY <1>3, Zenon
  <2>. HIDE DEF w
  <2>4. wheel_'[t] = w /\ \A u \in Threads : u # t => wheel_'[u] = wheel_[u]
    BY <2>1, <2>3, Zenon
  <2>5. wheel_' \in [Threads -> Seq(SUBSET Clients)]
    BY <2>1, <2>2, <2>3, Zenon
  <2>. QED
    BY <2>2, <2>4, <2>5, Zenon
<1>11. ASSUME NEW u \in Threads, NEW j \in DOMAIN cofunc'[u], cofunc'[u][j].s = "in"
       PROVE  j \in DOMAIN cofunc[u] /\ cofunc'[u][j] = cofunc[u][j]
  <2>1. CASE u # t \/ j # k
    BY <1>7, <1>11, <2>1
  <2>2. CASE u = t /\ j = k
    <3>1. [s |-> "ready", c |-> c].s # "in"
      OBVIOUS
    <3>2. k \in InCoFunc(t) /\ cofunc'[t][k] = cofunc[t][k]
      BY <1>7, <1>11, <2>2, <3>1, Zenon
    <3>. QED
      BY <2>2, <3>2 DEF InCoFunc
  <2>. QED
    BY <2>1, <2>2
<1>12. IOTyped'
  <2>1. ASSUME NEW u \in Threads
        PROVE  /\ DOMAIN cofunc'[u] \subseteq Nat
               /\ \A j \in DOMAIN cofunc'[u] :
                    cofunc'[u][j] \in [s : {"ready", "in", "done"}, c : Clients]
    <3>1. /\ DOMAIN cofunc[u] \subseteq Nat
          /\ \A j \in DOMAIN cofunc[u] :
               cofunc[u][j] \in [s : {"ready", "in", "done"}, c : Clients]
      BY DEF Inv, Typed, IOTyped
    <3>2. CASE u # t
      BY <1>7, <3>1, <3>2, Zenon
    <3>3. CASE u = t
      <4>1. k \in Nat /\ InCoFunc(t) \subseteq DOMAIN cofunc[t]
        BY <1>2 DEF Dispatch, InCoFunc
      <4>2. [s |-> "ready", c |-> c] \in [s : {"ready", "in", "done"}, c : Clients]
        BY <1>1, Zenon
      <4>3. cofunc'[t][k] \in [s : {"ready", "in", "done"}, c : Clients]
        BY <1>7, <3>1, <3>3, <4>1, <4>2, Zenon
      <4>4. ASSUME NEW j \in DOMAIN cofunc'[t]
            PROVE  j \in Nat /\ cofunc'[t][j] \in [s : {"ready", "in", "done"}, c : Clients]
        <5>1. j = k \/ (j \in DOMAIN cofunc[t] /\ j # k)
          BY <1>7, <4>4, Zenon
        <5>. QED
          BY <1>7, <3>1, <3>3, <4>1, <4>3, <5>1, Zenon
      <4>. QED
        BY <3>3, <4>4, Zenon
    <3>. QED
      BY <3>2, <3>3, Zenon
  <2>2. \A u \in Threads : IsPool(pool'[u]) /\ Len(wheel_'[u]) = Buckets
    <3>1. \A u \in Threads : IsPool(pool[u]) /\ Len(wheel_[u]) = Buckets
      BY DEF Inv, Typed, IOTyped
    <3>2. IsPool(np)
      BY <1>2 DEF Dispatch
    <3>3. ASSUME NEW u \in Threads PROVE IsPool(pool'[u]) /\ Len(wheel_'[u]) = Buckets
      <4>1. CASE u = t
        BY <1>9, <1>10, <3>2, <4>1
      <4>2. CASE u # t
        BY <1>9, <1>10, <3>1, <4>2
      <4>. QED
        BY <4>1, <4>2
    <3>. QED
      BY <3>3, Zenon
  <2>3. IOTyped /\ epoll' = epoll
    BY <1>3 DEF Inv, Typed
  <2>4. iopc' \in [Threads -> {"new", "loop", "grow"}]
    BY DEF FdsStep
  <2>5. tasks' \in [Threads -> Seq(Tasks)] /\ clients_' \in [Threads -> [Fds -> 0..MaxClients]]
        /\ wheel_' \in [Threads -> Seq(SUBSET Clients)] /\ DOMAIN pool' = Threads /\ DOMAIN cofunc' = Threads
    BY <1>6, <1>7, <1>8, <1>9, <1>10, Zenon
  <2>. QED
    BY <2>1, <2>2, <2>3, <2>4, <2>5, Zenon DEF IOTyped
<1>13. FdsTyped'
  BY <1>3 DEF Inv, Typed, FdsTyped, FdsStep
<1>14. AddQueued'
  <2>1. \A u \in Threads : \E o \in {0, 1} : \A i \in DOMAIN tasks'[u] :
          tasks'[u][i][1] = "add" => i + o \in DOMAIN tasks[u] /\ tasks'[u][i] = tasks[u][i + o]
    <3>1. tasks \in [Threads -> Seq(Tasks)] /\ \A u \in Threads : \A i \in DOMAIN tasks[u] : i + 0 = i
      BY DEF Inv, Typed, IOTyped
    <3>2. ASSUME NEW u \in Threads, u # t
          PROVE  \A i \in DOMAIN tasks'[u] :
                   tasks'[u][i][1] = "add" => i + 0 \in DOMAIN tasks[u] /\ tasks'[u][i] = tasks[u][i + 0]
      BY <1>6, <3>1, <3>2, Zenon
    <3>3. <<"run", k>>[1] # "add"
      OBVIOUS
    <3>4. \A i \in DOMAIN tasks'[t] :
            tasks'[t][i][1] = "add" => i + 1 \in DOMAIN tasks[t] /\ tasks'[t][i] = tasks[t][i + 1]
      BY <1>6, <3>3, Zenon
    <3>. QED
      BY <3>2, <3>4, Zenon
  <2>2. ASSUME NEW u \in Threads, NEW d \in Clients,
               \E i \in DOMAIN tasks'[u] : tasks'[u][i] = <<"add", d>>
        PROVE  conn'[d].st = conn[d].st /\ conn'[d].t = conn[d].t /\ conn'[d].fd = conn[d].fd
    <3>1. PICK i \in DOMAIN tasks'[u] : tasks'[u][i] = <<"add", d>>
      BY <2>2
    <3>2. PICK j \in DOMAIN tasks[u] : tasks[u][j] = <<"add", d>> /\ ~ (u = t /\ j = 1)
      <4>1. CASE u # t
        BY <1>6, <3>1, <4>1, Zenon
      <4>2. CASE u = t
        <5>1. <<"run", k>> # <<"add", d>>
          OBVIOUS
        <5>2. i + 1 \in DOMAIN tasks[t] /\ tasks[t][i + 1] = <<"add", d>>
          BY <1>6, <3>1, <4>2, <5>1, Zenon
        <5>3. i + 1 # 1
          BY <1>6, <3>1, <4>2
        <5>. QED
          BY <4>2, <5>2, <5>3, Zenon
      <4>. QED
        BY <4>1, <4>2
    <3>3. d # c
      BY <1>1, <3>2, Zenon
    <3>4. conn'[d] = conn[d]
      BY <1>same, <3>2, <3>3, Zenon DEF QueuedSame
    <3>. QED
      BY <3>4, Zenon
  <2>3. tasks' \in [Threads -> Seq(Tasks)]
    BY <1>6
  <2>. QED
    BY <2>1, <2>2, <2>3, AddQueuedKept, Zenon
<1>15. RunQueued'
  <2>1. \A u \in Threads : DOMAIN cofunc[u] \subseteq DOMAIN cofunc'[u]
    BY <1>7
  <2>2. k \in DOMAIN cofunc'[t] /\ <<"run", k>>[2] = k
    BY <1>7
  <2>3. ASSUME NEW u \in Threads, NEW i \in DOMAIN tasks'[u], tasks'[u][i][1] = "run"
        PROVE  \/ \E j \in DOMAIN tasks[u] : tasks[u][j] = tasks'[u][i]
               \/ tasks'[u][i][2] \in DOMAIN cofunc'[u]
    <3>1. CASE u = t
      BY <1>6, <2>2, <2>3, <3>1, Zenon
    <3>2. CASE u # t
      BY <1>6, <2>3, <3>2
    <3>. QED
      BY <3>1, <3>2
  <2>. QED
    BY <2>1, <2>3, RunQueuedKept, Zenon
<1>16. Growing'
  <2>1. \A u \in Threads : iopc'[u] = "grow" => iopc[u] = "grow" /\ u # t
    BY DEF FdsStep
  <2>2. ASSUME NEW u \in Threads, iopc'[u] = "grow"
        PROVE  /\ iopc[u] = "grow" /\ tasks'[u] = tasks[u]
               /\ \A j \in DOMAIN cofunc[u] : cofunc'[u][j] = cofunc[u][j]
    BY <1>6, <1>7, <2>1, <2>2, Zenon
  <2>3. ASSUME NEW u \in Threads, NEW d \in Clients, iopc'[u] = "grow", FirstTask(u, "add", d)
        PROVE  conn'[d].addr = conn[d].addr
    <3>1. 1 \in DOMAIN tasks[u] /\ tasks[u][1] = <<"add", d>>
      BY <2>3, FirstOf
    <3>2. d # c
      BY <1>1, <2>1, <2>3, <3>1, Zenon
    <3>3. conn'[d] = conn[d]
      BY <1>same, <3>1, <3>2, Zenon DEF QueuedSame
    <3>. QED
      BY <3>3
  <2>. QED
    BY <2>2, <2>3, GrowingKept, Zenon
<1>17. Mapped'
  <2>1. ASSUME NEW u \in Threads, NEW f \in Fds, clients_'[u][f] # 0
        PROVE  /\ conn'[clients_'[u][f]].fd = f /\ conn'[clients_'[u][f]].t = u
               /\ Live(clients_[u][f])'
    <3>1. CASE u = t /\ f = conn[c].fd
      <4>1. clients_'[u][f] = c
        BY <1>8, <3>1, Zenon
      <4>2. conn'[c].fd = f /\ conn'[c].t = u /\ Live(c)'
        BY <1>4, <3>1 DEF Live
      <4>. QED
        BY <4>1, <4>2, Zenon DEF Live
    <3>2. CASE u # t \/ f # conn[c].fd
      <4>1. PICK d \in Clients : d = clients_[u][f] /\ d # 0
        BY <1>8, <2>1, <3>2, Entries
      <4>2. clients_'[u][f] = d
        BY <1>8, <3>2, <4>1, Zenon
      <4>3. Live(d) /\ conn[d].t = u /\ conn[d].fd = f
        BY <4>1 DEF Inv, Mapped
      <4>4. d # c
        BY <1>1, <4>3 DEF Live
      <4>5. conn'[d].fd = f /\ conn'[d].t = u /\ Live(d)'
        BY <1>5, <3>2, <4>3, <4>4, Zenon DEF Others
      <4>. QED
        BY <4>2, <4>5, Zenon DEF Live
    <3>. QED
      BY <3>1, <3>2, Zenon
  <2>. QED
    BY <2>1, Zenon DEF Mapped, Live
<1>18. Served'
  <2>1. ASSUME NEW u \in Threads, NEW j \in DOMAIN cofunc'[u], cofunc'[u][j].s \in {"ready", "in"}
        PROVE  /\ conn'[cofunc'[u][j].c].cor = j /\ conn'[cofunc'[u][j].c].t = u
               /\ conn'[cofunc'[u][j].c].st \in Open
    <3>1. CASE j \in DOMAIN cofunc[u] /\ cofunc'[u][j] = cofunc[u][j]
      <4>1. conn'[cofunc[u][j].c] = conn[cofunc[u][j].c]
        BY <1>same, <2>1, <3>1, Zenon DEF ServedSame
      <4>2. /\ conn[cofunc[u][j].c].cor = j /\ conn[cofunc[u][j].c].t = u
            /\ conn[cofunc[u][j].c].st \in Open
        BY <2>1, <3>1, Zenon DEF Inv, Served
      <4>. QED
        BY <3>1, <4>1, <4>2, Zenon
    <3>2. CASE u = t /\ j = k /\ cofunc'[u][j] = [s |-> "ready", c |-> c]
      <4>1. cofunc'[u][j].c = c
        BY <3>2
      <4>2. conn'[c].cor = j /\ conn'[c].t = u /\ conn'[c].st \in Open
        BY <1>4, <3>2 DEF Open
      <4>. QED
        BY <4>1, <4>2, Zenon
    <3>3. \/ j \in DOMAIN cofunc[u] /\ cofunc'[u][j] = cofunc[u][j]
          \/ u = t /\ j = k /\ cofunc'[u][j] = [s |-> "ready", c |-> c]
      <4>1. CASE u # t
        BY <1>7, <2>1, <4>1, Zenon
      <4>2. CASE u = t /\ j # k
        BY <1>7, <2>1, <4>2, Zenon
      <4>3. CASE u = t /\ j = k
        <5>1. InCoFunc(t) \subseteq DOMAIN cofunc[t]
          BY Zenon DEF InCoFunc
        <5>. QED
          BY <1>7, <4>3, <5>1, Zenon
      <4>. QED
        BY <4>1, <4>2, <4>3, Zenon
    <3>. QED
      BY <3>1, <3>2, <3>3, Zenon
  <2>. QED
    BY <2>1, Zenon DEF Served
<1>19. OnWheel'
  <2>. SUFFICES ASSUME NEW d \in Clients
                PROVE  /\ conn'[d].st = "Connected" =>
                            /\ conn'[d].idle < Buckets
                            /\ d \in wheel_'[conn'[d].t][Buckets - conn'[d].idle]
                            /\ \A b \in 1..Buckets : b > Buckets - conn'[d].idle
                                                       => d \notin wheel_'[conn'[d].t][b]
                       /\ conn'[d].st = "HalfClosing" => conn'[d].idle = Buckets
    BY DEF OnWheel
  <2>1. CASE d = c
    <3>1. conn'[d].st = "Connected" /\ conn'[d].idle = 0 /\ conn'[d].t = t
      BY <1>4, <2>1
    <3>2. c \in wheel_'[t][Buckets]
      BY <1>10, Zenon
    <3>. QED
      BY <2>1, <3>1, <3>2, Constants
  <2>2. CASE d # c /\ conn'[d].st \in Open
    <3>1. conn'[d] = conn[d]
      BY <1>5, <2>2, Zenon DEF Others, Open
    <3>2. /\ conn[d].st = "Connected" =>
               /\ conn[d].idle < Buckets
               /\ d \in wheel_[conn[d].t][Buckets - conn[d].idle]
               /\ \A b \in 1..Buckets : b > Buckets - conn[d].idle => d \notin wheel_[conn[d].t][b]
          /\ conn[d].st = "HalfClosing" => conn[d].idle = Buckets
      BY DEF Inv, OnWheel
    <3>3. \A b \in 1..Buckets : d \in wheel_'[conn[d].t][b] <=> d \in wheel_[conn[d].t][b]
      <4>1. CASE conn[d].t # t
        BY <1>10, <4>1, ConnThread, Zenon
      <4>2. CASE conn[d].t = t
        BY <1>10, <2>2, <4>2, Zenon
      <4>. QED
        BY <4>1, <4>2, Zenon
    <3>4. conn[d].idle \in 0..Buckets
      BY ConnFields, Zenon DEF ConnRecords
    <3>5. conn[d].idle < Buckets => Buckets - conn[d].idle \in 1..Buckets
      BY <3>4, Constants
    <3>. QED
      BY <3>1, <3>2, <3>3, <3>5, Zenon
  <2>. QED
    BY <2>1, <2>2, Zenon DEF Open
<1>20. ASSUME NEW d \in Clients, d # c, Live(d)'
       PROVE  Live(d) /\ conn'[d] = conn[d] /\ conns[d] = conn[d]
  BY <1>4, <1>5, <1>20 DEF Others
<1>21. Dispatched'
  <2>. SUFFICES ASSUME NEW u \in Threads
                PROVE  /\ pool'[u].m_pool_size >= PoolSize
                       /\ pool'[u].m_pool_size = PoolSize =>
                            /\ pool'[u].first = [i \in 0..PoolSize |-> i]
                            /\ \A d \in Clients : Live(d)' /\ conn'[d].t = u =>
                                 /\ conn'[d].cor \in 0..PoolSize /\ pool'[u].second[conn'[d].cor]
                                 /\ \A e \in Clients :
                                      Live(e)' /\ conn'[e].t = u /\ conn'[e].cor = conn'[d].cor => e = d
    BY Zenon DEF Dispatched
  <2>1. /\ pool[u].m_pool_size >= PoolSize
        /\ pool[u].m_pool_size = PoolSize =>
             /\ pool[u].first = [i \in 0..PoolSize |-> i]
             /\ \A d \in Clients : Live(d) /\ conn[d].t = u =>
                  /\ conn[d].cor \in 0..PoolSize /\ pool[u].second[conn[d].cor]
                  /\ \A e \in Clients : Live(e) /\ conn[e].t = u /\ conn[e].cor = conn[d].cor => e = d
    BY Zenon DEF Inv, Dispatched
  <2>2. CASE u # t
    <3>1. pool'[u] = pool[u]
      BY <1>9, <2>2, Zenon
    <3>2. \A d \in Clients : Live(d)' /\ conn'[d].t = u => Live(d) /\ conn'[d] = conn[d]
      BY <1>4, <1>20, <2>2, Zenon
    <3>3. ASSUME pool[u].m_pool_size = PoolSize, NEW d \in Clients, Live(d)', conn'[d].t = u
          PROVE  /\ conn'[d].cor \in 0..PoolSize /\ pool[u].second[conn'[d].cor]
                 /\ \A e \in Clients :
                      Live(e)' /\ conn'[e].t = u /\ conn'[e].cor = conn'[d].cor => e = d
      BY <2>1, <3>2, <3>3
    <3>. QED
      BY <2>1, <3>1, <3>3, Zenon
  <2>3. CASE u = t /\ np.m_pool_size > p.m_pool_size
    <3>1. pool'[u].m_pool_size > pool[u].m_pool_size
      BY <1>9, <2>3, Zenon DEF Frees
    <3>2. pool[u].m_pool_size \in Nat /\ pool'[u].m_pool_size \in Nat
      <4>1. IsPool(pool[u]) /\ IsPool(pool'[u])
        BY <1>12, Zenon DEF Inv, Typed, IOTyped
      <4>. QED
        BY <4>1, PoolFields, Zenon
    <3>3. pool'[u].m_pool_size >= PoolSize /\ pool'[u].m_pool_size # PoolSize
      BY <2>1, <3>1, <3>2, Constants
    <3>. QED
      BY <3>3, Zenon
  <2>4. ASSUME u = t, NEW j \in 0..p.m_pool_size,
               ~ p.second[j], k = p.first[j], np.second[j],
               np.m_pool_size = p.m_pool_size, np.first = p.first,
               \A i \in 0..p.m_pool_size : i # j => np.second[i] = p.second[i]
        PROVE  /\ pool'[u].m_pool_size >= PoolSize
               /\ pool'[u].m_pool_size = PoolSize =>
                    /\ pool'[u].first = [i \in 0..PoolSize |-> i]
                    /\ \A d \in Clients : Live(d)' /\ conn'[d].t = u =>
                         /\ conn'[d].cor \in 0..PoolSize /\ pool'[u].second[conn'[d].cor]
                         /\ \A e \in Clients :
                              Live(e)' /\ conn'[e].t = u /\ conn'[e].cor = conn'[d].cor => e = d
    <3>1. pool'[u] = np /\ p.m_pool_size = pool[u].m_pool_size /\ p.first = pool[u].first
      BY <1>9, <2>4, Zenon DEF Frees
    <3>. SUFFICES ASSUME pool[u].m_pool_size = PoolSize
                  PROVE  /\ np.first = [i \in 0..PoolSize |-> i]
                         /\ \A d \in Clients : Live(d)' /\ conn'[d].t = u =>
                              /\ conn'[d].cor \in 0..PoolSize /\ np.second[conn'[d].cor]
                              /\ \A e \in Clients :
                                   Live(e)' /\ conn'[e].t = u /\ conn'[e].cor = conn'[d].cor => e = d
      BY <2>1, <2>4, <3>1, Zenon
    <3>2. j \in 0..PoolSize /\ p.first = [i \in 0..PoolSize |-> i]
      BY <2>1, <2>4, <3>1, Zenon
    <3>3. k = j
      BY <2>4, <3>2, Zenon
    <3>4. ASSUME NEW d \in Clients, d # c, Live(d)', conn'[d].t = u
          PROVE  /\ Live(d) /\ conn[d].t = u /\ conn'[d].cor = conn[d].cor
                 /\ conn[d].cor \in 0..PoolSize /\ conn[d].cor # k /\ np.second[conn[d].cor]
      <4>1. Live(d) /\ conn[d].t = u /\ conn'[d].cor = conn[d].cor /\ conns[d] = conn[d]
        BY <1>20, <3>4
      <4>2. conn[d].cor \in 0..PoolSize
        BY <2>1, <4>1, Zenon
      <4>3. p.second[conn[d].cor]
        BY <2>4, <4>1, Zenon DEF Frees
      <4>4. conn[d].cor # j
        BY <2>4, <4>3, Zenon
      <4>5. np.second[conn[d].cor] = p.second[conn[d].cor]
        BY <2>4, <3>1, <4>2, <4>4, Zenon
      <4>. QED
        BY <3>3, <4>1, <4>2, <4>3, <4>4, <4>5, Zenon
    <3>5. ASSUME NEW d \in Clients, Live(d)', conn'[d].t = u
          PROVE  conn'[d].cor \in 0..PoolSize /\ np.second[conn'[d].cor]
      <4>1. CASE d = c
        <5>1. conn'[d].cor = j
          BY <1>4, <3>3, <4>1
        <5>. QED
          BY <2>4, <3>2, <5>1, Zenon
      <4>2. CASE d # c
        BY <3>4, <3>5, <4>2, Zenon
      <4>. QED
        BY <4>1, <4>2
    <3>6. ASSUME NEW d \in Clients, Live(d)', conn'[d].t = u,
                 NEW e \in Clients, Live(e)', conn'[e].t = u, conn'[e].cor = conn'[d].cor
          PROVE  e = d
      <4>1. conn'[c].cor = k
        BY <1>4
      <4>2. CASE d # c /\ e # c
        <5>1. Live(d) /\ conn[d].t = u /\ Live(e) /\ conn[e].t = u /\ conn[e].cor = conn[d].cor
          BY <3>4, <3>6, <4>2, Zenon
        <5>. QED
          BY <2>1, <5>1, Zenon
      <4>3. CASE d = c /\ e # c
        BY <3>4, <3>6, <4>1, <4>3, Zenon
      <4>4. CASE d # c /\ e = c
        BY <3>4, <3>6, <4>1, <4>4, Zenon
      <4>. QED
        BY <4>2, <4>3, <4>4, Zenon
    <3>. QED
      BY <2>4, <3>2, <3>5, <3>6, Zenon
  <2>5. CASE u = t /\ ~ (np.m_pool_size > p.m_pool_size)
    <3>1. PICK j \in 0..p.m_pool_size :
            /\ ~ p.second[j] /\ k = p.first[j] /\ np.second[j]
            /\ np.m_pool_size = p.m_pool_size /\ np.first = p.first
            /\ \A i \in 0..p.m_pool_size : i # j => np.second[i] = p.second[i]
      BY <1>2, <2>5, Zenon DEF Dispatch
    <3>. QED
      BY <2>4, <2>5, <3>1, Zenon
  <2>. QED
    BY <2>2, <2>3, <2>5, Zenon
<1>22. Events'
  <2>. SUFFICES ASSUME raced' = "no" PROVE Events'
    BY Zenon DEF Events
  <2>1. /\ raced = "no"
        /\ \A i \in DOMAIN fds_ : i \in DOMAIN fds_' /\ fds_'[i] = fds_[i]
        /\ \A i \in DOMAIN fds_' : fds_'[i][1] = i
    BY Zenon DEF FdsStep
  <2>2. ASSUME NEW d \in Clients, conn'[d].st # "none"
        PROVE  conn'[d].fd \in DOMAIN fds_' /\ conn'[d].fe = fds_'[conn'[d].fd]
    <3>1. CASE d = c
      BY <1>4, <3>1, Zenon
    <3>2. CASE d # c
      <4>1. conn[d].st # "none" /\ conn'[d].fd = conn[d].fd /\ conn'[d].fe = conn[d].fe
        BY <1>5, <2>2, <3>2, Zenon DEF Others
      <4>2. conn[d].fd \in DOMAIN fds_ /\ conn[d].fe = fds_[conn[d].fd]
        BY <2>1, <4>1, Zenon DEF Inv, Events
      <4>. QED
        BY <2>1, <4>1, <4>2, Zenon
    <3>. QED
      BY <3>1, <3>2
  <2>3. ~ Reading(c)'
    <3>. SUFFICES ASSUME Reading(c)' PROVE FALSE
      OBVIOUS
    <3>1. k \in DOMAIN cofunc'[t] /\ cofunc'[t][k].s = "in" /\ cofunc'[t][k].c = c
      BY <1>4 DEF Reading, InCoFunc
    <3>2. k \in DOMAIN cofunc[t] /\ cofunc[t][k].s = "in" /\ cofunc[t][k].c = c
      BY <1>11, <3>1, Zenon
    <3>. QED
      BY <1>same, <3>2, Zenon DEF ServedSame
  <2>4. ASSUME NEW d \in Clients, d # c
        PROVE  /\ Reading(d)' <=> Reading(d)
               /\ Reading(d) => conn'[d] = conn[d]
    <3>1. CASE conn[d].st \notin Open
      BY <1>5, <2>4, <3>1, Zenon DEF Reading, Others
    <3>2. CASE conn[d].st \in Open
      <4>1. conn'[d] = conn[d] /\ conn[d].t \in Threads
        <5>1. conn[d].st # "Closed"
          BY <3>2 DEF Open
        <5>. QED
          BY <1>5, <2>4, <5>1, ConnThread, Zenon DEF Others
      <4>2. ASSUME Reading(d)' PROVE Reading(d)
        <5>1. /\ conn[d].cor \in DOMAIN cofunc'[conn[d].t] /\ cofunc'[conn[d].t][conn[d].cor].s = "in"
              /\ cofunc'[conn[d].t][conn[d].cor].c = d
          BY <4>1, <4>2, Zenon DEF Reading, InCoFunc
        <5>. QED
          BY <1>11, <3>2, <4>1, <5>1, Zenon DEF Reading, InCoFunc
      <4>3. ASSUME Reading(d) PROVE Reading(d)'
        <5>1. /\ conn[d].cor \in DOMAIN cofunc[conn[d].t] /\ cofunc[conn[d].t][conn[d].cor].s = "in"
              /\ cofunc[conn[d].t][conn[d].cor].c = d
          BY <4>3, Zenon DEF Reading, InCoFunc
        <5>2. /\ conn[d].cor \in DOMAIN cofunc'[conn[d].t]
              /\ cofunc'[conn[d].t][conn[d].cor] = cofunc[conn[d].t][conn[d].cor]
          <6>1. CASE conn[d].t # t
            BY <1>7, <4>1, <5>1, <6>1, Zenon
          <6>2. CASE conn[d].t = t /\ conn[d].cor # k
            BY <1>7, <5>1, <6>2
          <6>3. CASE conn[d].t = t /\ conn[d].cor = k
            <7>1. k \in InCoFunc(t)
              BY <5>1, <6>3 DEF InCoFunc
            <7>. QED
              BY <1>7, <6>3, <7>1, Zenon
          <6>. QED
            BY <6>1, <6>2, <6>3, Zenon
        <5>. QED
          BY <3>2, <4>1, <5>1, <5>2, Zenon DEF Reading, InCoFunc
      <4>. QED
        BY <4>1, <4>2, <4>3
    <3>. QED
      BY <3>1, <3>2
  <2>5. ASSUME NEW x \in listening' PROVE \E d \in Clients : Reading(d)' /\ conn'[d].fe = x
    <3>1. PICK d \in Clients : Reading(d) /\ conn[d].fe = x
      BY <1>3, <2>1, Zenon DEF Inv, Events
    <3>2. d # c
      BY <1>1, <3>1 DEF Reading, Open
    <3>. QED
      BY <2>4, <3>1, <3>2, Zenon
  <2>6. ASSUME NEW d \in Clients, Reading(d)' PROVE conn'[d].fd \in epoll'[conn'[d].t]
    <3>1. d # c /\ Reading(d) /\ conn'[d] = conn[d]
      BY <2>3, <2>4, <2>6, Zenon
    <3>. QED
      BY <1>3, <2>1, <3>1, Zenon DEF Inv, Events
  <2>. QED
    BY <2>1, <2>2, <2>5, <2>6, Zenon DEF Events
<1>. QED
  BY <1>5, <1>12, <1>13, <1>14, <1>15, <1>16, <1>17, <1>18, <1>19, <1>21, <1>22, Zenon DEF Inv, Typed

(* addClient() meets an fd that the container does not have.               *)
AddGrows(t, c, conns, p) ==
  /\ iopc' = [iopc EXCEPT ![t] = "grow"] /\ copied' = [copied EXCEPT ![t] = fds_]
  /\ pool' = [pool EXCEPT ![t] = p] /\ conn' = conns
  /\ clients_' = [clients_ EXCEPT ![t][conn[c].fd] = 0]
  /\ UNCHANGED <<mainVars, netVars, fds_, listening, raced, tasks, wheel_, cofunc, epoll>>

LEMMA AddGrowInv ==
  ASSUME Inv, NEW t \in Threads, NEW c, FirstTask(t, "add", c),
         NEW conns, NEW p, Frees(t, c, conns, p), AddGrows(t, c, conns, p)
  PROVE  Inv'
<1>0. UNCHANGED <<fds_, listening, raced, tasks, wheel_, cofunc, epoll>>
  BY DEF AddGrows
<1>1. /\ c \in Clients /\ conn[c].st = "none" /\ conn[c].t = t /\ conn[c].fd \in Fds
      /\ \A u \in Threads : \A i \in DOMAIN tasks[u] :
           tasks[u][i] = <<"add", c>> => u = t /\ i = 1
  BY FirstAdd
<1>2. Adds(t, c, conns)
  BY DEF Frees, Adds, AddGrows
<1>3. UNCHANGED <<mpc, ready, peer, size_, index_, netVars>>
  BY DEF AddGrows, mainVars
<1>4. MainTyped' /\ ConnTyped' /\ Arrivals' /\ Owned' /\ Addressed' /\ Others(t, c)
  BY <1>2, <1>3, AddStep, Zenon
<1>same. QueuedSame(c) /\ ServedSame(c)
  BY <1>1, <1>4, OthersSame, Zenon
<1>5. conn'[c].st = "none" /\ conn'[c].t = t /\ conn'[c].fd = conn[c].fd /\ conn'[c].addr >= c
  BY DEF Frees, AddGrows
<1>6. /\ pool'[t] = p /\ DOMAIN pool' = Threads /\ \A u \in Threads : u # t => pool'[u] = pool[u]
      /\ iopc'[t] = "grow" /\ \A u \in Threads : u # t => iopc'[u] = iopc[u]
      /\ iopc' \in [Threads -> {"new", "loop", "grow"}]
      /\ copied'[t] = fds_ /\ DOMAIN copied' = Threads
      /\ \A u \in Threads : u # t => copied'[u] = copied[u]
  BY Zenon DEF AddGrows, Inv, Typed, IOTyped, FdsTyped
<1>7. /\ clients_' \in [Threads -> [Fds -> 0..MaxClients]]
      /\ clients_'[t][conn[c].fd] = 0
      /\ \A u \in Threads, f \in Fds : u # t \/ f # conn[c].fd => clients_'[u][f] = clients_[u][f]
  <2>0. 0 \in 0..MaxClients
    BY Constants
  <2>1. clients_ \in [Threads -> [Fds -> 0..MaxClients]] /\ 0 \in 0..MaxClients
    BY <2>0, Zenon DEF Inv, Typed, IOTyped
  <2>. QED
    BY <1>1, <2>1, Zenon DEF AddGrows
<1>8. IOTyped'
  <2>1. \A u \in Threads : IsPool(pool'[u])
    BY <1>6, Zenon DEF Frees, Inv, Typed, IOTyped
  <2>2. IOTyped /\ UNCHANGED <<tasks, wheel_, cofunc, epoll>>
    BY <1>0, Zenon DEF Inv, Typed
  <2>. QED
    BY <1>6, <1>7, <2>1, <2>2, Zenon DEF IOTyped
<1>9. FdsTyped'
  BY <1>0, <1>6, Zenon DEF Inv, Typed, FdsTyped
<1>10. AddQueued'
  <2>1. tasks \in [Threads -> Seq(Tasks)] /\ tasks' = tasks
    BY <1>0 DEF Inv, Typed, IOTyped
  <2>2. \A u \in Threads : \A i \in DOMAIN tasks[u] : i + 0 \in DOMAIN tasks[u] /\ tasks[u][i] = tasks[u][i + 0]
    BY <2>1
  <2>3. ASSUME NEW u \in Threads, NEW d \in Clients,
               \E i \in DOMAIN tasks'[u] : tasks'[u][i] = <<"add", d>>
        PROVE  conn'[d].st = conn[d].st /\ conn'[d].t = conn[d].t /\ conn'[d].fd = conn[d].fd
    <3>1. CASE d = c
      BY <1>1, <1>5, <3>1, Zenon
    <3>2. CASE d # c
      <4>1. conn'[d] = conn[d]
        BY <1>same, <2>1, <2>3, <3>2, Zenon DEF QueuedSame
      <4>. QED
        BY <4>1, Zenon
    <3>. QED
      BY <3>1, <3>2
  <2>. QED
    BY <2>1, <2>2, <2>3, AddQueuedKept, Zenon
<1>11. RunQueued'
  BY <1>0, Zenon DEF Inv, RunQueued
<1>12. Growing'
  <2>. SUFFICES ASSUME NEW u \in Threads, iopc'[u] = "grow"
                PROVE  /\ tasks[u] # <<>>
                       /\ LET task == Head(tasks[u])
                          IN /\ task[1] = "add" => conn'[task[2]].addr >= task[2]
                             /\ task[1] = "run" => cofunc[u][task[2]].s = "ready"
    BY <1>0, Zenon DEF Growing
  <2>1. CASE u = t
    BY <1>5, <2>1 DEF FirstTask
  <2>2. CASE u # t
    <3>1. iopc[u] = "grow"
      BY <1>6, <2>2, Zenon
    <3>2. /\ tasks[u] # <<>> /\ tasks[u] \in Seq(Tasks)
          /\ Head(tasks[u])[1] = "add" => conn[Head(tasks[u])[2]].addr >= Head(tasks[u])[2]
          /\ Head(tasks[u])[1] = "run" => cofunc[u][Head(tasks[u])[2]].s = "ready"
      BY <3>1, Zenon DEF Inv, Growing, Typed, IOTyped
    <3>3. Head(tasks[u]) \in Tasks /\ 1 \in DOMAIN tasks[u] /\ tasks[u][1] = Head(tasks[u])
      BY <3>2
    <3>4. ASSUME NEW d \in Clients, Head(tasks[u]) = <<"add", d>> PROVE conn'[d] = conn[d]
      <4>1. d # c
        BY <1>1, <2>2, <3>3, <3>4, Zenon
      <4>. QED
        BY <1>same, <3>3, <3>4, <4>1, Zenon DEF QueuedSame
    <3>. QED
      BY <3>2, <3>3, <3>4, TaskKinds, Zenon
  <2>. QED
    BY <2>1, <2>2
<1>13. Mapped'
  <2>1. ASSUME NEW u \in Threads, NEW f \in Fds, NEW d \in Clients, clients_'[u][f] = d
        PROVE  clients_[u][f] = d /\ Live(d)'
    <3>1. d # 0
      BY Constants DEF Clients
    <3>2. (u # t \/ f # conn[c].fd) /\ clients_[u][f] = d
      BY <1>7, <2>1, <3>1, Zenon
    <3>3. Live(d) /\ conn[d].t = u /\ conn[d].fd = f
      BY <3>1, <3>2, Zenon DEF Inv, Mapped
    <3>4. d # c
      BY <1>1, <3>3, Zenon DEF Live
    <3>. QED
      BY <1>4, <3>2, <3>3, <3>4, Zenon DEF Others
  <2>2. \A d \in Clients : conn'[d].fd = conn[d].fd /\ conn'[d].t = conn[d].t
    BY <1>1, <1>4, <1>5, Zenon DEF Others
  <2>. QED
    BY <1>7, <2>1, <2>2, MappedKept
<1>14. Served'
  <2>1. ASSUME NEW u \in Threads, NEW j \in DOMAIN cofunc[u], cofunc[u][j].s \in {"ready", "in"}
        PROVE  /\ conn'[cofunc[u][j].c].cor = j /\ conn'[cofunc[u][j].c].t = u
               /\ conn'[cofunc[u][j].c].st \in Open
    <3>1. conn'[cofunc[u][j].c] = conn[cofunc[u][j].c]
      BY <1>same, <2>1, Zenon DEF ServedSame
    <3>2. /\ conn[cofunc[u][j].c].cor = j /\ conn[cofunc[u][j].c].t = u
          /\ conn[cofunc[u][j].c].st \in Open
      BY <2>1, Zenon DEF Inv, Served
    <3>. QED
      BY <3>1, <3>2, Zenon
  <2>2. cofunc' = cofunc
    BY <1>0, Zenon
  <2>. QED
    BY <2>1, <2>2, Zenon DEF Served
<1>15. OnWheel'
  <2>1. ASSUME NEW d \in Clients, conn'[d].st \in Open PROVE conn'[d] = conn[d]
    BY <1>4, <1>5, <2>1 DEF Others, Open
  <2>2. wheel_' = wheel_
    BY <1>0, Zenon
  <2>. QED
    BY <2>1, <2>2, Zenon DEF Inv, OnWheel, Open
<1>16. Dispatched'
  <2>1. \A d \in Clients : Live(d)' => Live(d) /\ conn'[d] = conn[d] /\ conns[d] = conn[d]
    BY <1>4, <1>5 DEF Others, Live, AddGrows
  <2>. SUFFICES ASSUME NEW u \in Threads
                PROVE  /\ pool'[u].m_pool_size >= PoolSize
                       /\ pool'[u].m_pool_size = PoolSize =>
                            /\ pool'[u].first = [i \in 0..PoolSize |-> i]
                            /\ \A d \in Clients : Live(d)' /\ conn'[d].t = u =>
                                 /\ conn'[d].cor \in 0..PoolSize /\ pool'[u].second[conn'[d].cor]
                                 /\ \A e \in Clients :
                                      Live(e)' /\ conn'[e].t = u /\ conn'[e].cor = conn'[d].cor => e = d
    BY Zenon DEF Dispatched
  <2>2. /\ pool[u].m_pool_size >= PoolSize
        /\ pool[u].m_pool_size = PoolSize =>
             /\ pool[u].first = [i \in 0..PoolSize |-> i]
             /\ \A d \in Clients : Live(d) /\ conn[d].t = u =>
                  /\ conn[d].cor \in 0..PoolSize /\ pool[u].second[conn[d].cor]
                  /\ \A e \in Clients : Live(e) /\ conn[e].t = u /\ conn[e].cor = conn[d].cor => e = d
    BY Zenon DEF Inv, Dispatched
  <2>3. CASE u # t
    <3>1. pool'[u] = pool[u]
      BY <1>6, <2>3, Zenon
    <3>2. ASSUME pool[u].m_pool_size = PoolSize, NEW d \in Clients, Live(d)', conn'[d].t = u
          PROVE  /\ conn'[d].cor \in 0..PoolSize /\ pool[u].second[conn'[d].cor]
                 /\ \A e \in Clients :
                      Live(e)' /\ conn'[e].t = u /\ conn'[e].cor = conn'[d].cor => e = d
      BY <2>1, <2>2, <3>2
    <3>. QED
      BY <2>2, <3>1, <3>2, Zenon
  <2>4. CASE u = t
    <3>1. /\ pool'[u].m_pool_size = pool[u].m_pool_size /\ pool'[u].first = pool[u].first
          /\ pool[u].m_pool_size = PoolSize =>
               \A d \in Clients : Live(d) /\ conn[d].t = u /\ conns[d] = conn[d] => pool'[u].second[conn[d].cor]
      BY <1>6, <2>4, Zenon DEF Frees
    <3>2. ASSUME pool[u].m_pool_size = PoolSize, NEW d \in Clients, Live(d)', conn'[d].t = u
          PROVE  /\ conn'[d].cor \in 0..PoolSize /\ pool'[u].second[conn'[d].cor]
                 /\ \A e \in Clients :
                      Live(e)' /\ conn'[e].t = u /\ conn'[e].cor = conn'[d].cor => e = d
      <4>1. Live(d) /\ conn'[d] = conn[d] /\ conns[d] = conn[d] /\ conn[d].t = u
        BY <2>1, <3>2, Zenon
      <4>2. pool'[u].second[conn[d].cor] /\ conn[d].cor \in 0..PoolSize
        BY <2>2, <3>1, <3>2, <4>1, Zenon
      <4>3. \A e \in Clients : Live(e)' /\ conn'[e].t = u /\ conn'[e].cor = conn'[d].cor => e = d
        BY <2>1, <2>2, <3>2, <4>1, Zenon
      <4>. QED
        BY <4>1, <4>2, <4>3, Zenon
    <3>. QED
      BY <2>2, <3>1, <3>2, Zenon
  <2>. QED
    BY <2>3, <2>4, Zenon
<1>17. Events'
  <2>1. ASSUME NEW d \in Clients
        PROVE  /\ Reading(d)' <=> Reading(d)
               /\ Reading(d) => conn'[d] = conn[d]
               /\ conn'[d].st # "none" => /\ conn[d].st # "none"
                                          /\ conn'[d].fd = conn[d].fd /\ conn'[d].fe = conn[d].fe
    <3>1. CASE d = c
      BY <1>1, <1>5, <3>1, Zenon DEF Reading, Open
    <3>2. CASE d # c
      <4>1. CASE conn[d].st \in Open
        <5>1. conn'[d] = conn[d]
          BY <1>4, <3>2, <4>1, Zenon DEF Others, Open
        <5>. QED
          BY <1>0, <5>1, Zenon DEF Reading, InCoFunc
      <4>2. CASE conn[d].st \notin Open
        BY <1>4, <3>2, <4>2, Zenon DEF Reading, Others
      <4>. QED
        BY <4>1, <4>2, Zenon
    <3>. QED
      BY <3>1, <3>2, Zenon
  <2>2. UNCHANGED <<fds_, raced, listening, epoll>>
    BY <1>0
  <2>. QED
    BY <2>1, <2>2 DEF Inv, Events
<1>. QED
  BY <1>4, <1>8, <1>9, <1>10, <1>11, <1>12, <1>13, <1>14, <1>15, <1>16, <1>17, Zenon DEF Inv, Typed

-----------------------------------------------------------------------------
(* Adding a client, from the task to the connection.                       *)

LEMMA FreesNone ==
  ASSUME Inv, NEW t \in Threads, NEW c, FirstTask(t, "add", c), iopc[t] = "grow"
  PROVE  Frees(t, c, conn, pool[t])
<1>1. /\ c \in Clients /\ conn[c].st = "none" /\ conn[c].t = t /\ conn[c].idle = 0
  BY FirstAdd
<1>2. conn[c].addr >= c
  BY DEF FirstTask, Inv, Growing
<1>3. conn \in [Clients -> ConnRecords] /\ IsPool(pool[t])
  BY DEF Inv, Typed, ConnTyped, IOTyped
<1>4. pool[t].m_pool_size = PoolSize => \A d \in Clients : Live(d) /\ conn[d].t = t => pool[t].second[conn[d].cor]
  BY Zenon DEF Inv, Dispatched
<1>. QED
  BY <1>1, <1>2, <1>3, <1>4, Zenon DEF Frees

LEMMA ReturnOne ==
  ASSUME NEW p, IsPool(p), NEW k
  PROVE  LET r == ReturnCoroutine(p, k)
         IN /\ IsPool(r) /\ r.m_pool_size = p.m_pool_size /\ r.first = p.first
            /\ \A i \in 0..p.m_pool_size : i # k => r.second[i] = p.second[i]
BY Zenon DEF IsPool, ReturnCoroutine

(* A connection left under the fd of a client to be added is Closed.       *)
Left(t, c) == clients_[t][conn[c].fd]

LEMMA LeftClosed ==
  ASSUME Inv, NEW t \in Threads, NEW c, FirstTask(t, "add", c), Left(t, c) # 0
  PROVE  /\ Left(t, c) \in Clients /\ conn[Left(t, c)].st = "Closed" /\ conn[Left(t, c)].t = t
         /\ conn[Left(t, c)].fd = conn[c].fd /\ Left(t, c) # c
<1>1. c \in Clients /\ conn[c].st = "none" /\ conn[c].fd \in Fds /\ conn[c].fd # 0
  BY FirstAdd
<1>2. Left(t, c) \in Clients
  <2>1. Left(t, c) \in 0..MaxClients
    BY <1>1, Zenon DEF Inv, Typed, IOTyped, Left
  <2>. QED
    BY <2>1, Constants DEF Clients
<1>3. conn[Left(t, c)].fd = conn[c].fd /\ conn[Left(t, c)].t = t /\ Live(Left(t, c))
  BY <1>1 DEF Inv, Mapped, Left
<1>4. conn[Left(t, c)].st \notin Open
  <2>. SUFFICES ASSUME conn[Left(t, c)].st \in Open PROVE FALSE
    OBVIOUS
  <2>1. Owner(Left(t, c)) /\ Owner(c)
    BY <1>1, <1>3 DEF Owner
  <2>2. Left(t, c) = c
    BY <1>1, <1>2, <1>3, <2>1, Zenon DEF Inv, Owned
  <2>. QED
    BY <1>1, <2>2 DEF Open
<1>. QED
  BY <1>1, <1>2, <1>3, <1>4 DEF Live, Open

LEMMA FreesLeft ==
  ASSUME Inv, NEW t \in Threads, NEW c, FirstTask(t, "add", c),
         NEW p, p = IF Left(t, c) = 0 THEN pool[t] ELSE ReturnCoroutine(pool[t], conn[Left(t, c)].cor),
         NEW conns,
         conns = [d \in Clients |->
                    IF d = c THEN [conn[c] EXCEPT !.addr = peer]
                    ELSE IF d = Left(t, c) THEN [conn[d] EXCEPT !.st = "freed"] ELSE conn[d]]
  PROVE  Frees(t, c, conns, p)
<1>1. /\ c \in Clients /\ conn[c].st = "none" /\ conn[c].t = t /\ conn[c].idle = 0 /\ c <= peer
  BY FirstAdd
<1>2. /\ conns[c] = [conn[c] EXCEPT !.addr = peer] /\ DOMAIN conns = Clients
      /\ \A d \in Clients : d # c /\ d # Left(t, c) => conns[d] = conn[d]
      /\ \A d \in Clients : d # c /\ d = Left(t, c) => conns[d] = [conn[d] EXCEPT !.st = "freed"]
  BY <1>1, Zenon
<1>3. peer \in Nat /\ "freed" \in States
  BY Constants DEF Inv, Typed, MainTyped, States
<1>4. /\ conns[c] \in ConnRecords /\ conns[c].st = "none" /\ conns[c].t = t
      /\ conns[c].fd = conn[c].fd /\ conns[c].idle = 0 /\ conns[c].addr = peer
  <2>1. conn[c] \in ConnRecords
    BY <1>1, ConnFields
  <2>2. [conn[c] EXCEPT !.addr = peer] \in ConnRecords
    BY <1>3, <2>1, Zenon DEF ConnRecords
  <2>3. LET r == [conn[c] EXCEPT !.addr = peer]
        IN /\ r.st = conn[c].st /\ r.t = conn[c].t /\ r.fd = conn[c].fd /\ r.idle = conn[c].idle
           /\ r.addr = peer
    BY <2>1, Zenon DEF ConnRecords
  <2>. QED
    BY <1>1, <1>2, <2>2, <2>3, Zenon
<1>5. ASSUME NEW d \in Clients, d # c, d = Left(t, c)
      PROVE  /\ conns[d] \in ConnRecords /\ conns[d].st = "freed" /\ conns[d].fd = conn[d].fd
             /\ conns[d].fe = conn[d].fe /\ conns[d].t = conn[d].t
  <2>1. conn[d] \in ConnRecords
    BY ConnFields
  <2>2. [conn[d] EXCEPT !.st = "freed"] \in ConnRecords
    BY <1>3, <2>1, Zenon DEF ConnRecords
  <2>3. LET r == [conn[d] EXCEPT !.st = "freed"]
        IN r.st = "freed" /\ r.fd = conn[d].fd /\ r.fe = conn[d].fe /\ r.t = conn[d].t
    BY <2>1, Zenon DEF ConnRecords
  <2>. QED
    BY <1>2, <1>5, <2>2, <2>3, Zenon
<1>6. conns \in [Clients -> ConnRecords]
  <2>1. \A d \in Clients : conns[d] \in ConnRecords
    BY <1>2, <1>4, <1>5, ConnFields, Zenon
  <2>. QED
    BY <2>1, Zenon
<1>7. ASSUME NEW d \in Clients, d = Left(t, c)
      PROVE  conn[d].st = "Closed" /\ conn[d].t = t /\ conn[d].fd = conn[c].fd /\ Left(t, c) # 0
  <2>1. Left(t, c) # 0
    BY <1>7, Constants DEF Clients
  <2>. QED
    BY <1>7, <2>1, LeftClosed
<1>12. ASSUME Left(t, c) # 0
       PROVE  /\ IsPool(p) /\ p.m_pool_size = pool[t].m_pool_size /\ p.first = pool[t].first
              /\ \A i \in 0..pool[t].m_pool_size :
                   i # conn[Left(t, c)].cor => p.second[i] = pool[t].second[i]
  <2>. DEFINE k == conn[Left(t, c)].cor
              r == ReturnCoroutine(pool[t], k)
  <2>1. p = r
    BY <1>12, Zenon
  <2>2. IsPool(pool[t])
    BY DEF Inv, Typed, IOTyped
  <2>. HIDE DEF k
  <2>3. /\ IsPool(r) /\ r.m_pool_size = pool[t].m_pool_size /\ r.first = pool[t].first
        /\ \A i \in 0..pool[t].m_pool_size : i # k => r.second[i] = pool[t].second[i]
    BY <2>2, ReturnOne
  <2>. QED
    BY <2>1, <2>3, Zenon DEF k
<1>8. IsPool(p) /\ p.m_pool_size = pool[t].m_pool_size /\ p.first = pool[t].first
  <2>1. IsPool(pool[t])
    BY DEF Inv, Typed, IOTyped
  <2>2. CASE Left(t, c) = 0
    BY <2>1, <2>2, Zenon
  <2>3. CASE Left(t, c) # 0
    BY <1>12, <2>3, Zenon
  <2>. QED
    BY <2>2, <2>3, Zenon
<1>9. ASSUME pool[t].m_pool_size = PoolSize, NEW d \in Clients, Live(d), conn[d].t = t, conns[d] = conn[d]
      PROVE  p.second[conn[d].cor]
  <2>1. conn[d].cor \in 0..pool[t].m_pool_size /\ pool[t].second[conn[d].cor] /\ IsPool(pool[t])
    BY <1>9, Zenon DEF Inv, Dispatched, Typed, IOTyped
  <2>2. CASE Left(t, c) = 0
    BY <2>1, <2>2, Zenon
  <2>3. CASE Left(t, c) # 0
    <3>1. /\ Left(t, c) \in Clients /\ conn[Left(t, c)].st = "Closed" /\ conn[Left(t, c)].t = t
          /\ Left(t, c) # c
      BY <2>3, LeftClosed, Zenon
    <3>2. d # Left(t, c)
      BY <1>5, <1>9, <3>1
    <3>3. Live(Left(t, c))
      BY <3>1 DEF Live
    <3>4. conn[d].cor # conn[Left(t, c)].cor
      BY <1>9, <3>1, <3>2, <3>3, Zenon DEF Inv, Dispatched
    <3>6. p.second[conn[d].cor] = pool[t].second[conn[d].cor]
      BY <1>12, <2>1, <2>3, <3>4, Zenon
    <3>. QED
      BY <2>1, <3>6, Zenon
  <2>. QED
    BY <2>2, <2>3, Zenon
<1>10. conns[c].addr >= c
  BY <1>1, <1>3, <1>4 DEF Clients
<1>11. ASSUME NEW d \in Clients, d # c
       PROVE  \/ conns[d] = conn[d]
              \/ /\ conn[d].st = "Closed" /\ conn[d].t = t /\ conn[d].fd = conn[c].fd
                 /\ conns[d].st = "freed" /\ conns[d].fd = conn[d].fd /\ conns[d].fe = conn[d].fe
                 /\ conns[d].t = conn[d].t
  BY <1>2, <1>5, <1>7, <1>11, Zenon
<1>. QED
  BY <1>4, <1>6, <1>8, <1>9, <1>10, <1>11, Zenon DEF Frees

LEMMA AddClientInv ==
  ASSUME Counting, Inv, NEW t \in Threads, AddClient(t)
  PROVE  Inv'
<1>0. PICK c : c = Head(tasks[t])[2]
  BY Zenon
<1>. DEFINE p == IF Left(t, c) = 0 THEN pool[t] ELSE ReturnCoroutine(pool[t], conn[Left(t, c)].cor)
            conns == [d \in Clients |->
                        IF d = c THEN [conn[c] EXCEPT !.addr = peer]
                        ELSE IF d = Left(t, c) THEN [conn[d] EXCEPT !.st = "freed"] ELSE conn[d]]
<1>1. tasks[t] # <<>> /\ Head(tasks[t])[1] = "add" /\ iopc[t] = "loop"
  BY Zenon DEF AddClient, HasTask
<1>2. FirstTask(t, "add", c)
  BY <1>0, <1>1, FirstOfKind, Zenon
<1>3. Left(t, c) = 0 \/ conn[Left(t, c)].st = "Closed"
  BY <1>2, LeftClosed
<1>4. Frees(t, c, conns, p)
  BY <1>2, FreesLeft
<1>5. \/ /\ conn[c].fd \in DOMAIN fds_ /\ Construct(t, c, p, conns, fds_[conn[c].fd])
         /\ UNCHANGED <<iopc, fds_, copied, raced>>
      \/ AddGrows(t, c, conns, p)
  <2>1. CASE conn[c].fd \in DOMAIN fds_
    BY <1>0, <1>3, <2>1, Zenon DEF AddClient, Left
  <2>2. CASE conn[c].fd \notin DOMAIN fds_
    BY <1>0, <1>3, <2>2, Zenon DEF AddClient, Left, AddGrows
  <2>. QED
    BY <2>1, <2>2, Zenon
<1>. HIDE DEF p, conns
<1>6. CASE /\ conn[c].fd \in DOMAIN fds_ /\ Construct(t, c, p, conns, fds_[conn[c].fd])
           /\ UNCHANGED <<iopc, fds_, copied, raced>>
  <2>1. FdsStep(t)
    BY <1>1, <1>6, FdsUnchanged, Zenon
  <2>2. fds_[conn[c].fd] \in FdEvents
    BY <1>6, EventOf DEF Inv, Typed, FdsTyped
  <2>3. conn[c].fd \in DOMAIN fds_' /\ fds_[conn[c].fd] = fds_'[conn[c].fd]
    BY <1>6
  <2>. QED
    BY <1>2, <1>4, <1>6, <2>1, <2>2, <2>3, ConstructInv, Zenon
<1>7. CASE AddGrows(t, c, conns, p)
  BY <1>2, <1>4, <1>7, AddGrowInv
<1>. QED
  BY <1>5, <1>6, <1>7
=============================================================================

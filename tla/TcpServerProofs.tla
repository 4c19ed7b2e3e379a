-------------------------- MODULE TcpServerProofs ---------------------------
(***************************************************************************)
(* Proofs about TcpServer, for every number of clients, io threads, fds,   *)
(* coroutines and buckets: the invariant holds in every state, and what the *)
(* runs check follows from it.                                             *)
(***************************************************************************)
EXTENDS TcpServerAddClient, TcpServerCoroutines, FiniteSetTheorems, WellFoundedInduction

-----------------------------------------------------------------------------
(* The wheels hold clients that have been accepted.                        *)
WheelKnown ==
  \A t \in Threads : \A b \in 1..Buckets : \A c \in wheel_[t][b] : c <= peer

LEMMA WheelInit == Init => WheelKnown
BY DEF Init, WheelKnown

LEMMA AcceptedAfter ==
  ASSUME Inv, backlog # <<>>
  PROVE  Head(backlog) > peer /\ Head(backlog) \in Nat /\ peer \in Nat
<1>1. backlog \in Seq(1..arrived) /\ arrived \in Nat /\ peer \in Nat
  BY DEF Inv, Typed, MainTyped
<1>2. 1 \in DOMAIN backlog /\ Head(backlog) = backlog[1] /\ backlog[1] \in 1..arrived
  BY <1>1
<1>. QED
  BY <1>1, <1>2 DEF Inv, Arrivals

(* A client joins the wheel of a thread.                                   *)
Joins(t, c) == wheel_' = [wheel_ EXCEPT ![t] = Fresh(@, c)]

Turns(t) == wheel_' = [wheel_ EXCEPT ![t] = Popped(@)]

LEMMA WheelCases ==
  ASSUME Inv, [Next]_vars
  PROVE  \/ wheel_' = wheel_ /\ (peer' = peer \/ (peer' > peer /\ peer' \in Nat))
         \/ peer' = peer /\ \E t \in Threads, c \in Clients : c <= peer /\ Joins(t, c)
         \/ peer' = peer /\ \E t \in Threads : Turns(t)
<1>1. CASE UNCHANGED vars
  BY <1>1, Zenon DEF vars, mainVars, ioVars
<1>2. CASE Arrive \/ GiveUp \/ Start \/ ListenReady \/ AcceptFails \/ AcceptAgain
  BY <1>2, Zenon
     DEF Arrive, GiveUp, Start, ListenReady, AcceptFails, AcceptAgain, mainVars, ioVars
<1>3. CASE AcceptHook
  <2>1. wheel_' = wheel_ /\ backlog # <<>> /\ peer' = Head(backlog)
    BY <1>3, Zenon DEF AcceptHook, Accept
  <2>. QED
    BY <2>1, AcceptedAfter
<1>4. ASSUME NEW t \in Threads, IOMain(t) PROVE wheel_' = wheel_ /\ peer' = peer
  BY <1>4, Zenon DEF IOMain, mainVars
<1>5. ASSUME NEW t \in Threads, NEW c, FirstTask(t, "add", c), NEW p, NEW conns, NEW fe,
             Construct(t, c, p, conns, fe)
      PROVE  peer' = peer /\ c \in Clients /\ c <= peer /\ Joins(t, c)
  <2>1. peer' = peer /\ Joins(t, c)
    BY <1>5, Zenon DEF Construct, mainVars, Joins
  <2>. QED
    BY <1>5, <2>1, FirstAdd
<1>6. ASSUME NEW t \in Threads, AddClient(t)
      PROVE  \/ wheel_' = wheel_ /\ peer' = peer
             \/ peer' = peer /\ \E c \in Clients : c <= peer /\ Joins(t, c)
  <2>1. tasks[t] # <<>> /\ Head(tasks[t])[1] = "add"
    BY <1>6, Zenon DEF AddClient, HasTask
  <2>2. FirstTask(t, "add", Head(tasks[t])[2])
    BY <2>1, FirstOfKind, Zenon
  <2>3. \/ wheel_' = wheel_ /\ peer' = peer
        \/ \E p, conns, fe : Construct(t, Head(tasks[t])[2], p, conns, fe)
    BY <1>6, Zenon DEF AddClient, mainVars
  <2>. QED
    BY <1>5, <2>2, <2>3, Zenon
<1>7. ASSUME NEW t \in Threads, NEW k, NEW fe, Listen(t, k, fe)
      PROVE  wheel_' = wheel_ /\ peer' = peer
  BY <1>7, Zenon DEF Listen, mainVars
<1>8. ASSUME NEW t \in Threads, GrowFds(t)
      PROVE  \/ wheel_' = wheel_ /\ peer' = peer
             \/ peer' = peer /\ \E c \in Clients : c <= peer /\ Joins(t, c)
  <2>1. tasks[t] # <<>>
    BY <1>8, Zenon DEF GrowFds, Inv, Growing
  <2>2. \/ wheel_' = wheel_ /\ peer' = peer
        \/ \E fe : Listen(t, Head(tasks[t])[2], fe)
        \/ Head(tasks[t])[1] = "add" /\ \E fe : Construct(t, Head(tasks[t])[2], pool[t], conn, fe)
    BY <1>8, Zenon DEF GrowFds, ioVars
  <2>3. Head(tasks[t])[1] = "add" => FirstTask(t, "add", Head(tasks[t])[2])
    BY <2>1, FirstOfKind, Zenon
  <2>. QED
    BY <1>5, <1>7, <2>2, <2>3, Zenon
<1>9. ASSUME NEW t \in Threads, RunCoroutine(t) PROVE wheel_' = wheel_ /\ peer' = peer
  <2>1. \/ wheel_' = wheel_ /\ peer' = peer
        \/ \E k, fe : Listen(t, k, fe)
    BY <1>9, Zenon DEF RunCoroutine, mainVars, ioVars
  <2>. QED
    BY <1>7, <2>1, Zenon
<1>10. ASSUME NEW t \in Threads, LoopFunc(t) PROVE peer' = peer /\ Turns(t)
  BY <1>10, Zenon DEF LoopFunc, mainVars, Turns
<1>11. ASSUME NEW t \in Threads, MainLoopTimerFunc(t) PROVE wheel_' = wheel_ /\ peer' = peer
  BY <1>11, Zenon DEF MainLoopTimerFunc, mainVars
<1>12. ASSUME NEW t \in Threads, NEW c \in Clients, Input(t, c)
       PROVE  \/ wheel_' = wheel_ /\ peer' = peer
              \/ peer' = peer /\ c <= peer /\ Joins(t, c)
  <2>1. conn[c].st = "Connected" /\ peer' = peer /\ (wheel_' = wheel_ \/ Joins(t, c))
    BY <1>12, Zenon DEF Input, Joins
  <2>2. ~ (c > peer)
    BY <2>1 DEF Inv, Arrivals
  <2>3. c \in Nat /\ peer \in Nat
    BY Constants DEF Clients, Inv, Typed, MainTyped
  <2>. QED
    BY <2>1, <2>2, <2>3
<1>13. ASSUME NEW t \in Threads, NEW c \in Clients, EndOfStream(t, c)
       PROVE  wheel_' = wheel_ /\ peer' = peer
  BY <1>13, Zenon DEF EndOfStream
<1>. QED
  BY <1>1, <1>2, <1>3, <1>4, <1>6, <1>8, <1>9, <1>10, <1>11, <1>12, <1>13, Zenon
     DEF Next, MainStep, IOStep, Undefined

LEMMA WheelNext ==
  ASSUME Inv, WheelKnown, [Next]_vars
  PROVE  WheelKnown'
<1>1. /\ wheel_ \in [Threads -> Seq(SUBSET Clients)] /\ \A t \in Threads : Len(wheel_[t]) = Buckets
      /\ peer \in Nat /\ Clients \subseteq Nat /\ Buckets \in Nat \ {0}
  BY Constants DEF Inv, Typed, IOTyped, MainTyped, Clients
<1>2. CASE wheel_' = wheel_ /\ (peer' = peer \/ (peer' > peer /\ peer' \in Nat))
  <2>. SUFFICES ASSUME NEW t \in Threads, NEW b \in 1..Buckets, NEW c \in wheel_[t][b]
                PROVE  c <= peer'
    BY <1>2, Zenon DEF WheelKnown
  <2>1. c <= peer
    BY DEF WheelKnown
  <2>2. c \in Nat
    <3>1. wheel_[t] \in Seq(SUBSET Clients) /\ b \in 1..Len(wheel_[t])
      BY <1>1
    <3>2. wheel_[t][b] \in SUBSET Clients
      BY <3>1
    <3>. QED
      BY <1>1, <3>2, Zenon
  <2>. QED
    BY <1>1, <1>2, <2>1, <2>2
<1>3. ASSUME NEW t \in Threads, NEW c \in Clients, c <= peer, Joins(t, c), peer' = peer
      PROVE  WheelKnown'
  <2>. SUFFICES ASSUME NEW u \in Threads, NEW b \in 1..Buckets, NEW d \in wheel_'[u][b]
                PROVE  d <= peer
    BY <1>3, Zenon DEF WheelKnown
  <2>1. wheel_'[t] = Fresh(wheel_[t], c) /\ (u # t => wheel_'[u] = wheel_[u])
    BY <1>1, <1>3, Zenon DEF Joins
  <2>2. /\ Fresh(wheel_[t], c)[Buckets] = wheel_[t][Buckets] \cup {c}
        /\ \A i \in 1..Buckets : i # Buckets => Fresh(wheel_[t], c)[i] = wheel_[t][i]
    BY <1>1, FreshWheel
  <2>3. d \in wheel_[u][b] \/ d = c
    BY <2>1, <2>2, Zenon
  <2>. QED
    BY <1>3, <2>3, Zenon DEF WheelKnown
<1>4. ASSUME NEW t \in Threads, Turns(t), peer' = peer
      PROVE  WheelKnown'
  <2>. SUFFICES ASSUME NEW u \in Threads, NEW b \in 1..Buckets, NEW d \in wheel_'[u][b]
                PROVE  d <= peer
    BY <1>4, Zenon DEF WheelKnown
  <2>1. wheel_'[t] = Popped(wheel_[t]) /\ (u # t => wheel_'[u] = wheel_[u])
    BY <1>1, <1>4, Zenon DEF Turns
  <2>2. Popped(wheel_[t])[Buckets] = {} /\ \A i \in 1..Buckets - 1 : Popped(wheel_[t])[i] = wheel_[t][i + 1]
    BY <1>1, PoppedWheel
  <2>3. b # Buckets => b \in 1..Buckets - 1 /\ b + 1 \in 1..Buckets
    BY <1>1
  <2>4. \E i \in 1..Buckets : d \in wheel_[u][i]
    <3>1. CASE u # t
      BY <2>1, <3>1, Zenon
    <3>2. CASE u = t /\ b = Buckets
      BY <2>1, <2>2, <3>2, Zenon
    <3>3. CASE u = t /\ b # Buckets
      BY <2>1, <2>2, <2>3, <3>3, Zenon
    <3>. QED
      BY <3>1, <3>2, <3>3
  <2>. QED
    BY <2>4, Zenon DEF WheelKnown
<1>. QED
  BY <1>2, <1>3, <1>4, WheelCases, Zenon

-----------------------------------------------------------------------------
(* The container of the FdEvents grows.                                    *)

LEMMA MaxPair ==
  ASSUME NEW a \in Int, NEW b \in Int
  PROVE  Max({a, b}) = IF a >= b THEN a ELSE b
BY DEF Max

(* A growth keeps what the copy holds.                                     *)
Regrown(t, f, fd, n, tmps) ==
  /\ n = Max({(3 * Cardinality(DOMAIN f)) \div 2, fd})
  /\ tmps = [i \in 0..n - 1 |-> IF i \in DOMAIN f THEN f[i] ELSE <<i, t>>]

LEMMA GrownFds ==
  ASSUME Counting, NEW t \in Threads, NEW f, IsFds(f), NEW fd \in Nat,
         NEW n, NEW tmps, Regrown(t, f, fd, n, tmps)
  PROVE  /\ n \in Nat /\ IsFds(tmps) /\ (fd < n => fd \in DOMAIN tmps)
         /\ \A i \in DOMAIN tmps : tmps[i] \in FdEvents
         /\ \A i \in DOMAIN f : i \in DOMAIN tmps /\ tmps[i] = f[i]
         /\ (\A i \in DOMAIN f : f[i][1] = i) => \A i \in DOMAIN tmps : tmps[i][1] = i
<1>1. PICK m \in Nat : f \in [0..m - 1 -> FdEvents]
  BY Zenon DEF IsFds
<1>2. Cardinality(DOMAIN f) = m
  <2>1. Cardinality(0..m - 1) = m
    BY <1>1 DEF Counting
  <2>. QED
    BY <1>1, <2>1
<1>3. n \in Nat /\ n >= m /\ n >= fd
  <2>1. (3 * m) \div 2 \in Int /\ (3 * m) \div 2 >= m
    BY <1>1
  <2>. QED
    BY <1>1, <1>2, <2>1, MaxPair DEF Regrown
<1>4. ASSUME NEW i \in 0..n - 1 PROVE <<i, t>> \in FdEvents /\ <<i, t>>[1] = i
  BY <1>3 DEF FdEvents
<1>5. ASSUME NEW i \in 0..n - 1
      PROVE  tmps[i] = (IF i \in DOMAIN f THEN f[i] ELSE <<i, t>>) /\ tmps[i] \in FdEvents
  BY <1>1, <1>4, Zenon DEF Regrown
<1>6. tmps \in [0..n - 1 -> FdEvents] /\ DOMAIN tmps = 0..n - 1
  BY <1>5, Zenon DEF Regrown
<1>7. IsFds(tmps)
  BY <1>3, <1>6, Zenon DEF IsFds
<1>8. fd < n => fd \in DOMAIN tmps
  BY <1>3, <1>6
<1>9. \A i \in DOMAIN f : i \in DOMAIN tmps /\ tmps[i] = f[i]
  BY <1>1, <1>3, <1>5, <1>6
<1>10. (\A i \in DOMAIN f : f[i][1] = i) => \A i \in DOMAIN tmps : tmps[i][1] = i
  BY <1>4, <1>5, <1>6, Zenon
<1>11. \A i \in DOMAIN tmps : tmps[i] \in FdEvents
  BY <1>5, <1>6, Zenon
<1>. QED
  BY <1>3, <1>7, <1>8, <1>9, <1>10, <1>11, Zenon

(* getFdEvent() goes on: whatever it was called for, the container gets    *)
(* what its copy had.                                                      *)
Replaced(t, tmps) ==
  /\ fds_' = tmps /\ copied' = [copied EXCEPT ![t] = <<>>]
  /\ raced' = IF fds_ = copied[t] THEN raced ELSE "yes"
  /\ iopc' = [iopc EXCEPT ![t] = "loop"]

LEMMA GrowStep ==
  ASSUME Counting, Inv, NEW t \in Threads, iopc[t] = "grow", NEW fd \in Nat, NEW n, NEW tmps,
         Regrown(t, copied[t], fd, n, tmps), fd < n, Replaced(t, tmps)
  PROVE  FdsStep(t) /\ tmps[fd] \in FdEvents /\ fd \in DOMAIN fds_' /\ tmps[fd] = fds_'[fd]
<1>1. IsFds(copied[t])
  BY DEF Inv, Typed, FdsTyped
<1>2. /\ IsFds(tmps) /\ fd \in DOMAIN tmps /\ tmps[fd] \in FdEvents
      /\ \A i \in DOMAIN copied[t] : i \in DOMAIN tmps /\ tmps[i] = copied[t][i]
      /\ (\A i \in DOMAIN copied[t] : copied[t][i][1] = i) => \A i \in DOMAIN tmps : tmps[i][1] = i
  BY <1>1, GrownFds
<1>3. DOMAIN copied = Threads /\ iopc \in [Threads -> {"new", "loop", "grow"}]
  BY DEF Inv, Typed, FdsTyped, IOTyped
<1>4. /\ DOMAIN copied' = Threads /\ \A u \in Threads : u # t => copied'[u] = copied[u]
      /\ iopc'[t] = "loop" /\ \A u \in Threads : u # t => iopc'[u] = iopc[u]
      /\ iopc' \in [Threads -> {"new", "loop", "grow"}]
  BY <1>3, Zenon DEF Replaced
<1>5. raced' \in {"no", "yes"}
  BY DEF Replaced, Inv, Typed, FdsTyped
<1>6. ASSUME raced' = "no"
      PROVE  /\ raced = "no"
             /\ \A i \in DOMAIN fds_ : i \in DOMAIN fds_' /\ fds_'[i] = fds_[i]
             /\ \A i \in DOMAIN fds_' : fds_'[i][1] = i
  <2>1. fds_ = copied[t] /\ raced = "no"
    BY <1>6 DEF Replaced
  <2>2. \A i \in DOMAIN fds_ : fds_[i][1] = i
    BY <2>1, Zenon DEF Inv, Events
  <2>. QED
    BY <1>2, <2>1, <2>2, Zenon DEF Replaced
<1>7. \A u \in Threads : iopc'[u] = "grow" => u # t /\ iopc[u] = "grow" /\ copied'[u] = copied[u]
  BY <1>4, Zenon
<1>8. fds_' = tmps /\ IsFds(fds_')
  BY <1>2, Zenon DEF Replaced
<1>. QED
  BY <1>2, <1>4, <1>5, <1>6, <1>7, <1>8, Zenon DEF FdsStep

LEMMA GrowFdsInv ==
  ASSUME Counting, Inv, NEW t \in Threads, GrowFds(t)
  PROVE  Inv'
<1>0. PICK c : c = IF Head(tasks[t])[1] = "add" THEN Head(tasks[t])[2]
                   ELSE cofunc[t][Head(tasks[t])[2]].c
  BY Zenon
<1>1. PICK n, tmps : Regrown(t, copied[t], conn[c].fd, n, tmps)
  BY Zenon DEF Regrown
<1>2. iopc[t] = "grow"
  BY Zenon DEF GrowFds
<1>3. IF conn[c].fd < n
      THEN /\ IF Head(tasks[t])[1] = "add" THEN Construct(t, c, pool[t], conn, tmps[conn[c].fd])
              ELSE Listen(t, Head(tasks[t])[2], tmps[conn[c].fd])
           /\ Replaced(t, tmps)
      ELSE /\ mpc' = "dead"
           /\ UNCHANGED <<cur, ready, peer, size_, index_, callbacks, netVars, fdVars, ioVars, conn>>
  BY <1>0, <1>1, Zenon DEF GrowFds, Regrown, Replaced
<1>4. tasks[t] # <<>>
  BY <1>2 DEF Inv, Growing
<1>5. Head(tasks[t])[1] \in {"add", "run"} /\ FirstTask(t, Head(tasks[t])[1], Head(tasks[t])[2])
  BY <1>4, FirstOfKind
<1>6. CASE ~ (conn[c].fd < n)
  <2>1. ready' \in {"no", "yes"}
    BY <1>3, <1>6 DEF Inv, Typed, MainTyped
  <2>. QED
    BY <1>3, <1>6, <2>1, MainWaits
<1>7. CASE conn[c].fd < n /\ Head(tasks[t])[1] = "add"
  <2>1. FirstTask(t, "add", c)
    BY <1>0, <1>5, <1>7, Zenon
  <2>2. conn[c].fd \in Nat
    BY <2>1, FirstAdd, Constants
  <2>3. /\ FdsStep(t) /\ tmps[conn[c].fd] \in FdEvents
        /\ conn[c].fd \in DOMAIN fds_' /\ tmps[conn[c].fd] = fds_'[conn[c].fd]
    <3>1. Replaced(t, tmps)
      BY <1>3, <1>7, Zenon
    <3>. QED
      BY <1>1, <1>2, <1>7, <2>2, <3>1, GrowStep
  <2>4. Construct(t, c, pool[t], conn, tmps[conn[c].fd])
    BY <1>3, <1>7, Zenon
  <2>5. Frees(t, c, conn, pool[t])
    BY <1>2, <2>1, FreesNone, Zenon
  <2>. QED
    BY <2>1, <2>3, <2>4, <2>5, ConstructInv, Zenon
<1>8. CASE conn[c].fd < n /\ Head(tasks[t])[1] = "run"
  <2>0. PICK k : k = Head(tasks[t])[2]
    BY Zenon
  <2>1. FirstTask(t, "run", k) /\ c = cofunc[t][k].c
    BY <1>0, <1>5, <1>8, <2>0, Zenon
  <2>2. cofunc[t][k].s = "ready"
    BY <1>2, <1>8, <2>0, Zenon DEF Inv, Growing
  <2>3. conn[c].fd \in Nat
    <3>1. c \in Clients
      BY <2>1, FirstRun
    <3>. QED
      BY <3>1, ConnFd, Zenon
  <2>4. /\ FdsStep(t) /\ tmps[conn[c].fd] \in FdEvents
        /\ conn[c].fd \in DOMAIN fds_' /\ tmps[conn[c].fd] = fds_'[conn[c].fd]
    <3>1. Replaced(t, tmps)
      BY <1>3, <1>8, Zenon
    <3>. QED
      BY <1>1, <1>2, <1>8, <2>3, <3>1, GrowStep
  <2>5. Listen(t, k, tmps[conn[c].fd])
    BY <1>3, <1>8, <2>0
  <2>. QED
    BY <2>1, <2>2, <2>4, <2>5, ListenInv, Zenon
<1>. QED
  BY <1>5, <1>6, <1>7, <1>8, Zenon

-----------------------------------------------------------------------------
(* The invariant always holds.                                             *)

LEMMA CountingHolds == Counting
<1>1. ASSUME NEW m \in Nat PROVE Cardinality(0..m - 1) = m
  BY FS_Interval
<1>2. ASSUME NEW S \in SUBSET Nat, S # {} PROVE Min(S) \in S
  <2>. DEFINE R == {ss \in Nat \X Nat : ss[1] < ss[2]}
  <2>1. IsWellFoundedOn(R, Nat)
    BY NatLessThanWellFounded, Zenon DEF OpToRel
  <2>2. PICK n \in S : \A m \in S : <<m, n>> \notin R
    <3>. HIDE DEF R
    <3>. QED
      BY <1>2, <2>1, WFMin, Zenon
  <2>3. ASSUME NEW m \in S PROVE n <= m
    <3>1. <<m, n>> \in Nat \X Nat /\ <<m, n>>[1] = m /\ <<m, n>>[2] = n
      OBVIOUS
    <3>2. ~ (m < n)
      BY <2>2, <3>1, Zenon
    <3>. QED
      BY <3>2
  <2>. QED
    BY <2>3, Zenon DEF Min
<1>3. ASSUME NEW c \in Clients, NEW f \in [Fds -> Clients \ {c}]
      PROVE  \E x, y \in Fds : x # y /\ f[x] = f[y]
  <2>1. IsFiniteSet(Clients) /\ Cardinality(Clients) = MaxClients
    BY Constants, FS_Interval DEF Clients
  <2>2. IsFiniteSet(Clients \ {c}) /\ Cardinality(Clients \ {c}) = MaxClients - 1
    BY <2>1, FS_RemoveElement, Zenon
  <2>3. Cardinality(Clients \ {c}) < Cardinality(Fds) /\ IsFiniteSet(Fds)
    <3>1. Cardinality(Fds) \in Nat
      BY Constants, FS_CardinalityType, Zenon
    <3>2. MaxClients \in Nat /\ Cardinality(Fds) >= MaxClients
      BY Constants, ServerAssumption, Zenon
    <3>3. MaxClients - 1 < Cardinality(Fds)
      BY <3>1, <3>2
    <3>. QED
      BY <2>2, <3>3, Constants, Zenon
  <2>. QED
    BY <2>2, <2>3, FS_PigeonHole, Zenon
<1>. QED
  BY <1>1, <1>2, <1>3, Zenon DEF Counting

LEMMA NewPoolOK ==
  ASSUME NEW n \in Nat \ {0, 1}
  PROVE  /\ IsPool(NewPool(n))
         /\ NewPool(n).m_pool_size = n /\ NewPool(n).first = [i \in 0..n |-> i]
<1>1. [i \in 0..n |-> i] \in [0..n -> 0..n] /\ [i \in 0..n |-> FALSE] \in [0..n -> BOOLEAN]
  OBVIOUS
<1>. QED
  BY <1>1 DEF NewPool, IsPool

(* The invariant holds at the start.                                       *)
LEMMA InitInv == Init => Inv
<1>. SUFFICES ASSUME Init PROVE Inv
  OBVIOUS
<1>1. MainTyped
  BY Constants DEF Init, MainTyped
<1>2. ConnTyped
  BY Constants DEF Init, ConnTyped, ConnRecords, States, Open
<1>3. IOTyped
  <2>. DEFINE w == [b \in 1..Buckets |-> {}]
  <2>1. w \in Seq(SUBSET Clients) /\ Len(w) = Buckets
    <3>1. w \in [1..Buckets -> SUBSET Clients] /\ DOMAIN w = 1..Buckets
      OBVIOUS
    <3>. HIDE DEF w
    <3>. QED
      BY <3>1, Constants
  <2>2. IsPool(NewPool(PoolSize))
    <3>1. PoolSize \in Nat \ {0, 1}
      BY Constants
    <3>. QED
      BY <3>1, NewPoolOK, Zenon
  <2>3. DOMAIN <<>> = {} /\ <<>> \in Seq(Tasks)
    OBVIOUS
  <2>4. [fd \in Fds |-> 0] \in [Fds -> 0..MaxClients]
    BY Constants
  <2>5. ASSUME NEW t \in Threads
        PROVE  /\ Len(wheel_[t]) = Buckets /\ IsPool(pool[t]) /\ DOMAIN cofunc[t] = {}
    BY <2>1, <2>2, <2>3, Zenon DEF Init
  <2>6. /\ iopc \in [Threads -> {"new", "loop", "grow"}]
        /\ tasks \in [Threads -> Seq(Tasks)]
        /\ clients_ \in [Threads -> [Fds -> 0..MaxClients]]
        /\ wheel_ \in [Threads -> Seq(SUBSET Clients)]
        /\ DOMAIN pool = Threads /\ DOMAIN cofunc = Threads
        /\ epoll \in [Threads -> SUBSET Fds]
    BY <2>1, <2>3, <2>4 DEF Init
  <2>. QED
    BY <2>5, <2>6 DEF IOTyped
<1>4. FdsTyped
  <2>1. fds_ \in [0..FdSize - 1 -> FdEvents]
    BY Constants DEF Init, FdEvents
  <2>. QED
    BY <2>1, Constants, Zenon DEF Init, FdsTyped, IsFds
<1>5. Arrivals /\ Owned /\ Mapped /\ Addressed /\ OnWheel
  BY Constants DEF Init, Arrivals, Owned, Owner, Mapped, Addressed, Live, OnWheel
<1>6. AddQueued /\ RunQueued /\ Growing /\ Served
  BY DEF Init, AddQueued, RunQueued, Growing, Served
<1>7. Dispatched
  BY NewPoolOK, Constants DEF Init, Dispatched, Live
<1>8. Events
  BY DEF Init, Events, Reading, Open
<1>. QED
  BY <1>1, <1>2, <1>3, <1>4, <1>5, <1>6, <1>7, <1>8 DEF Inv, Typed

LEMMA StutterInv == ASSUME Inv, UNCHANGED vars PROVE Inv'
<1>1. UNCHANGED <<mpc, ready>> /\ UNCHANGED <<peer, index_, size_, netVars, fdVars, ioVars, conn>>
  BY DEF vars, mainVars
<1>2. mpc \in {"new", "cold", "call", "hook", "main", "dead"} /\ ready \in {"no", "yes"}
  BY DEF Inv, Typed, MainTyped
<1>. QED
  BY <1>1, <1>2, MainWaits, Zenon

LEMMA NextInv == Inv /\ [Next]_vars => Inv'
<1>. SUFFICES ASSUME Inv, [Next]_vars PROVE Inv'
  OBVIOUS
<1>1. CASE UNCHANGED vars
  BY <1>1, StutterInv, Zenon
<1>2. CASE Arrive \/ GiveUp \/ MainStep
  BY <1>2, CountingHolds, ArriveInv, GiveUpInv, MainStepInv, Zenon
<1>3. ASSUME NEW t \in Threads, IOStep(t) \/ LoopFunc(t) \/ MainLoopTimerFunc(t) PROVE Inv'
  BY <1>3, CountingHolds, IOMainInv, AddClientInv, GrowFdsInv, RunCoroutineInv, LoopFuncInv, SweepInv, Zenon
     DEF IOStep
<1>4. ASSUME NEW t \in Threads, NEW c \in Clients, Input(t, c) \/ EndOfStream(t, c) PROVE Inv'
  BY <1>4, InputInv, EndOfStreamInv, Zenon
<1>. QED
  BY <1>1, <1>2, <1>3, <1>4, Zenon DEF Next, Undefined

LEMMA Safe == Spec => [](Inv /\ WheelKnown)
<1>1. Inv /\ WheelKnown /\ [Next]_vars => Inv' /\ WheelKnown'
  BY NextInv, WheelNext, Zenon
<1>. QED
  BY <1>1, InitInv, WheelInit, PTL DEF Spec

-----------------------------------------------------------------------------
(* What it says.                                                           *)

LEMMA AcceptValid == Inv => AcceptStillValid
<1>. SUFFICES ASSUME Inv PROVE AcceptStillValid
  OBVIOUS
<1>1. ASSUME NEW t \in Threads, HasTask(t, "add")
      PROVE  Left(t, Head(tasks[t])[2]) = 0 \/ conn[Left(t, Head(tasks[t])[2])].st = "Closed"
  <2>1. FirstTask(t, "add", Head(tasks[t])[2])
    <3>1. tasks[t] \in Seq(Tasks) /\ tasks[t] # <<>> /\ Head(tasks[t])[1] = "add"
      BY <1>1 DEF HasTask, Inv, Typed, IOTyped
    <3>2. Head(tasks[t]) \in Tasks
      BY <3>1
    <3>. QED
      BY <3>1, <3>2, TaskKinds, Zenon DEF FirstTask
  <2>. QED
    BY <2>1, LeftClosed
<1>2. \A c \in Clients : Live(c) => conn[c].addr >= c
  BY DEF Inv, Addressed
<1>. QED
  BY <1>1, <1>2, Zenon DEF AcceptStillValid, Left

LEMMA TypesHold == Inv /\ WheelKnown => TypeOK
<1>. SUFFICES ASSUME Inv, WheelKnown PROVE TypeOK
  OBVIOUS
<1>0. peer \in 0..arrived /\ arrived \in Nat
  BY DEF Inv, Typed, MainTyped
<1>1. ASSUME NEW c \in Clients, c <= peer PROVE c \in 1..arrived /\ c \in 0..arrived
  BY <1>0, <1>1, Constants DEF Clients
<1>2. ASSUME NEW c \in Clients, conn[c].st # "none" PROVE c <= peer
  <2>1. ~ (c > peer)
    BY <1>2 DEF Inv, Arrivals
  <2>. QED
    BY <1>0, <2>1, Constants DEF Clients
<1>3. ASSUME NEW t \in Threads PROVE clients_[t] \in [Fds -> 0..arrived]
  <2>1. clients_[t] \in [Fds -> 0..MaxClients]
    BY DEF Inv, Typed, IOTyped
  <2>2. ASSUME NEW fd \in Fds PROVE clients_[t][fd] \in 0..arrived
    <3>1. CASE clients_[t][fd] = 0
      BY <1>0, <3>1
    <3>2. CASE clients_[t][fd] # 0
      <4>1. clients_[t][fd] \in Clients
        BY <3>2, Entries
      <4>2. conn[clients_[t][fd]].st # "none"
        BY <3>2 DEF Inv, Mapped, Live
      <4>. QED
        BY <1>1, <1>2, <4>1, <4>2, Zenon
    <3>. QED
      BY <3>1, <3>2
  <2>. QED
    BY <2>1, <2>2, Zenon
<1>4. ASSUME NEW t \in Threads
      PROVE  DOMAIN wheel_[t] = 1..Buckets /\ UNION Range(wheel_[t]) \subseteq 1..arrived
  <2>1. wheel_[t] \in Seq(SUBSET Clients) /\ Len(wheel_[t]) = Buckets
    BY DEF Inv, Typed, IOTyped
  <2>2. DOMAIN wheel_[t] = 1..Buckets /\ \A b \in 1..Buckets : wheel_[t][b] \in SUBSET Clients
    BY <2>1
  <2>3. ASSUME NEW b \in 1..Buckets, NEW c \in wheel_[t][b] PROVE c \in 1..arrived
    BY <1>1, <2>2, <2>3, Zenon DEF WheelKnown
  <2>. QED
    BY <2>2, <2>3, Zenon DEF Range
<1>5. ASSUME NEW t \in Threads PROVE Range(pool[t].first) \subseteq Slots(pool[t])
  <2>1. pool[t].first \in [0..pool[t].m_pool_size -> 0..pool[t].m_pool_size]
    <3>1. IsPool(pool[t])
      BY DEF Inv, Typed, IOTyped
    <3>. QED
      BY <3>1, PoolFields
  <2>. QED
    BY <2>1, Zenon DEF Range, Slots
<1>6. ASSUME NEW t \in Threads
      PROVE  iopc[t] \in {"new", "loop", "grow"} /\ epoll[t] \subseteq Fds
  BY DEF Inv, Typed, IOTyped
<1>7. ASSUME NEW c \in Clients
      PROVE  /\ conn[c].st \in {"none", "Connected", "HalfClosing", "Closed", "freed"}
             /\ conn[c].t < size_ /\ conn[c].idle \in 0..Buckets
  <2>1. conn[c].st \in States /\ conn[c].t \in 0..size_ - 1 /\ conn[c].idle \in 0..Buckets
    BY ConnFields DEF ConnRecords
  <2>2. size_ \in Nat
    BY DEF Inv, Typed, MainTyped
  <2>. QED
    BY <2>1, <2>2 DEF States, Open
<1>8. /\ mpc \in {"new", "cold", "call", "hook", "main", "dead"} /\ ready \in {"no", "yes"}
      /\ peer \in 0..arrived /\ size_ \in 1..MaxThreads /\ index_ \in -1..size_
      /\ opened \subseteq Fds
  BY Zenon DEF Inv, Typed, MainTyped
<1>. QED
  BY <1>3, <1>4, <1>5, <1>6, <1>7, <1>8, Zenon DEF TypeOK

LEMMA OneUserHolds == Inv /\ WheelKnown => OneUser
<1>. SUFFICES ASSUME Inv, WheelKnown PROVE OneUser
  OBVIOUS
<1>1. ASSUME NEW c \in Clients, NEW d \in Clients, c # d, Live(c), Live(d), conn[c].t = conn[d].t,
             pool[conn[c].t].m_pool_size = PoolSize
      PROVE  conn[c].cor # conn[d].cor
  <2>1. conn[c].t \in Threads
    BY ConnThread
  <2>. QED
    BY <1>1, <2>1, Zenon DEF Inv, Dispatched
<1>. QED
  BY <1>1, TypesHold, Zenon DEF OneUser

(* addClient() runs later than the accept and on another thread, and yet   *)
(* what it finds is valid, for every number of clients, threads and fds:   *)
(* it never meets an open connection under the fd it was given, and the    *)
(* address it reads from the acceptor is never that of an earlier client.  *)
THEOREM AcceptValidAlways == Spec => []AcceptStillValid
BY Safe, AcceptValid, PTL

(* Unless two threads have grown the FdEventContainer from the same copy,  *)
(* a connection whose coroutine waits in read_hook is registered with the  *)
(* epoll of its own thread, although the FdEvents are shared by all        *)
(* threads and outlive the connections that used them.                     *)
THEOREM WaitingRegisteredAlways == Spec => []WaitingIsRegistered
<1>1. Inv => WaitingIsRegistered
  <2>1. \A c \in Clients :
          /\ conn[c].st \in {"Connected", "HalfClosing"}
          /\ conn[c].cor \in InCoFunc(conn[c].t) /\ cofunc[conn[c].t][conn[c].cor].c = c
          => Reading(c)
    BY Zenon DEF Reading, Open
  <2>. QED
    BY <2>1, Zenon DEF Inv, Events, WaitingIsRegistered
<1>. QED
  BY <1>1, Safe, PTL

(* No coroutine serves two connections as long as its pool has not grown,  *)
(* whatever the order in which connections are closed, swept, replaced     *)
(* under their fd and added; and the tables have their types.              *)
THEOREM OneUserAlways == Spec => []OneUser
BY Safe, OneUserHolds, PTL

(* The time wheel shuts down the connections that have received nothing    *)
(* for as many turns as it has buckets, and no others.                     *)
THEOREM ShutWhenIdleAlways == Spec => []ShutWhenIdle
<1>1. Inv => ShutWhenIdle
  BY Zenon DEF Inv, OnWheel, ShutWhenIdle
<1>. QED
  BY <1>1, Safe, PTL
=============================================================================

--------------------------- MODULE TcpClientProofs ---------------------------
(* Theorems about net::TcpClient for any number of retries, calls and      *)
(* sleeps.                                                                 *)
EXTENDS TcpClient, FiniteSetTheorems, SequenceTheorems, TLAPS

Connecting == {"try", "cwait", "cback"}
Talking == {"write", "wwait", "wback", "read", "rwait", "rback"}
Gone == {"done", "smashed", "nowhere"}

Labels == Connecting \cup Talking \cup Gone \cup {"app", "swait"}
SockStates == {"new", "progress", "established", "failed", "connected", "closed"}
TimerStates == {"armed", "unarmed", "due", "cancelled", "over"}

Basic ==
  /\ pc \in Labels
  /\ state_ \in {"NotConnected", "Connected", "Closed"}
  /\ sock \in SockStates
  /\ ret \in {"none", "NET_NOERROR", "NET_CONN_FAILED"}

(* What connect_hook() and the state of the connection say of the socket;  *)
(* a call that has not returned has no result yet.                         *)
Linked ==
  /\ pc \in Talking => state_ = "Connected"
  /\ pc \in Connecting => state_ # "Connected"
  /\ state_ = "Connected" /\ pc \notin Gone => sock = "connected"
  /\ pc \in Connecting \cup Talking => ret = "none"

(* connect(2) says 0 or EISCONN only of an established connection, and     *)
(* leaves an established one alone.                                        *)
LEMMA ConnectResult ==
  ASSUME sock \in SockStates, NEW r \in Connect
  PROVE  /\ r[1] \in SockStates
         /\ r[2] \in {"0", "EISCONN"} => r[1] = "connected"
         /\ sock = "connected" => r[1] = "connected"
BY DEF Connect, SockStates

LEMMA LinkedStep ==
  Basic /\ Linked /\ ReplyOrClosed /\ [Next]_vars => Basic' /\ Linked' /\ ReplyOrClosed'
<1> SUFFICES ASSUME Basic, Linked, ReplyOrClosed, [Next]_vars
             PROVE  Basic' /\ Linked' /\ ReplyOrClosed'
  OBVIOUS
<1> USE DEF Basic, Linked, ReplyOrClosed, Labels, Connecting, Talking, Gone
<1>1. CASE Handshake \/ PeerActs \/ Expire \/ Poll \/ OnTimer
  BY <1>1 DEF Handshake, PeerActs, Expire, Poll, OnTimer, kernel, hist, SockStates
<1>2. CASE Resume
  BY <1>2 DEF Resume, Yielded, kernel
<1>3. CASE Sleep \/ Finish \/ SendAndRecv \/ NoTryLeft
  BY <1>3 DEF Sleep, Finish, SendAndRecv, NoTryLeft, kernel, hist, SockStates
<1>4. CASE Try
  <2>1. PICK r \in Connect :
          /\ sock' = r[1]
          /\ CASE r[2] = "0" -> state_' = "Connected" /\ pc' = "write"
               [] r[2] = "EINPROGRESS" -> pc' = "cwait" /\ UNCHANGED state_
               [] OTHER -> UNCHANGED <<pc, state_>>
    BY <1>4 DEF Try
  <2>2. pc = "try" /\ UNCHANGED <<ret, reply>>
    BY <1>4 DEF Try, hist
  <2>. QED
    BY <2>1, <2>2, ConnectResult
<1>5. CASE ConnectBack
  <2>1. PICK r \in Connect :
          /\ sock' = r[1]
          /\ IF Succeeded(r[2]) THEN state_' = "Connected" /\ pc' = "write"
             ELSE pc' = "try" /\ UNCHANGED state_
    BY <1>5 DEF ConnectBack
  <2>2. pc = "cback" /\ UNCHANGED <<ret, reply>>
    BY <1>5 DEF ConnectBack
  <2>. QED
    BY <2>1, <2>2, ConnectResult DEF Succeeded
<1>6. CASE Write
  BY <1>6 DEF Write, kernel, hist
<1>7. CASE Read \/ ReadBack
  BY <1>7 DEF Read, ReadBack, GotReply, ClearClient, kernel, SockStates
<1>8. CASE UNCHANGED vars
  BY <1>8 DEF vars, kernel, hist
<1>. QED
  BY <1>1, <1>2, <1>3, <1>4, <1>5, <1>6, <1>7, <1>8 DEF Next, Coroutine

LEMMA LinkedAlways == Spec => [](Basic /\ Linked /\ ReplyOrClosed)
<1>1. Init => Basic /\ Linked /\ ReplyOrClosed
  BY DEF Init, Basic, Linked, ReplyOrClosed, Labels, Connecting, Talking, Gone, SockStates
<1>. QED
  BY <1>1, LinkedStep, PTL DEF Spec

(* sendAndRecv() uses nothing but an established connection.               *)
THEOREM UsesConnection == Spec => []ConnectedIsEstablished
<1>1. Basic /\ Linked => ConnectedIsEstablished
  BY DEF Basic, Linked, ConnectedIsEstablished, Talking, Gone
<1>. QED
  BY <1>1, LinkedAlways, PTL

(* NET_NOERROR means a reply, or a closed connection.                      *)
THEOREM ReplyOrClose == Spec => []ReplyOrClosed
BY LinkedAlways, PTL
-----------------------------------------------------------------------------
(* The time-outs.  Only the connect_hook() that runs has one that can      *)
(* still expire.  One that was handed to the reactor before its frame went *)
(* away is among the late ones.  A Timer is in the round at most once.     *)
Armed(k) == timer[k].st \in {"armed", "due"}
Fired(i) == due[i][1] = "onTimer"
Handed(i) == due[i][1] = "timeout"

Owned ==
  /\ pc \in {"cwait", "cback"} => mine \in DOMAIN timer /\ timer[mine].for = "connect"
  /\ pc = "swait" => mine \in DOMAIN timer /\ timer[mine].for = "sleep"
  /\ pc \notin {"cwait", "cback", "swait", "smashed", "nowhere"} => mine = 0

Frames ==
  /\ \A k \in DOMAIN timer : timer[k].for = "connect" /\ Armed(k) => k = mine
  /\ \A i \in DOMAIN due :
       Handed(i) /\ timer[due[i][2]].for = "connect" => due[i][2] \in late \cup {mine}

Rounds ==
  /\ \A i \in DOMAIN due : Fired(i) => timer[due[i][2]].st \in {"due", "cancelled"}
  /\ \A i, j \in DOMAIN due : Fired(i) /\ Fired(j) /\ due[i][2] = due[j][2] => i = j

Timers == Seq([for : {"connect", "sleep"}, st : TimerStates])
Callbacks == ({"read", "write"} \X {0}) \cup ({"onTimer", "timeout"} \X (Nat \ {0}))

Shape ==
  /\ timer \in Timers /\ due \in Seq(Callbacks) /\ mine \in {0} \cup DOMAIN timer
  /\ \A i \in DOMAIN due : due[i][2] # 0 => due[i][2] \in DOMAIN timer

TimerInv == Shape /\ Owned /\ Frames /\ Rounds /\ NoTimeoutAfterReturn

(* What adding a Timer and what setting the state of one change.           *)
LEMMA TimerAdded ==
  ASSUME timer \in Timers, NEW f \in {"connect", "sleep"}, AddTimerEvent(f)
  PROVE  /\ timer' \in Timers /\ Len(timer') = Len(timer) + 1 /\ Len(timer) \in Nat
         /\ DOMAIN timer = 1..Len(timer) /\ DOMAIN timer' = 1..Len(timer) + 1
         /\ \A k \in DOMAIN timer : timer'[k] = timer[k]
         /\ timer'[Len(timer) + 1].for = f
<1>1. PICK st \in {"armed", "unarmed"} : timer' = Append(timer, [for |-> f, st |-> st])
  BY Zenon DEF AddTimerEvent
<1> DEFINE e == [for |-> f, st |-> st]
<1>2. e \in [for : {"connect", "sleep"}, st : TimerStates] /\ e.for = f
  BY DEF TimerStates
<1>3. QED
  BY <1>1, <1>2 DEF Timers

LEMMA TimerSet ==
  ASSUME timer \in Timers, NEW k \in DOMAIN timer, NEW x \in TimerStates,
         timer' = [timer EXCEPT ![k].st = x]
  PROVE  /\ timer' \in Timers /\ DOMAIN timer' = DOMAIN timer
         /\ \A j \in DOMAIN timer : timer'[j].for = timer[j].for
         /\ \A j \in DOMAIN timer \ {k} : timer'[j] = timer[j]
         /\ timer'[k].st = x
<1> DEFINE R == [for : {"connect", "sleep"}, st : TimerStates]
<1> DEFINE e == [timer[k] EXCEPT !.st = x]
<1>1. timer \in Seq(R) /\ k \in 1..Len(timer) /\ DOMAIN timer = 1..Len(timer)
  BY DEF Timers
<1>2. timer[k] \in R
  BY <1>1, ElementOfSeq, Zenon
<1>3. e \in R /\ e.for = timer[k].for /\ e.st = x
  BY <1>2
<1>4. timer' = [timer EXCEPT ![k] = e]
  OBVIOUS
<1> HIDE DEF e, R
<1>5. /\ timer' \in Seq(R)
      /\ \A j \in 1..Len(timer) : timer'[j] = IF j = k THEN e ELSE timer[j]
  BY <1>1, <1>3, <1>4, ExceptSeq
<1>6. DOMAIN timer' = DOMAIN timer
  BY <1>4
<1>. QED
  BY <1>1, <1>3, <1>5, <1>6 DEF Timers, R

(* epoll reports each Timer that is due once.                              *)
LEMMA RoundOnce ==
  ASSUME Shape, Poll
  PROVE  /\ due' \in Seq(Callbacks)
         /\ \A i \in DOMAIN due' : due'[i] \in Ready
         /\ \A i, j \in DOMAIN due' : due'[i] = due'[j] => i = j
<1> DEFINE F == [k \in 1..Len(timer) |-> <<"onTimer", k>>]
<1> DEFINE T == {<<"onTimer", k>> : k \in DOMAIN timer}
<1> DEFINE C == Cardinality(Ready)
<1>1. Len(timer) \in Nat /\ DOMAIN timer = 1..Len(timer)
  BY DEF Shape, Timers
<1>2. IsFiniteSet(T)
  <2>1. F \in Surjection(1..Len(timer), T)
    BY <1>1 DEF Surjection
  <2>. QED
    BY <2>1, <1>1, FS_Interval, FS_Surjection
<1>3. IsFiniteSet({<<"read", 0>>} \cup {<<"write", 0>>} \cup T)
  BY <1>2, FS_Singleton, FS_Union, Zenon
<1>4. Ready \subseteq {<<"read", 0>>} \cup {<<"write", 0>>} \cup T
  BY DEF Ready
<1>5. IsFiniteSet(Ready) /\ C \in Nat
  BY <1>3, <1>4, FS_Subset, FS_CardinalityType
<1>6. due' \in Surjection(1..C, Ready)
  BY DEF Poll, Surjection
<1>7. IsFiniteSet(1..C) /\ Cardinality(1..C) = C
  BY <1>5, FS_Interval
<1>8. due' \in Injection(1..C, Ready)
  BY <1>6, <1>7, FS_SurjSameCardinalityImpliesInj
<1>9. Ready \subseteq Callbacks
  BY <1>1 DEF Ready, Callbacks
<1>10. due' \in [1..C -> Ready] /\ IsInjective(due')
  BY <1>8 DEF Injection
<1>11. due' \in Seq(Callbacks)
  BY <1>5, <1>9, <1>10
<1>. QED
  BY <1>10, <1>11 DEF IsInjective

LEMMA ShapeFacts ==
  ASSUME Shape
  PROVE  /\ Len(timer) \in Nat /\ DOMAIN timer = 1..Len(timer)
         /\ Len(due) \in Nat /\ DOMAIN due = 1..Len(due)
         /\ \A k \in DOMAIN timer : timer[k].st \in TimerStates
         /\ \A i \in DOMAIN due : due[i] \in Callbacks
<1>1. timer \in Timers /\ due \in Seq(Callbacks)
  BY DEF Shape
<1>2. Len(timer) \in Nat /\ DOMAIN timer = 1..Len(timer)
  BY <1>1 DEF Timers
<1>3. Len(due) \in Nat /\ DOMAIN due = 1..Len(due)
  BY <1>1
<1>4. \A k \in 1..Len(timer) : timer[k] \in [for : {"connect", "sleep"}, st : TimerStates]
  BY <1>1, ElementOfSeq, Zenon DEF Timers
<1>5. \A i \in 1..Len(due) : due[i] \in Callbacks
  BY <1>1, ElementOfSeq
<1>. QED
  BY <1>2, <1>3, <1>4, <1>5

(* The first callback of the round is taken from it.                       *)
LEMMA DueTail ==
  ASSUME Shape, due # <<>>
  PROVE  /\ 1 \in DOMAIN due /\ Head(due) = due[1]
         /\ Tail(due) \in Seq(Callbacks) /\ Len(Tail(due)) = Len(due) - 1
         /\ DOMAIN Tail(due) = 1..Len(due) - 1
         /\ \A i \in DOMAIN Tail(due) : i + 1 \in DOMAIN due /\ Tail(due)[i] = due[i + 1]
<1>1. due \in Seq(Callbacks) /\ Len(due) \in Nat /\ DOMAIN due = 1..Len(due)
  BY ShapeFacts DEF Shape
<1>2. Len(due) > 0 /\ Head(due) = due[1]
  BY <1>1
<1>3. /\ Tail(due) \in Seq(Callbacks) /\ Len(Tail(due)) = Len(due) - 1
      /\ \A i \in 1..Len(Tail(due)) : Tail(due)[i] = due[i + 1]
  BY <1>1, HeadTailProperties
<1>4. DOMAIN Tail(due) = 1..Len(due) - 1
  BY <1>3
<1>. QED
  BY <1>1, <1>2, <1>3, <1>4

(* A step that leaves the Timers and the round alone.                      *)
LEMMA TimersAlone ==
  ASSUME TimerInv, UNCHANGED <<timer, due, mine, late>>,
         pc' = pc \/ (mine = 0 /\ pc' \notin {"cwait", "cback", "swait", "smashed"})
  PROVE  TimerInv'
BY DEF TimerInv, Shape, Owned, Frames, Rounds, NoTimeoutAfterReturn, Armed, Fired, Handed

(* A step that makes a new Timer for the coroutine to wait for.            *)
LEMMA TimerMade ==
  ASSUME TimerInv, mine = 0, UNCHANGED <<due, late>>,
         NEW f \in {"connect", "sleep"}, AddTimerEvent(f),
         pc' = IF f = "connect" THEN "cwait" ELSE "swait"
  PROVE  TimerInv'
<1>1. /\ timer' \in Timers /\ Len(timer') = Len(timer) + 1 /\ Len(timer) \in Nat
      /\ DOMAIN timer = 1..Len(timer) /\ DOMAIN timer' = 1..Len(timer) + 1
      /\ \A k \in DOMAIN timer : timer'[k] = timer[k]
      /\ timer'[Len(timer) + 1].for = f
  BY TimerAdded DEF TimerInv, Shape
<1>2. mine' = Len(timer) + 1
  BY <1>1 DEF AddTimerEvent
<1>3. \A i \in DOMAIN due : due[i][2] # 0 => due[i][2] \in DOMAIN timer /\ timer'[due[i][2]] = timer[due[i][2]]
  BY <1>1 DEF TimerInv, Shape
<1>4. \A i \in DOMAIN due : Handed(i) \/ Fired(i) => due[i][2] # 0
  BY ShapeFacts DEF TimerInv, Handed, Fired, Callbacks
<1>5. Shape'
  BY <1>1, <1>2, <1>3 DEF TimerInv, Shape
<1>6. Owned'
  BY <1>1, <1>2 DEF Owned
<1>7. Frames'
  <2>1. \A k \in DOMAIN timer' : timer'[k].for = "connect" /\ Armed(k)' => k = mine'
    BY <1>1, <1>2 DEF TimerInv, Frames, Armed
  <2>2. \A i \in DOMAIN due' :
          Handed(i)' /\ timer'[due'[i][2]].for = "connect" => due'[i][2] \in late' \cup {mine'}
    BY <1>3, <1>4 DEF TimerInv, Frames, Handed
  <2>. QED
    BY <2>1, <2>2 DEF Frames
<1>8. Rounds'
  BY <1>3, <1>4 DEF TimerInv, Rounds, Fired
<1>. QED
  BY <1>5, <1>6, <1>7, <1>8 DEF TimerInv, NoTimeoutAfterReturn

LEMMA TimersExpire ==
  ASSUME TimerInv, Expire
  PROVE  TimerInv'
<1>1. PICK k \in DOMAIN timer : timer[k].st = "armed" /\ timer' = [timer EXCEPT ![k].st = "due"]
  BY Zenon DEF Expire
<1>2. /\ timer' \in Timers /\ DOMAIN timer' = DOMAIN timer
      /\ \A j \in DOMAIN timer : timer'[j].for = timer[j].for
      /\ \A j \in DOMAIN timer \ {k} : timer'[j] = timer[j]
      /\ timer'[k].st = "due"
  BY <1>1, TimerSet, Zenon DEF TimerInv, Shape, TimerStates
<1>3. UNCHANGED <<pc, due, mine, late>>
  BY DEF Expire, hist
<1>4. \A i \in DOMAIN due : Handed(i) \/ Fired(i) => due[i][2] \in DOMAIN timer
  BY ShapeFacts DEF TimerInv, Shape, Handed, Fired, Callbacks
<1>5. Shape' /\ Owned'
  BY <1>2, <1>3 DEF TimerInv, Shape, Owned
<1>6. Frames'
  BY <1>1, <1>2, <1>3, <1>4 DEF TimerInv, Frames, Armed, Handed
<1>7. Rounds'
  BY <1>2, <1>3, <1>4 DEF TimerInv, Rounds, Fired
<1>. QED
  BY <1>3, <1>5, <1>6, <1>7 DEF TimerInv, NoTimeoutAfterReturn

LEMMA TimersPoll ==
  ASSUME TimerInv, Poll
  PROVE  TimerInv'
<1>1. /\ due' \in Seq(Callbacks)
      /\ \A i \in DOMAIN due' : due'[i] \in Ready
      /\ \A i, j \in DOMAIN due' : due'[i] = due'[j] => i = j
  BY RoundOnce DEF TimerInv
<1>2. UNCHANGED <<pc, timer, mine, late>>
  BY DEF Poll, hist
<1>3. \A e \in Ready : /\ e[1] # "timeout" /\ (e[2] # 0 => e[2] \in DOMAIN timer)
                       /\ e[1] = "onTimer" => e = <<"onTimer", e[2]>> /\ timer[e[2]].st = "due"
  BY DEF Ready
<1>4. Shape' /\ Owned'
  BY <1>1, <1>2, <1>3 DEF TimerInv, Shape, Owned
<1>5. Frames'
  BY <1>1, <1>2, <1>3 DEF TimerInv, Frames, Armed, Handed
<1>6. Rounds'
  BY <1>1, <1>2, <1>3 DEF Rounds, Fired
<1>. QED
  BY <1>2, <1>4, <1>5, <1>6 DEF TimerInv, NoTimeoutAfterReturn

(* The coroutine is resumed by the first callback of the round.            *)
LEMMA TimersResume ==
  ASSUME TimerInv, Resume
  PROVE  TimerInv'
<1> DEFINE k == Head(due)[2]
<1>1. due # <<>> /\ due' = Tail(due) /\ UNCHANGED <<timer, late>>
  BY DEF Resume
<1>2. /\ 1 \in DOMAIN due /\ Head(due) = due[1]
      /\ due' \in Seq(Callbacks) /\ Len(due) \in Nat
      /\ DOMAIN due' = 1..Len(due) - 1
      /\ \A i \in DOMAIN due' : i + 1 \in DOMAIN due /\ due'[i] = due[i + 1]
  BY <1>1, DueTail, ShapeFacts DEF TimerInv
<1>3. due[1] \in Callbacks /\ due[1][1] # "onTimer"
  BY <1>2, ShapeFacts DEF TimerInv, Resume
<1>4. k # 0 => Handed(1) /\ k \in DOMAIN timer
  BY <1>2, <1>3 DEF Callbacks, Handed, TimerInv, Shape
<1>5. \/ pc' = "smashed" /\ k # 0 /\ k # mine /\ timer[k].for = "connect" /\ mine' = mine
      \/ pc = "cwait" /\ pc' = "cback" /\ mine' = mine
      \/ pc = "wwait" /\ pc' = "wback" /\ mine' = mine
      \/ pc = "rwait" /\ pc' = "rback" /\ mine' = mine
      \/ pc = "swait" /\ pc' = "app" /\ mine' = 0
      \/ pc = "done" /\ pc' = "nowhere" /\ mine' = mine
  BY DEF Resume, Yielded
<1>6. NoTimeoutAfterReturn'
  <2>1. k # 0 /\ k # mine /\ timer[k].for = "connect" => k \in late
    BY <1>2, <1>4 DEF TimerInv, Frames
  <2>. QED
    BY <1>1, <1>5, <2>1 DEF NoTimeoutAfterReturn
<1>7. Owned'
  BY <1>1, <1>5 DEF TimerInv, Owned
<1>8. Frames'
  <2>1. mine' = mine \/ (mine \in DOMAIN timer /\ timer[mine].for = "sleep")
    BY <1>5 DEF TimerInv, Owned
  <2>2. \A j \in DOMAIN timer : timer[j].for = "connect" /\ Armed(j) => j = mine'
    BY <2>1 DEF TimerInv, Frames
  <2>3. \A i \in DOMAIN due :
          Handed(i) /\ timer[due[i][2]].for = "connect" => due[i][2] \in late \cup {mine'}
    BY <2>1 DEF TimerInv, Frames
  <2>. QED
    BY <1>1, <1>2, <2>2, <2>3 DEF Frames, Armed, Handed
<1>9. Rounds'
  BY <1>1, <1>2 DEF TimerInv, Rounds, Fired
<1>10. Shape'
  BY <1>1, <1>2, <1>5 DEF TimerInv, Shape
<1>. QED
  BY <1>6, <1>7, <1>8, <1>9, <1>10 DEF TimerInv

(* Timer::onTimer() takes itself from the round; an event that was not     *)
(* deleted goes to its end.                                                *)
LEMMA TimersOnTimer ==
  ASSUME TimerInv, OnTimer
  PROVE  TimerInv'
<1> DEFINE k == Head(due)[2]
<1> DEFINE m == Len(due)
<1>1. /\ due # <<>> /\ Head(due)[1] = "onTimer" /\ UNCHANGED <<pc, mine, late>>
      /\ \/ timer[k].st = "cancelled" /\ due' = Tail(due) /\ UNCHANGED timer
         \/ /\ timer[k].st # "cancelled" /\ due' = Append(Tail(due), <<"timeout", k>>)
            /\ timer' = [timer EXCEPT ![k].st = "over"]
  BY DEF OnTimer, hist
<1>2. /\ 1 \in DOMAIN due /\ Head(due) = due[1] /\ m \in Nat /\ DOMAIN due = 1..m
      /\ Tail(due) \in Seq(Callbacks) /\ Len(Tail(due)) = m - 1
      /\ DOMAIN Tail(due) = 1..m - 1
      /\ \A i \in DOMAIN Tail(due) : i + 1 \in DOMAIN due /\ Tail(due)[i] = due[i + 1]
  BY <1>1, DueTail, ShapeFacts DEF TimerInv
<1>3. Fired(1) /\ k \in DOMAIN timer /\ k \in Nat \ {0}
  <2>1. due[1] \in Callbacks /\ due[1][1] = "onTimer"
    BY <1>1, <1>2, ShapeFacts DEF TimerInv
  <2>. QED
    BY <1>2, <2>1 DEF Callbacks, Fired, TimerInv, Shape
<1>4. \A i \in DOMAIN due : Handed(i) \/ Fired(i) => due[i][2] \in DOMAIN timer
  BY ShapeFacts DEF TimerInv, Shape, Handed, Fired, Callbacks
<1>5. CASE timer[k].st = "cancelled"
  <2>1. due' = Tail(due) /\ UNCHANGED <<timer, pc, mine, late>>
    BY <1>1, <1>5
  <2>2. Shape' /\ Owned'
    BY <1>2, <2>1 DEF TimerInv, Shape, Owned
  <2>3. Frames'
    BY <1>2, <2>1 DEF TimerInv, Frames, Armed, Handed
  <2>4. Rounds'
    <3>1. \A i \in DOMAIN due' : i + 1 \in DOMAIN due /\ due'[i] = due[i + 1] /\ i \in Int
      BY <1>2, <2>1
    <3>2. \A i \in DOMAIN due' : Fired(i)' => Fired(i + 1)
      BY <3>1 DEF Fired
    <3>3. ASSUME NEW i \in DOMAIN due', NEW j \in DOMAIN due',
                 Fired(i)', Fired(j)', due'[i][2] = due'[j][2]
          PROVE  i = j
      <4>1. i + 1 = j + 1
        BY <3>1, <3>2, <3>3 DEF TimerInv, Rounds
      <4>. QED
        BY <3>1, <4>1
    <3>4. \A i \in DOMAIN due' : Fired(i)' => timer'[due'[i][2]].st \in {"due", "cancelled"}
      BY <2>1, <3>1, <3>2 DEF TimerInv, Rounds
    <3>. QED
      BY <3>3, <3>4 DEF Rounds
  <2>. QED
    BY <2>1, <2>2, <2>3, <2>4 DEF TimerInv, NoTimeoutAfterReturn
<1>6. CASE timer[k].st # "cancelled"
  <2>1. /\ due' = Append(Tail(due), <<"timeout", k>>) /\ timer' = [timer EXCEPT ![k].st = "over"]
        /\ UNCHANGED <<pc, mine, late>>
    BY <1>1, <1>6
  <2>2. timer[k].st = "due"
    BY <1>2, <1>3, <1>6 DEF TimerInv, Rounds
  <2>3. /\ timer' \in Timers /\ DOMAIN timer' = DOMAIN timer
        /\ \A j \in DOMAIN timer : timer'[j].for = timer[j].for
        /\ \A j \in DOMAIN timer \ {k} : timer'[j] = timer[j]
        /\ timer'[k].st = "over"
    BY <1>3, <2>1, TimerSet, Zenon DEF TimerInv, Shape, TimerStates
  <2>4. <<"timeout", k>> \in Callbacks
    BY <1>3 DEF Callbacks
  <2>5. /\ due' \in Seq(Callbacks) /\ Len(due') = m /\ DOMAIN due' = 1..m
        /\ \A i \in 1..m - 1 : i + 1 \in DOMAIN due /\ due'[i] = due[i + 1]
        /\ due'[m] = <<"timeout", k>>
    BY <1>2, <2>1, <2>4, AppendProperties
  <2>6. \A i \in DOMAIN due' : i = m \/ i \in 1..m - 1
    BY <1>2, <2>5
  <2>7. \A i \in 1..m - 1 : Fired(i)' => Fired(i + 1) /\ due[i + 1][2] \in DOMAIN timer \ {k}
    <3>1. \A i \in 1..m - 1 : Fired(i)' => Fired(i + 1)
      BY <2>5 DEF Fired
    <3>2. ASSUME NEW i \in 1..m - 1, Fired(i + 1) PROVE due[i + 1][2] # k
      <4>1. i + 1 \in DOMAIN due /\ i + 1 # 1
        BY <2>5
      <4>. QED
        BY <1>2, <1>3, <3>2, <4>1 DEF TimerInv, Rounds
    <3>. QED
      BY <1>4, <2>5, <3>1, <3>2
  <2>8. Shape'
    BY <1>3, <2>1, <2>3, <2>5, <2>6 DEF TimerInv, Shape
  <2>9. Owned'
    BY <2>1, <2>3 DEF TimerInv, Owned
  <2>10. Frames'
    <3>1. \A j \in DOMAIN timer' : timer'[j].for = "connect" /\ Armed(j)' => j = mine'
      BY <2>1, <2>3 DEF TimerInv, Frames, Armed
    <3>2. timer[k].for = "connect" => k = mine
      BY <1>3, <2>2 DEF TimerInv, Frames, Armed
    <3>3. ASSUME NEW i \in 1..m - 1, Handed(i)', timer'[due'[i][2]].for = "connect"
          PROVE  due'[i][2] \in late' \cup {mine'}
      BY <1>4, <2>1, <2>3, <2>5, <3>3 DEF TimerInv, Frames, Handed
    <3>4. timer'[due'[m][2]].for = "connect" => due'[m][2] \in late' \cup {mine'}
      BY <1>3, <2>1, <2>3, <2>5, <3>2
    <3>. QED
      BY <2>6, <3>1, <3>3, <3>4 DEF Frames
  <2>11. Rounds'
    <3>1. ~ Fired(m)'
      BY <2>5 DEF Fired
    <3>2. ASSUME NEW i \in 1..m - 1, Fired(i)'
          PROVE  timer'[due'[i][2]].st \in {"due", "cancelled"}
      <4>1. /\ i + 1 \in DOMAIN due /\ Fired(i + 1) /\ due'[i] = due[i + 1]
            /\ due[i + 1][2] \in DOMAIN timer \ {k}
        BY <2>5, <2>7, <3>2
      <4>2. timer[due[i + 1][2]].st \in {"due", "cancelled"}
        BY <4>1 DEF TimerInv, Rounds
      <4>. QED
        BY <2>3, <4>1, <4>2
    <3>3. ASSUME NEW i \in 1..m - 1, NEW j \in 1..m - 1,
                 Fired(i)', Fired(j)', due'[i][2] = due'[j][2]
          PROVE  i = j
      <4>1. /\ i + 1 \in DOMAIN due /\ Fired(i + 1) /\ due'[i] = due[i + 1]
            /\ j + 1 \in DOMAIN due /\ Fired(j + 1) /\ due'[j] = due[j + 1]
        BY <2>5, <2>7, <3>3
      <4>2. i + 1 = j + 1
        BY <3>3, <4>1 DEF TimerInv, Rounds
      <4>. QED
        BY <4>2
    <3>4. \A i \in DOMAIN due' : Fired(i)' => i \in 1..m - 1
      BY <2>6, <3>1
    <3>. QED
      BY <3>2, <3>3, <3>4 DEF Rounds
  <2>. QED
    BY <2>1, <2>8, <2>9, <2>10, <2>11 DEF TimerInv, NoTimeoutAfterReturn
<1>. QED
  BY <1>5, <1>6

(* connect_hook() goes on: its time-out is deleted, or is late.            *)
LEMMA TimersConnectBack ==
  ASSUME TimerInv, ConnectBack
  PROVE  TimerInv'
<1> DEFINE x == IF timer[mine].st = "over" THEN "over" ELSE "cancelled"
<1>1. /\ pc = "cback" /\ pc' \in {"write", "try"} /\ mine' = 0 /\ UNCHANGED due
      /\ timer' = [timer EXCEPT ![mine].st = x]
      /\ late' = late \cup ({mine} \cap {due[i][2] : i \in {j \in DOMAIN due : due[j][1] = "timeout"}})
  BY Zenon DEF ConnectBack, DelTimerEvent
<1>2. mine \in DOMAIN timer /\ timer[mine].for = "connect"
  BY <1>1 DEF TimerInv, Owned
<1>3. x \in TimerStates /\ x \in {"over", "cancelled"}
  BY DEF TimerStates
<1> HIDE DEF x
<1>4. /\ timer' \in Timers /\ DOMAIN timer' = DOMAIN timer
      /\ \A j \in DOMAIN timer : timer'[j].for = timer[j].for
      /\ \A j \in DOMAIN timer \ {mine} : timer'[j] = timer[j]
      /\ timer'[mine].st = x
  BY <1>1, <1>2, <1>3, TimerSet, Zenon DEF TimerInv, Shape
<1>5. \A i \in DOMAIN due : Handed(i) \/ Fired(i) => due[i][2] \in DOMAIN timer
  BY ShapeFacts DEF TimerInv, Shape, Handed, Fired, Callbacks
<1>6. Shape' /\ Owned'
  BY <1>1, <1>4 DEF TimerInv, Shape, Owned
<1>7. Frames'
  <2>1. \A k \in DOMAIN timer' : timer'[k].for = "connect" /\ Armed(k)' => k = mine'
    BY <1>3, <1>4 DEF TimerInv, Frames, Armed
  <2>2. ASSUME NEW i \in DOMAIN due, Handed(i), timer[due[i][2]].for = "connect"
        PROVE  due[i][2] \in late'
    <3>1. due[i][2] \in late \cup {mine}
      BY <2>2 DEF TimerInv, Frames
    <3>. QED
      BY <1>1, <2>2, <3>1 DEF Handed
  <2>. QED
    BY <1>1, <1>4, <1>5, <2>1, <2>2 DEF Frames, Handed
<1>8. Rounds'
  <2>1. ASSUME NEW i \in DOMAIN due, Fired(i)
        PROVE  timer'[due[i][2]].st \in {"due", "cancelled"}
    <3>1. due[i][2] \in DOMAIN timer /\ timer[due[i][2]].st \in {"due", "cancelled"}
      BY <1>5, <2>1 DEF TimerInv, Rounds
    <3>. QED
      BY <1>4, <3>1 DEF x
  <2>. QED
    BY <1>1, <2>1 DEF TimerInv, Rounds, Fired
<1>. QED
  BY <1>1, <1>6, <1>7, <1>8 DEF TimerInv, NoTimeoutAfterReturn

LEMMA TimersTry ==
  ASSUME TimerInv, Try
  PROVE  TimerInv'
<1>1. pc = "try" /\ mine = 0 /\ UNCHANGED <<due, late>>
  BY DEF TimerInv, Owned, Try, hist
<1>2. \/ pc' = "cwait" /\ AddTimerEvent("connect")
      \/ pc' \in {"write", "try"} /\ UNCHANGED <<timer, mine>>
  <2>1. PICK r \in Connect :
          CASE r[2] = "0" -> pc' = "write" /\ UNCHANGED <<timer, mine>>
            [] r[2] = "EINPROGRESS" -> pc' = "cwait" /\ AddTimerEvent("connect")
            [] OTHER -> UNCHANGED <<pc, timer, mine>>
    BY DEF Try
  <2>. QED
    BY <1>1, <2>1
<1>3. CASE pc' = "cwait" /\ AddTimerEvent("connect")
  BY <1>1, <1>3, TimerMade
<1>4. CASE pc' \in {"write", "try"} /\ UNCHANGED <<timer, mine>>
  BY <1>1, <1>4, TimersAlone
<1>. QED
  BY <1>2, <1>3, <1>4

LEMMA TimersStep == TimerInv /\ [Next]_vars => TimerInv'
<1> SUFFICES ASSUME TimerInv, [Next]_vars
             PROVE  TimerInv'
  OBVIOUS
<1>1. CASE Handshake \/ PeerActs \/ UNCHANGED vars
  <2>1. UNCHANGED <<pc, timer, due, mine, late>>
    BY <1>1 DEF Handshake, PeerActs, vars, hist
  <2>. QED
    BY <2>1, TimersAlone
<1>2. CASE Finish \/ SendAndRecv \/ NoTryLeft \/ Write \/ Read \/ ReadBack
  <2>1. /\ pc \in {"app", "try", "write", "wback", "read", "rback"}
        /\ pc' \in {"done", "write", "try", "app", "read", "wwait", "rwait"}
        /\ UNCHANGED <<timer, due, mine, late>>
    BY <1>2 DEF Finish, SendAndRecv, NoTryLeft, Write, Read, ReadBack, hist
  <2>2. mine = 0
    BY <2>1 DEF TimerInv, Owned
  <2>. QED
    BY <2>1, <2>2, TimersAlone
<1>3. CASE Sleep
  <2>1. mine = 0 /\ UNCHANGED <<due, late>> /\ AddTimerEvent("sleep") /\ pc' = "swait"
    BY <1>3 DEF Sleep, TimerInv, Owned
  <2>. QED
    BY <2>1, TimerMade
<1>. QED
  BY <1>1, <1>2, <1>3, TimersExpire, TimersPoll, TimersOnTimer, TimersResume,
     TimersConnectBack, TimersTry DEF Next, Coroutine

(* No time-out runs on the frame of a connect_hook() that has returned,    *)
(* except one handed over in the round in which the connection was made,   *)
(* whatever the number of retries, calls and sleeps.                       *)
THEOREM NoLateTimeout == Spec => []NoTimeoutAfterReturn
<1>1. Init => TimerInv
  BY DEF Init, TimerInv, Shape, Timers, Owned, Frames, Rounds, NoTimeoutAfterReturn
<1>2. TimerInv => NoTimeoutAfterReturn
  BY DEF TimerInv
<1>. QED
  BY <1>1, <1>2, TimersStep, PTL DEF Spec
-----------------------------------------------------------------------------
(* Every try makes at most one Timer: what is left of the tries of this    *)
(* call and of the calls to come bounds the Timers still to be made.       *)
Left == IF pc = "try" THEN n ELSE IF pc \in {"cwait", "cback"} THEN n - 1 ELSE 0
Ahead == MaxRetry * (MaxCalls - calls)
Potential == Len(timer) + Left + Ahead - sleeps

Counts ==
  /\ n \in 0..MaxRetry /\ calls \in 0..MaxCalls /\ sleeps \in 0..MaxSleeps
  /\ pc \in {"cwait", "cback"} => n > 0
  /\ listen \subseteq {"read", "write"}

LEMMA CallSpent ==
  ASSUME NEW r \in Nat, NEW c \in Nat, NEW d \in Nat
  PROVE  r * (c - (d + 1)) = r * (c - d) - r /\ r * (c - d) \in Int
OBVIOUS

(* A step makes no more Timers than it spends tries and sleeps.            *)
LEMMA CountsStep ==
  TimerInv /\ Counts /\ [Next]_vars => Counts' /\ Potential' \in Int /\ Potential' <= Potential
<1> SUFFICES ASSUME TimerInv, Counts, [Next]_vars
             PROVE  Counts' /\ Potential' \in Int /\ Potential' <= Potential
  OBVIOUS
<1>0. Len(timer) \in Nat /\ MaxRetry \in Nat /\ MaxCalls \in Nat /\ MaxSleeps \in Nat
  BY ShapeFacts, ClientAssumption DEF TimerInv
<1>1. n \in Int /\ Len(timer) \in Int /\ Left \in Int /\ Ahead \in Int /\ sleeps \in Int
  BY <1>0 DEF Counts, Left, Ahead
<1>2. UNCHANGED calls => Ahead' = Ahead
  BY <1>1 DEF Ahead
<1>3. CASE Handshake \/ PeerActs \/ Expire \/ Poll \/ OnTimer \/ UNCHANGED vars
  <2>1. UNCHANGED <<pc, n, calls, sleeps, listen>>
    BY <1>3 DEF Handshake, PeerActs, Expire, Poll, OnTimer, vars, hist
  <2>2. Len(timer') = Len(timer)
    BY <1>3 DEF Handshake, PeerActs, Expire, Poll, OnTimer, vars, TimerInv, Shape, Timers
  <2>3. Counts'
    BY <2>1 DEF Counts
  <2>4. Len(timer') = Len(timer) /\ Left' = Left /\ sleeps' = sleeps
    BY <1>1, <2>1, <2>2 DEF Left
  <2>. QED
    BY <1>1, <1>2, <2>1, <2>3, <2>4 DEF Potential
<1>4. CASE Resume
  <2>1. UNCHANGED <<timer, n, calls, sleeps, listen>>
    BY <1>4 DEF Resume
  <2>2. /\ pc \in {"cwait", "wwait", "rwait", "swait", "done"}
        /\ pc' \in {"smashed", "cback", "wback", "rback", "app", "nowhere"}
        /\ pc' = "cback" => pc = "cwait"
    BY <1>4 DEF Resume, Yielded
  <2>3. Counts'
    BY <2>1, <2>2 DEF Counts
  <2>4. Left' \in Int /\ Left' <= Left
    BY <1>1, <2>1, <2>2 DEF Left, Counts
  <2>. QED
    BY <1>1, <1>2, <2>1, <2>3, <2>4 DEF Potential
<1>5. CASE Sleep
  <2>1. Len(timer') = Len(timer) + 1
    BY <1>5, TimerAdded DEF Sleep, TimerInv, Shape
  <2>2. /\ pc = "app" /\ pc' = "swait" /\ sleeps' = sleeps + 1 /\ sleeps < MaxSleeps
        /\ UNCHANGED <<n, calls, listen>>
    BY <1>5 DEF Sleep
  <2>3. Counts'
    BY <1>0, <2>2 DEF Counts
  <2>4. Left' = Left
    BY <2>2 DEF Left
  <2>. QED
    BY <1>1, <1>2, <2>1, <2>2, <2>3, <2>4 DEF Potential
<1>6. CASE SendAndRecv
  <2>1. /\ pc = "app" /\ pc' \in {"write", "try"} /\ n' = MaxRetry
        /\ calls' = calls + 1 /\ calls < MaxCalls /\ UNCHANGED <<timer, sleeps, listen>>
    BY <1>6 DEF SendAndRecv, Tries
  <2>2. Ahead' = Ahead + (-MaxRetry)
    <3>1. MaxRetry * (MaxCalls - (calls + 1)) = MaxRetry * (MaxCalls - calls) - MaxRetry
      BY <1>0, CallSpent DEF Counts
    <3>. QED
      BY <1>0, <1>1, <2>1, <3>1 DEF Ahead
  <2>3. Counts'
    BY <1>0, <2>1 DEF Counts
  <2>4. PICK b \in {0, MaxRetry} : Left' = Left + b
    BY <1>0, <2>1 DEF Left
  <2>5. b \in Int /\ -MaxRetry \in Int /\ 0 + b + (-MaxRetry) <= 0
    BY <1>0, <2>4
  <2>6. Len(timer') = Len(timer) /\ sleeps' = sleeps
    BY <1>1, <2>1
  <2>. QED
    BY <1>1, <2>2, <2>3, <2>4, <2>5, <2>6 DEF Potential
<1>7. CASE Try
  <2>1. PICK r \in Connect :
          CASE r[2] = "0" -> pc' = "write" /\ UNCHANGED <<n, listen, timer>>
            [] r[2] = "EINPROGRESS" ->
                 /\ pc' = "cwait" /\ listen' = listen \cup {"write"}
                 /\ AddTimerEvent("connect") /\ UNCHANGED n
            [] OTHER -> n' = n - 1 /\ UNCHANGED <<pc, listen, timer>>
    BY <1>7 DEF Try
  <2>2. pc = "try" /\ n > 0 /\ UNCHANGED <<calls, sleeps>>
    BY <1>7 DEF Try, hist
  <2>3. \/ pc' = "write" /\ UNCHANGED <<n, listen, timer>>
        \/ pc' = "cwait" /\ listen' = listen \cup {"write"} /\ n' = n /\ AddTimerEvent("connect")
        \/ pc' = "try" /\ n' = n - 1 /\ UNCHANGED <<listen, timer>>
    BY <2>1, <2>2
  <2>4. CASE pc' = "write" /\ UNCHANGED <<n, listen, timer>>
    <3>1. Counts'
      BY <2>2, <2>4 DEF Counts
    <3>2. /\ Left' = Left + (-n) /\ -n \in Int /\ 0 + (-n) + 0 <= 0
          /\ Len(timer') = Len(timer) /\ sleeps' = sleeps
      BY <1>1, <2>2, <2>4 DEF Left
    <3>. QED
      BY <1>1, <1>2, <2>2, <3>1, <3>2 DEF Potential
  <2>5. CASE pc' = "cwait" /\ listen' = listen \cup {"write"} /\ n' = n /\ AddTimerEvent("connect")
    <3>1. Len(timer') = Len(timer) + 1
      BY <2>5, TimerAdded DEF TimerInv, Shape
    <3>2. Counts'
      BY <2>2, <2>5 DEF Counts
    <3>3. Left' = Left + (-1) /\ sleeps' = sleeps
      BY <1>1, <2>2, <2>5 DEF Left
    <3>. QED
      BY <1>1, <1>2, <2>2, <3>1, <3>2, <3>3 DEF Potential
  <2>6. CASE pc' = "try" /\ n' = n - 1 /\ UNCHANGED <<listen, timer>>
    <3>1. Counts'
      BY <1>0, <2>2, <2>6 DEF Counts
    <3>2. Left' = Left + (-1) /\ Len(timer') = Len(timer) /\ sleeps' = sleeps
      BY <1>1, <2>2, <2>6 DEF Left
    <3>. QED
      BY <1>1, <1>2, <2>2, <3>1, <3>2 DEF Potential
  <2>. QED
    BY <2>3, <2>4, <2>5, <2>6
<1>8. CASE ConnectBack
  <2>1. Len(timer') = Len(timer)
    BY <1>8 DEF ConnectBack, DelTimerEvent, TimerInv, Shape, Timers
  <2>2. /\ pc = "cback" /\ UNCHANGED <<calls, sleeps>> /\ listen' = listen \ {"write"}
        /\ (pc' = "write" /\ n' = n) \/ (pc' = "try" /\ n' = n - 1)
    BY <1>8 DEF ConnectBack, DelListenEvents
  <2>3. Counts'
    BY <1>0, <2>2 DEF Counts
  <2>4. PICK b \in {0, 1 - n} : Left' = Left + b
    BY <1>1, <2>2 DEF Left
  <2>5. b \in Int /\ 0 + b + 0 <= 0 /\ Len(timer') = Len(timer) /\ sleeps' = sleeps
    BY <1>1, <2>1, <2>2, <2>4 DEF Counts
  <2>. QED
    BY <1>1, <1>2, <2>2, <2>3, <2>4, <2>5 DEF Potential
<1>9. CASE Finish \/ NoTryLeft \/ Write \/ Read \/ ReadBack
  <2>1. /\ UNCHANGED <<n, timer, calls, sleeps>>
        /\ pc \in {"app", "write", "wback", "read", "rback"} \/ (pc = "try" /\ n = 0)
        /\ pc' \in {"done", "app", "read", "wwait", "write", "rwait"}
        /\ listen' \subseteq listen \cup {"read", "write"}
    BY <1>9 DEF Finish, NoTryLeft, Write, Read, ReadBack, ClearClient, DelListenEvents, hist
  <2>2. Counts'
    BY <2>1 DEF Counts
  <2>3. Left' = Left /\ Len(timer') = Len(timer) /\ sleeps' = sleeps
    BY <1>1, <2>1 DEF Left
  <2>. QED
    BY <1>1, <1>2, <2>1, <2>2, <2>3 DEF Potential
<1>. QED
  BY <1>3, <1>4, <1>5, <1>6, <1>7, <1>8, <1>9 DEF Next, Coroutine

(* The inductive invariant of the whole client.                            *)
Budget == Potential \in Int /\ Potential + MaxSleeps <= MaxTimers

LEMMA BudgetStep == TimerInv /\ Counts /\ Budget /\ [Next]_vars => Counts' /\ Budget'
<1>1. MaxSleeps \in Int /\ MaxTimers \in Int
  BY ClientAssumption DEF MaxTimers
<1>. QED
  BY <1>1, CountsStep DEF Budget

(* The client's state keeps its type, and no more Timers are made than its *)
(* tries and sleeps account for.                                           *)
THEOREM ClientTypes == Spec => []TypeOK
<1>1. Init => Basic /\ Linked /\ ReplyOrClosed /\ TimerInv /\ Counts /\ Budget
  <2>1. Init => Basic /\ Linked /\ ReplyOrClosed
    BY DEF Init, Basic, Linked, ReplyOrClosed, Labels, Connecting, Talking, Gone, SockStates
  <2>2. Init => TimerInv
    BY DEF Init, TimerInv, Shape, Timers, Owned, Frames, Rounds, NoTimeoutAfterReturn
  <2>3. Init => Counts /\ Budget
    BY ClientAssumption DEF Init, Counts, Budget, Potential, Ahead, Left, MaxTimers
  <2>. QED
    BY <2>1, <2>2, <2>3
<1>2. Basic /\ TimerInv /\ Counts /\ Budget => TypeOK
  <2> SUFFICES ASSUME Basic, TimerInv, Counts, Budget PROVE TypeOK
    OBVIOUS
  <2>1. Len(timer) \in Nat /\ mine \in 0..Len(timer)
    BY ShapeFacts DEF TimerInv, Shape
  <2>2. Ahead \in Nat /\ MaxTimers \in Nat
    BY ClientAssumption DEF Counts, Ahead, MaxTimers
  <2>3. Left \in Nat
    BY ClientAssumption DEF Counts, Left
  <2>4. sleeps \in Nat /\ sleeps <= MaxSleeps /\ MaxSleeps \in Nat
    BY ClientAssumption DEF Counts
  <2>5. Len(timer) <= MaxTimers
    BY <2>1, <2>2, <2>3, <2>4 DEF Budget, Potential
  <2>. QED
    BY <2>1, <2>5 DEF TypeOK, Basic, Counts, Labels, Connecting, Talking, Gone, SockStates
<1>. QED
  BY <1>1, <1>2, LinkedStep, TimersStep, BudgetStep, PTL DEF Spec
-----------------------------------------------------------------------------
(* The sleeps.  A Timer hands its event over once; before the client is    *)
(* connected, the fd is registered only while a connect_hook() waits, its  *)
(* callback comes before the time-outs of its round, and the only sleep    *)
(* with a Timer to come is the one that goes on.                           *)
HandedOnce ==
  /\ \A i \in DOMAIN due : Handed(i) => timer[due[i][2]].st = "over"
  /\ \A i, j \in DOMAIN due : Handed(i) /\ Handed(j) /\ due[i][2] = due[j][2] => i = j

OnFd(i) == due[i][2] = 0
Asleep(k) == timer[k].for = "sleep"

OneWaits ==
  /\ listen \subseteq {"write"} /\ (listen # {} => pc \in {"cwait", "cback"} \cup Gone)
  /\ \A i \in DOMAIN due : OnFd(i) =>
       /\ pc \in {"cwait"} \cup Gone
       /\ \A j \in DOMAIN due : Handed(j) => i < j
       /\ \A j \in DOMAIN due : OnFd(j) => i = j

OneSleeps ==
  /\ \A k \in DOMAIN timer : Asleep(k) /\ Armed(k) => k = mine
  /\ \A i \in DOMAIN due : ~ OnFd(i) /\ Asleep(due[i][2]) => due[i][2] = mine

Undisturbed == state_ = "NotConnected" => OneWaits /\ OneSleeps /\ woken # "other"

Sleepers == TimerInv /\ Linked /\ HandedOnce /\ Undisturbed

LEMMA SleepersDue ==
  ASSUME Sleepers
  PROVE  /\ \A i \in DOMAIN due : ~ OnFd(i) => due[i][2] \in DOMAIN timer
         /\ \A i \in DOMAIN due : ~ OnFd(i) <=> Handed(i) \/ Fired(i)
         /\ \A i \in DOMAIN due : ~ (Handed(i) /\ Fired(i))
<1>1. Shape
  BY DEF Sleepers, TimerInv
<1>2. \A i \in DOMAIN due : due[i] \in Callbacks
  BY <1>1, ShapeFacts
<1>. QED
  BY <1>1, <1>2 DEF Shape, Callbacks, OnFd, Handed, Fired

(* A step that leaves the Timers and the round alone.                      *)
LEMMA SleepersAlone ==
  ASSUME Sleepers, UNCHANGED <<timer, due, mine, woken>>,
         state_' = "NotConnected" =>
           /\ state_ = "NotConnected"
           /\ \/ UNCHANGED <<pc, listen>>
              \/ pc \notin {"cwait", "cback"} \cup Gone /\ listen' \subseteq listen
  PROVE  HandedOnce' /\ Undisturbed'
<1>1. HandedOnce'
  BY DEF Sleepers, HandedOnce, Handed
<1>2. ASSUME state_' = "NotConnected" PROVE OneWaits' /\ OneSleeps' /\ woken' # "other"
  <2>1. OneWaits /\ OneSleeps /\ woken # "other"
    BY <1>2 DEF Sleepers, Undisturbed
  <2>2. OneSleeps'
    BY <2>1 DEF OneSleeps, Asleep, Armed, OnFd
  <2>3. OneWaits'
    BY <1>2, <2>1, Zenon DEF OneWaits, OnFd, Handed
  <2>. QED
    BY <2>1, <2>2, <2>3
<1>. QED
  BY <1>1, <1>2 DEF Undisturbed

(* A step that makes a Timer: no sleep has one to come, as none goes on.   *)
LEMMA SleepersMade ==
  ASSUME Sleepers, mine = 0, UNCHANGED <<due, woken, state_>>,
         NEW f \in {"connect", "sleep"}, AddTimerEvent(f),
         pc \in {"app", "try"}, pc' = IF f = "connect" THEN "cwait" ELSE "swait",
         listen' \subseteq (IF f = "connect" THEN listen \cup {"write"} ELSE listen)
  PROVE  HandedOnce' /\ Undisturbed'
<1>1. /\ Len(timer') = Len(timer) + 1 /\ Len(timer) \in Nat
      /\ DOMAIN timer = 1..Len(timer) /\ DOMAIN timer' = 1..Len(timer) + 1
      /\ \A k \in DOMAIN timer : timer'[k] = timer[k]
  BY TimerAdded DEF Sleepers, TimerInv, Shape
<1>2. mine' = Len(timer) + 1
  BY <1>1 DEF AddTimerEvent
<1>3. \A i \in DOMAIN due : ~ OnFd(i) => timer'[due[i][2]] = timer[due[i][2]]
  BY <1>1, SleepersDue
<1>4. HandedOnce'
  BY <1>3, SleepersDue DEF Sleepers, HandedOnce, Handed
<1>5. ASSUME state_' = "NotConnected" PROVE OneWaits' /\ OneSleeps' /\ woken' # "other"
  <2>1. OneWaits /\ OneSleeps /\ woken # "other"
    BY <1>5 DEF Sleepers, Undisturbed
  <2>2. pc \notin {"cwait", "cback"} \cup Gone
    BY DEF Gone
  <2>3. \A i \in DOMAIN due : ~ OnFd(i)
    BY <2>1, <2>2 DEF OneWaits
  <2>4. \A i \in DOMAIN due : ~ Asleep(due[i][2])
    BY <2>1, <2>3 DEF OneSleeps, OnFd
  <2>5. OneSleeps'
    <3>1. 0 \notin DOMAIN timer
      BY <1>1
    <3>2. \A k \in DOMAIN timer : ~ (Asleep(k) /\ Armed(k))
      BY <2>1, <3>1, Zenon DEF OneSleeps
    <3>3. \A k \in DOMAIN timer : ~ (Asleep(k)' /\ Armed(k)')
      BY <1>1, <3>2, Zenon DEF Asleep, Armed
    <3>4. \A k \in DOMAIN timer' : k \in DOMAIN timer \/ k = mine'
      BY <1>1, <1>2
    <3>5. \A i \in DOMAIN due : timer'[due[i][2]].for # "sleep"
      BY <1>3, <2>3, <2>4, Zenon DEF Asleep
    <3>6. due' = due
      OBVIOUS
    <3>7. \A i \in DOMAIN due' : ~ Asleep(due[i][2])'
      BY <3>5, <3>6, Zenon DEF Asleep
    <3>. QED
      BY <3>3, <3>4, <3>7, Zenon DEF OneSleeps
  <2>6. OneWaits'
    <3>1. listen = {}
      BY <2>1, <2>2 DEF OneWaits
    <3>. QED
      BY <2>3, <3>1 DEF OneWaits, OnFd
  <2>. QED
    BY <2>1, <2>5, <2>6
<1>. QED
  BY <1>4, <1>5 DEF Undisturbed

LEMMA SleepersExpire ==
  ASSUME Sleepers, Expire
  PROVE  HandedOnce' /\ Undisturbed'
<1>1. PICK k \in DOMAIN timer : timer[k].st = "armed" /\ timer' = [timer EXCEPT ![k].st = "due"]
  BY Zenon DEF Expire
<1>2. /\ DOMAIN timer' = DOMAIN timer
      /\ \A j \in DOMAIN timer : timer'[j].for = timer[j].for
      /\ \A j \in DOMAIN timer \ {k} : timer'[j] = timer[j]
      /\ timer'[k].st = "due"
  BY <1>1, TimerSet, Zenon DEF Sleepers, TimerInv, Shape, TimerStates
<1>3. UNCHANGED <<pc, state_, listen, due, mine, woken>>
  BY DEF Expire, hist
<1>4. HandedOnce'
  BY <1>1, <1>2, <1>3, SleepersDue DEF Sleepers, HandedOnce, Handed
<1>5. ASSUME state_' = "NotConnected" PROVE OneWaits' /\ OneSleeps' /\ woken' # "other"
  <2>1. OneWaits /\ OneSleeps /\ woken # "other"
    BY <1>3, <1>5 DEF Sleepers, Undisturbed
  <2>2. OneWaits'
    BY <1>3, <2>1 DEF OneWaits, OnFd, Handed
  <2>3. OneSleeps'
    BY <1>1, <1>2, <1>3, <2>1, SleepersDue DEF OneSleeps, Asleep, Armed, OnFd
  <2>. QED
    BY <1>3, <2>1, <2>2, <2>3
<1>. QED
  BY <1>4, <1>5 DEF Undisturbed

LEMMA SleepersPoll ==
  ASSUME Sleepers, Poll
  PROVE  HandedOnce' /\ Undisturbed'
<1>1. /\ \A i \in DOMAIN due' : due'[i] \in Ready
      /\ \A i, j \in DOMAIN due' : due'[i] = due'[j] => i = j
  BY RoundOnce DEF Sleepers, TimerInv
<1>2. UNCHANGED <<pc, state_, listen, timer, mine, woken>> /\ Yielded
  BY DEF Poll, hist
<1>3. \A e \in Ready : /\ e[1] # "timeout"
                       /\ e[2] = 0 => \/ e = <<"read", 0>> /\ "read" \in listen
                                      \/ e = <<"write", 0>> /\ "write" \in listen
                       /\ e[2] # 0 => e[2] \in DOMAIN timer /\ timer[e[2]].st = "due"
  BY DEF Ready, Sleepers, TimerInv, Shape, Timers
<1>4. HandedOnce'
  BY <1>1, <1>3 DEF HandedOnce, Handed
<1>5. ASSUME state_' = "NotConnected" PROVE OneWaits' /\ OneSleeps' /\ woken' # "other"
  <2>1. OneWaits /\ OneSleeps /\ woken # "other"
    BY <1>2, <1>5 DEF Sleepers, Undisturbed
  <2>2. \A i \in DOMAIN due' : ~ Handed(i)'
    BY <1>1, <1>3 DEF Handed
  <2>3. \A i \in DOMAIN due' : OnFd(i)' => due'[i] = <<"write", 0>> /\ "write" \in listen
    BY <1>1, <1>3, <2>1 DEF OneWaits, OnFd
  <2>4. "write" \in listen => pc \in {"cwait"} \cup Gone
    BY <1>2, <2>1 DEF OneWaits, Yielded
  <2>5. OneWaits'
    BY <1>1, <1>2, <2>1, <2>2, <2>3, <2>4 DEF OneWaits
  <2>6. OneSleeps'
    BY <1>1, <1>2, <1>3, <2>1 DEF OneSleeps, Asleep, Armed, OnFd
  <2>. QED
    BY <1>2, <2>1, <2>5, <2>6
<1>. QED
  BY <1>4, <1>5 DEF Undisturbed

(* The first callback leaves the round.                                    *)
LEMMA SleepersTail ==
  ASSUME Sleepers, due # <<>>, due' = Tail(due), UNCHANGED timer
  PROVE  /\ 1 \in DOMAIN due /\ Head(due) = due[1]
         /\ \A i \in DOMAIN due' : /\ i \in Int /\ i + 1 \in DOMAIN due /\ i + 1 # 1
                                   /\ ~ (i + 1 < 1) /\ due'[i] = due[i + 1]
         /\ HandedOnce'
<1>1. /\ 1 \in DOMAIN due /\ Head(due) = due[1] /\ Len(due) \in Nat
      /\ DOMAIN due' = 1..Len(due) - 1
      /\ \A i \in DOMAIN due' : i + 1 \in DOMAIN due /\ due'[i] = due[i + 1]
  BY DueTail, ShapeFacts DEF Sleepers, TimerInv
<1>2. \A i \in DOMAIN due' : i \in Int /\ i + 1 # 1 /\ ~ (i + 1 < 1)
  BY <1>1
<1>3. ASSUME NEW i \in DOMAIN due', Handed(i)'
      PROVE  i + 1 \in DOMAIN due /\ Handed(i + 1) /\ due'[i] = due[i + 1]
  BY <1>1, <1>3, Zenon DEF Handed
<1>4. ASSUME NEW i \in DOMAIN due', NEW j \in DOMAIN due',
             Handed(i)', Handed(j)', due'[i][2] = due'[j][2]
      PROVE  i = j
  <2>1. /\ i + 1 \in DOMAIN due /\ Handed(i + 1) /\ due'[i] = due[i + 1]
        /\ j + 1 \in DOMAIN due /\ Handed(j + 1) /\ due'[j] = due[j + 1]
    BY <1>3, <1>4, Zenon
  <2>2. i + 1 = j + 1
    BY <1>4, <2>1, Zenon DEF Sleepers, HandedOnce
  <2>. QED
    BY <1>2, <2>2
<1>5. ASSUME NEW i \in DOMAIN due', Handed(i)' PROVE timer'[due'[i][2]].st = "over"
  <2>1. i + 1 \in DOMAIN due /\ Handed(i + 1) /\ due'[i] = due[i + 1]
    BY <1>3, <1>5, Zenon
  <2>. QED
    BY <2>1, Zenon DEF Sleepers, HandedOnce
<1>. QED
  BY <1>1, <1>2, <1>4, <1>5, Zenon DEF HandedOnce

LEMMA SleepersOnTimer ==
  ASSUME Sleepers, OnTimer
  PROVE  HandedOnce' /\ Undisturbed'
<1>. PICK k : k = Head(due)[2]
  BY Zenon
<1>. PICK m : m = Len(due)
  BY Zenon
<1>1. /\ due # <<>> /\ Head(due)[1] = "onTimer" /\ UNCHANGED <<pc, state_, listen, mine, woken>>
      /\ \/ timer[k].st = "cancelled" /\ due' = Tail(due) /\ UNCHANGED timer
         \/ /\ timer[k].st # "cancelled" /\ due' = Append(Tail(due), <<"timeout", k>>)
            /\ timer' = [timer EXCEPT ![k].st = "over"]
  BY DEF OnTimer, hist
<1>2. CASE timer[k].st = "cancelled"
  <2>1. due' = Tail(due) /\ UNCHANGED timer
    BY <1>1, <1>2, Zenon
  <2>2. /\ HandedOnce'
        /\ \A i \in DOMAIN due' : i \in Int /\ i + 1 \in DOMAIN due /\ due'[i] = due[i + 1]
    BY <1>1, <2>1, SleepersTail, Zenon
  <2>3. ASSUME state_' = "NotConnected" PROVE OneWaits' /\ OneSleeps' /\ woken' # "other"
    <3>1. OneWaits /\ OneSleeps /\ woken # "other"
      BY <1>1, <2>3 DEF Sleepers, Undisturbed
    <3>2. \A i \in DOMAIN due' : (OnFd(i)' <=> OnFd(i + 1)) /\ (Handed(i)' <=> Handed(i + 1))
      BY <2>2, Zenon DEF OnFd, Handed
    <3>3. OneWaits'
      <4>1. ASSUME NEW i \in DOMAIN due', OnFd(i)'
            PROVE  /\ pc' \in {"cwait"} \cup Gone
                   /\ \A j \in DOMAIN due' : Handed(j)' => i < j
                   /\ \A j \in DOMAIN due' : OnFd(j)' => i = j
        <5>1. i + 1 \in DOMAIN due /\ OnFd(i + 1)
          BY <2>2, <3>2, <4>1, Zenon
        <5>2. \A j \in DOMAIN due' : Handed(j)' => i + 1 < j + 1
          BY <2>2, <3>1, <3>2, <5>1, Zenon DEF OneWaits
        <5>3. \A j \in DOMAIN due' : OnFd(j)' => i + 1 = j + 1
          BY <2>2, <3>1, <3>2, <5>1, Zenon DEF OneWaits
        <5>4. pc' \in {"cwait"} \cup Gone
          BY <1>1, <3>1, <5>1, Zenon DEF OneWaits
        <5>. QED
          BY <2>2, <5>2, <5>3, <5>4
      <4>. QED
        BY <1>1, <3>1, <4>1, Zenon DEF OneWaits
    <3>4. OneSleeps'
      <4>1. \A j \in DOMAIN timer' : Asleep(j)' /\ Armed(j)' => j = mine'
        BY <1>1, <2>1, <3>1, Zenon DEF OneSleeps, Asleep, Armed
      <4>2. ASSUME NEW i \in DOMAIN due', ~ OnFd(i)', Asleep(due[i][2])' PROVE due'[i][2] = mine'
        <5>1. i + 1 \in DOMAIN due /\ ~ OnFd(i + 1) /\ due'[i] = due[i + 1]
          BY <2>2, <3>2, <4>2, Zenon
        <5>2. Asleep(due[i + 1][2])
          BY <2>1, <4>2, <5>1, Zenon DEF Asleep
        <5>. QED
          BY <1>1, <3>1, <5>1, <5>2, Zenon DEF OneSleeps
      <4>. QED
        BY <4>1, <4>2, Zenon DEF OneSleeps
    <3>. QED
      BY <1>1, <3>1, <3>3, <3>4, Zenon
  <2>. QED
    BY <2>2, <2>3, Zenon DEF Undisturbed
<1>3. CASE timer[k].st # "cancelled"
  <2>1. due' = Append(Tail(due), <<"timeout", k>>) /\ timer' = [timer EXCEPT ![k].st = "over"]
    BY <1>1, <1>3, Zenon
  <2>2. /\ 1 \in DOMAIN due /\ Head(due) = due[1] /\ m \in Nat /\ DOMAIN due = 1..m
        /\ Tail(due) \in Seq(Callbacks) /\ Len(Tail(due)) = m - 1
        /\ DOMAIN Tail(due) = 1..m - 1
        /\ \A i \in DOMAIN Tail(due) : i + 1 \in DOMAIN due /\ Tail(due)[i] = due[i + 1]
    BY <1>1, DueTail, ShapeFacts DEF Sleepers, TimerInv
  <2>3. Fired(1) /\ ~ OnFd(1) /\ k = due[1][2]
    BY <1>1, <2>2, SleepersDue DEF Fired
  <2>4. k \in DOMAIN timer /\ k \in Nat \ {0} /\ timer[k].st = "due"
    <3>1. k \in DOMAIN timer
      BY <2>2, <2>3, SleepersDue
    <3>2. timer[k].st = "due"
      BY <1>3, <2>2, <2>3 DEF Sleepers, TimerInv, Rounds
    <3>. QED
      BY <3>1, <3>2, ShapeFacts DEF Sleepers, TimerInv
  <2>5. /\ DOMAIN timer' = DOMAIN timer
        /\ \A j \in DOMAIN timer : timer'[j].for = timer[j].for
        /\ \A j \in DOMAIN timer \ {k} : timer'[j] = timer[j]
        /\ timer'[k].st = "over"
    BY <2>1, <2>4, TimerSet, Zenon DEF Sleepers, TimerInv, Shape, TimerStates
  <2>6. <<"timeout", k>> \in Callbacks
    BY <2>4 DEF Callbacks
  <2>7. /\ DOMAIN due' = 1..m /\ due'[m] = <<"timeout", k>>
        /\ \A i \in 1..m - 1 : i + 1 \in DOMAIN due /\ due'[i] = due[i + 1]
    BY <2>1, <2>2, <2>6, AppendProperties
  <2>8. /\ \A i \in DOMAIN due' : i = m \/ i \in 1..m - 1
        /\ \A i \in 1..m - 1 : i \in Int /\ i < m /\ i # m
        /\ m \in DOMAIN due'
    <3>1. m \in Nat /\ m >= 1
      BY <2>2
    <3>. QED
      BY <2>7, <3>1
  <2>9. \A i \in 1..m - 1 : (OnFd(i)' <=> OnFd(i + 1)) /\ (Handed(i)' <=> Handed(i + 1))
    BY <2>7, Zenon DEF OnFd, Handed
  <2>10. Handed(m)' /\ ~ OnFd(m)' /\ due'[m][2] = k
    BY <2>4, <2>7 DEF Handed, OnFd
  <2>11. \A i \in 1..m - 1 : Handed(i)' =>
           /\ i + 1 \in DOMAIN due /\ Handed(i + 1) /\ due'[i] = due[i + 1]
           /\ due'[i][2] \in DOMAIN timer /\ timer[due'[i][2]].st = "over" /\ due'[i][2] # k
    <3>1. ASSUME NEW i \in 1..m - 1, Handed(i)'
          PROVE  /\ i + 1 \in DOMAIN due /\ Handed(i + 1) /\ due'[i] = due[i + 1]
                 /\ timer[due'[i][2]].st = "over"
      <4>1. i + 1 \in DOMAIN due /\ Handed(i + 1) /\ due'[i] = due[i + 1]
        BY <2>7, <2>9, <3>1, Zenon
      <4>. QED
        BY <4>1, Zenon DEF Sleepers, HandedOnce
    <3>2. \A i \in DOMAIN due : Handed(i) => due[i][2] \in DOMAIN timer
      BY SleepersDue, Zenon
    <3>3. "over" # "due"
      OBVIOUS
    <3>. QED
      BY <2>4, <3>1, <3>2, <3>3, Zenon
  <2>12. HandedOnce'
    <3>1. ASSUME NEW i \in DOMAIN due', Handed(i)' PROVE timer'[due'[i][2]].st = "over"
      <4>1. CASE i = m
        BY <2>5, <2>10, <4>1, Zenon
      <4>2. CASE i \in 1..m - 1
        BY <2>5, <2>11, <3>1, <4>2, Zenon
      <4>. QED
        BY <2>8, <4>1, <4>2, Zenon
    <3>2. ASSUME NEW i \in DOMAIN due', NEW j \in DOMAIN due',
                 Handed(i)', Handed(j)', due'[i][2] = due'[j][2]
          PROVE  i = j
      <4>1. CASE i \in 1..m - 1 /\ j \in 1..m - 1
        <5>1. i + 1 = j + 1
          BY <2>11, <3>2, <4>1, Zenon DEF Sleepers, HandedOnce
        <5>. QED
          BY <2>8, <4>1, <5>1
      <4>2. CASE i = m \/ j = m
        BY <2>8, <2>10, <2>11, <3>2, <4>2, Zenon
      <4>. QED
        BY <2>8, <4>1, <4>2, Zenon
    <3>. QED
      BY <3>1, <3>2, Zenon DEF HandedOnce
  <2>13. ASSUME state_' = "NotConnected" PROVE OneWaits' /\ OneSleeps' /\ woken' # "other"
    <3>1. OneWaits /\ OneSleeps /\ woken # "other"
      BY <1>1, <2>13 DEF Sleepers, Undisturbed
    <3>2. OneWaits'
      <4>1. ASSUME NEW i \in DOMAIN due', OnFd(i)'
            PROVE  /\ pc' \in {"cwait"} \cup Gone
                   /\ \A j \in DOMAIN due' : Handed(j)' => i < j
                   /\ \A j \in DOMAIN due' : OnFd(j)' => i = j
        <5>1. i \in 1..m - 1 /\ i + 1 \in DOMAIN due /\ OnFd(i + 1)
          BY <2>7, <2>8, <2>9, <2>10, <4>1, Zenon
        <5>2. \A j \in 1..m - 1 : Handed(j)' => i + 1 < j + 1
          BY <2>7, <2>9, <3>1, <5>1, Zenon DEF OneWaits
        <5>3. \A j \in 1..m - 1 : OnFd(j)' => i + 1 = j + 1
          BY <2>7, <2>9, <3>1, <5>1, Zenon DEF OneWaits
        <5>4. pc' \in {"cwait"} \cup Gone
          BY <1>1, <3>1, <5>1, Zenon DEF OneWaits
        <5>5. /\ \A j \in 1..m - 1 : Handed(j)' => i < j
              /\ \A j \in 1..m - 1 : OnFd(j)' => i = j
          BY <2>8, <5>1, <5>2, <5>3
        <5>. QED
          BY <2>8, <2>10, <5>1, <5>4, <5>5, Zenon
      <4>. QED
        BY <1>1, <3>1, <4>1, Zenon DEF OneWaits
    <3>3. OneSleeps'
      <4>1. ASSUME NEW j \in DOMAIN timer', Asleep(j)', Armed(j)' PROVE j = mine'
        <5>1. j # k
          BY <2>5, <4>1 DEF Armed
        <5>. QED
          BY <1>1, <2>5, <3>1, <4>1, <5>1, Zenon DEF OneSleeps, Asleep, Armed
      <4>2. ASSUME NEW i \in DOMAIN due', ~ OnFd(i)', Asleep(due[i][2])' PROVE due'[i][2] = mine'
        <5>1. CASE i = m
          <6>1. Asleep(k)
            BY <2>4, <2>5, <2>10, <4>2, <5>1, Zenon DEF Asleep
          <6>. QED
            BY <1>1, <2>2, <2>3, <2>10, <3>1, <5>1, <6>1, Zenon DEF OneSleeps
        <5>2. CASE i \in 1..m - 1
          <6>1. i + 1 \in DOMAIN due /\ ~ OnFd(i + 1) /\ due'[i][2] = due[i + 1][2]
            BY <2>7, <2>9, <4>2, <5>2, Zenon
          <6>2. due[i + 1][2] \in DOMAIN timer
            BY <6>1, SleepersDue, Zenon
          <6>3. Asleep(due[i + 1][2])
            BY <2>5, <4>2, <6>1, <6>2, Zenon DEF Asleep
          <6>. QED
            BY <1>1, <3>1, <6>1, <6>3, Zenon DEF OneSleeps
        <5>. QED
          BY <2>8, <5>1, <5>2, Zenon
      <4>. QED
        BY <4>1, <4>2, Zenon DEF OneSleeps
    <3>. QED
      BY <1>1, <3>1, <3>2, <3>3, Zenon
  <2>. QED
    BY <2>12, <2>13, Zenon DEF Undisturbed
<1>. QED
  BY <1>2, <1>3

(* Where the coroutine goes on, and what it then takes for its wake-up.     *)
LEMMA ResumeCases ==
  ASSUME Resume
  PROVE  \/ pc' \in {"smashed", "nowhere"} /\ UNCHANGED <<mine, woken>>
         \/ pc = "cwait" /\ pc' = "cback" /\ UNCHANGED <<mine, woken>>
         \/ pc \in {"wwait", "rwait"}
         \/ /\ pc = "swait" /\ pc' = "app" /\ mine' = 0
            /\ ~ (Head(due)[2] # 0 /\ Head(due)[2] # mine /\ timer[Head(due)[2]].for = "connect")
            /\ woken' = IF Head(due)[2] = mine THEN "timer" ELSE "other"
BY DEF Resume, Yielded

(* A resumed connect_hook() takes the only callback of the fd with it, and *)
(* a sleep that is resumed takes the only callback of its Timer.           *)
LEMMA SleepersResume ==
  ASSUME Sleepers, Resume
  PROVE  HandedOnce' /\ Undisturbed'
<1>. PICK k : k = Head(due)[2]
  BY Zenon
<1>1. /\ due # <<>> /\ Head(due)[1] # "onTimer" /\ due' = Tail(due)
      /\ UNCHANGED <<timer, state_, listen>>
  BY DEF Resume
<1>2. /\ 1 \in DOMAIN due /\ Head(due) = due[1]
      /\ \A i \in DOMAIN due' : /\ i \in Int /\ i + 1 \in DOMAIN due /\ i + 1 # 1
                                /\ ~ (i + 1 < 1) /\ due'[i] = due[i + 1]
      /\ HandedOnce'
  BY <1>1, SleepersTail, Zenon
<1>3. OnFd(1) \/ Handed(1)
  <2>1. ~ Fired(1)
    BY <1>1, <1>2, Zenon DEF Fired
  <2>. QED
    BY <1>2, <2>1, SleepersDue, Zenon
<1>4. \/ /\ pc' \in Gone /\ UNCHANGED <<mine, woken>>
      \/ /\ pc = "cwait" /\ pc' = "cback" /\ UNCHANGED <<mine, woken>>
      \/ pc \in Talking
      \/ /\ pc = "swait" /\ pc' = "app" /\ mine' = 0
         /\ ~ (k # 0 /\ k # mine /\ timer[k].for = "connect")
         /\ woken' = IF k = mine THEN "timer" ELSE "other"
  <2>1. \/ pc' \in {"smashed", "nowhere"} /\ UNCHANGED <<mine, woken>>
        \/ pc = "cwait" /\ pc' = "cback" /\ UNCHANGED <<mine, woken>>
        \/ pc \in {"wwait", "rwait"}
        \/ /\ pc = "swait" /\ pc' = "app" /\ mine' = 0
           /\ ~ (Head(due)[2] # 0 /\ Head(due)[2] # mine /\ timer[Head(due)[2]].for = "connect")
           /\ woken' = IF Head(due)[2] = mine THEN "timer" ELSE "other"
    BY ResumeCases, Zenon
  <2>2. {"smashed", "nowhere"} \subseteq Gone /\ {"wwait", "rwait"} \subseteq Talking
    BY DEF Gone, Talking
  <2>. QED
    BY <2>1, <2>2, Zenon
<1>5. ASSUME state_' = "NotConnected" PROVE OneWaits' /\ OneSleeps' /\ woken' # "other"
  <2>1. OneWaits /\ OneSleeps /\ woken # "other"
    BY <1>1, <1>5 DEF Sleepers, Undisturbed
  <2>2. pc \notin Talking
    BY <1>1, <1>5 DEF Sleepers, Linked
  <2>3. \A i \in DOMAIN due' : (OnFd(i)' <=> OnFd(i + 1)) /\ (Handed(i)' <=> Handed(i + 1))
    BY <1>2, Zenon DEF OnFd, Handed
  <2>4. \A i \in DOMAIN due' : ~ OnFd(i)'
    <3>1. ASSUME NEW i \in DOMAIN due, OnFd(i), i # 1, ~ (i < 1) PROVE FALSE
      BY <1>2, <1>3, <2>1, <3>1, Zenon DEF OneWaits
    <3>. QED
      BY <1>2, <2>3, <3>1, Zenon
  <2>5. ASSUME NEW i \in DOMAIN due', Asleep(due[i][2])'
        PROVE  /\ i + 1 \in DOMAIN due /\ i + 1 # 1 /\ ~ OnFd(i + 1) /\ due'[i] = due[i + 1]
               /\ due[i + 1][2] = mine
    <3>1. i + 1 \in DOMAIN due /\ i + 1 # 1 /\ ~ OnFd(i + 1) /\ due'[i] = due[i + 1]
      BY <1>2, <2>3, <2>4, Zenon
    <3>2. Asleep(due[i + 1][2])
      BY <1>1, <2>5, <3>1, Zenon DEF Asleep
    <3>. QED
      BY <2>1, <3>1, <3>2, Zenon DEF OneSleeps
  <2>6. CASE pc' \in {"cback"} \cup Gone /\ UNCHANGED <<mine, woken>>
    <3>1. OneWaits'
      BY <1>1, <2>1, <2>4, <2>6 DEF OneWaits
    <3>2. \A j \in DOMAIN timer' : Asleep(j)' /\ Armed(j)' => j = mine'
      BY <1>1, <2>1, <2>6, Zenon DEF OneSleeps, Asleep, Armed
    <3>3. OneSleeps'
      BY <2>5, <2>6, <3>2, Zenon DEF OneSleeps
    <3>. QED
      BY <2>1, <2>6, <3>1, <3>3, Zenon
  <2>7. CASE /\ pc = "swait" /\ pc' = "app" /\ mine' = 0
             /\ ~ (k # 0 /\ k # mine /\ timer[k].for = "connect")
             /\ woken' = IF k = mine THEN "timer" ELSE "other"
    <3>1. pc \notin {"cwait", "cback"} \cup Gone
      BY <2>7 DEF Gone
    <3>2. listen = {} /\ ~ OnFd(1)
      BY <1>2, <2>1, <3>1 DEF OneWaits
    <3>3. Handed(1) /\ k = due[1][2] /\ k # 0 /\ k \in DOMAIN timer
      BY <1>2, <1>3, <3>2, SleepersDue, Zenon DEF OnFd
    <3>4. timer[k].for \in {"connect", "sleep"} /\ timer[k].st = "over"
      <4>1. timer[k].for \in {"connect", "sleep"}
        <5>1. timer \in Seq([for : {"connect", "sleep"}, st : TimerStates]) /\ k \in 1..Len(timer)
          BY <3>3, ShapeFacts DEF Sleepers, TimerInv, Shape, Timers
        <5>2. timer[k] \in [for : {"connect", "sleep"}, st : TimerStates]
          BY <5>1, ElementOfSeq, Zenon
        <5>. QED
          BY <5>2, Zenon
      <4>2. timer[k].st = "over"
        BY <1>2, <3>3, Zenon DEF Sleepers, HandedOnce
      <4>. QED
        BY <4>1, <4>2
    <3>5. k = mine
      <4>1. CASE timer[k].for = "connect"
        BY <2>7, <3>3, <4>1, Zenon
      <4>2. CASE timer[k].for = "sleep"
        BY <1>2, <2>1, <3>2, <3>3, <4>2, Zenon DEF OneSleeps, Asleep
      <4>. QED
        BY <3>4, <4>1, <4>2
    <3>6. \A j \in DOMAIN timer' : ~ (Asleep(j)' /\ Armed(j)')
      <4>1. \A j \in DOMAIN timer : Asleep(j) /\ Armed(j) => j = k
        BY <2>1, <3>5, Zenon DEF OneSleeps
      <4>2. ~ Armed(k)
        BY <3>4 DEF Armed
      <4>. QED
        BY <1>1, <4>1, <4>2, Zenon DEF Asleep, Armed
    <3>7. \A i \in DOMAIN due' : ~ Asleep(due[i][2])'
      <4>1. SUFFICES ASSUME NEW i \in DOMAIN due', Asleep(due[i][2])' PROVE FALSE
        OBVIOUS
      <4>2. i + 1 \in DOMAIN due /\ i + 1 # 1 /\ ~ OnFd(i + 1) /\ due[i + 1][2] = k
        BY <2>5, <3>5, <4>1, Zenon
      <4>3. CASE Handed(i + 1)
        BY <1>2, <3>3, <4>2, <4>3, Zenon DEF Sleepers, HandedOnce
      <4>4. CASE Fired(i + 1)
        <5>1. timer[k].st \in {"due", "cancelled"}
          BY <4>2, <4>4, Zenon DEF Sleepers, TimerInv, Rounds
        <5>. QED
          BY <3>4, <5>1
      <4>. QED
        BY <4>2, <4>3, <4>4, SleepersDue, Zenon
    <3>8. OneSleeps'
      BY <3>6, <3>7, Zenon DEF OneSleeps
    <3>9. OneWaits'
      BY <1>1, <2>4, <3>2 DEF OneWaits
    <3>. QED
      BY <2>7, <3>5, <3>8, <3>9
  <2>. QED
    BY <1>4, <2>2, <2>6, <2>7
<1>. QED
  BY <1>2, <1>5, Zenon DEF Undisturbed

(* connect_hook() goes on: the fd is no longer registered for WRITE.       *)
LEMMA SleepersConnectBack ==
  ASSUME Sleepers, ConnectBack
  PROVE  HandedOnce' /\ Undisturbed'
<1> DEFINE x == IF timer[mine].st = "over" THEN "over" ELSE "cancelled"
<1>1. /\ pc = "cback" /\ mine' = 0 /\ UNCHANGED <<due, woken>> /\ listen' = listen \ {"write"}
      /\ timer' = [timer EXCEPT ![mine].st = x]
      /\ state_' = "NotConnected" => state_ = "NotConnected"
  BY Zenon DEF ConnectBack, DelTimerEvent, DelListenEvents
<1>2. mine \in DOMAIN timer /\ timer[mine].for = "connect"
  BY <1>1 DEF Sleepers, TimerInv, Owned
<1>3. x \in TimerStates
  BY DEF TimerStates
<1>4. timer[mine].st = "over" => x = "over"
  OBVIOUS
<1> HIDE DEF x
<1>5. /\ DOMAIN timer' = DOMAIN timer
      /\ \A j \in DOMAIN timer : timer'[j].for = timer[j].for
      /\ \A j \in DOMAIN timer \ {mine} : timer'[j] = timer[j]
      /\ timer'[mine].st = x
  BY <1>1, <1>2, <1>3, TimerSet, Zenon DEF Sleepers, TimerInv, Shape
<1>6. HandedOnce'
  <2>1. \A j \in DOMAIN timer : timer[j].st = "over" => timer'[j].st = "over"
    BY <1>4, <1>5
  <2>2. \A i \in DOMAIN due : Handed(i) => due[i][2] \in DOMAIN timer
    BY SleepersDue, Zenon
  <2>3. \A i \in DOMAIN due' : Handed(i)' => timer'[due'[i][2]].st = "over"
    BY <1>1, <2>1, <2>2, Zenon DEF Sleepers, HandedOnce, Handed
  <2>4. \A i, j \in DOMAIN due' : Handed(i)' /\ Handed(j)' /\ due'[i][2] = due'[j][2] => i = j
    BY <1>1, Zenon DEF Sleepers, HandedOnce, Handed
  <2>. QED
    BY <2>3, <2>4, Zenon DEF HandedOnce
<1>7. ASSUME state_' = "NotConnected" PROVE OneWaits' /\ OneSleeps' /\ woken' # "other"
  <2>1. OneWaits /\ OneSleeps /\ woken # "other"
    BY <1>1, <1>7 DEF Sleepers, Undisturbed
  <2>2. pc \notin {"cwait"} \cup Gone
    BY <1>1 DEF Gone
  <2>3. listen' = {} /\ \A i \in DOMAIN due : ~ OnFd(i)
    BY <1>1, <2>1, <2>2 DEF OneWaits
  <2>4. OneWaits'
    BY <1>1, <2>3 DEF OneWaits, OnFd
  <2>5. \A j \in DOMAIN timer' : ~ (Asleep(j)' /\ Armed(j)')
    <3>1. ASSUME NEW j \in DOMAIN timer, timer'[j].for = "sleep", Armed(j)' PROVE FALSE
      <4>1. timer[j].for = "sleep" /\ j # mine
        BY <1>2, <1>5, <3>1
      <4>2. Armed(j)
        BY <1>5, <3>1, <4>1 DEF Armed
      <4>. QED
        BY <2>1, <4>1, <4>2, Zenon DEF OneSleeps, Asleep
    <3>. QED
      BY <1>5, <3>1, Zenon DEF Asleep
  <2>6. \A i \in DOMAIN due : due[i][2] \in DOMAIN timer /\ timer[due[i][2]].for # "sleep"
    <3>1. \A i \in DOMAIN due : due[i][2] \in DOMAIN timer
      BY <2>3, SleepersDue, Zenon
    <3>2. ASSUME NEW i \in DOMAIN due, timer[due[i][2]].for = "sleep" PROVE FALSE
      <4>1. due[i][2] = mine
        BY <2>1, <2>3, <3>2, Zenon DEF OneSleeps, Asleep
      <4>. QED
        BY <1>2, <3>2, <4>1
    <3>. QED
      BY <3>1, <3>2, Zenon
  <2>7. \A i \in DOMAIN due' : ~ Asleep(due[i][2])'
    BY <1>1, <1>5, <2>6, Zenon DEF Asleep
  <2>8. OneSleeps'
    BY <2>5, <2>7, Zenon DEF OneSleeps
  <2>. QED
    BY <1>1, <2>1, <2>4, <2>8, Zenon
<1>. QED
  BY <1>6, <1>7, Zenon DEF Undisturbed

LEMMA SleepersTry ==
  ASSUME Sleepers, Try
  PROVE  HandedOnce' /\ Undisturbed'
<1>1. pc = "try" /\ mine = 0 /\ UNCHANGED <<due, woken>>
  BY DEF Sleepers, TimerInv, Owned, Try, hist
<1>2. PICK r \in Connect :
        CASE r[2] = "0" -> state_' = "Connected" /\ UNCHANGED <<timer, mine>>
          [] r[2] = "EINPROGRESS" ->
               /\ pc' = "cwait" /\ listen' = listen \cup {"write"}
               /\ AddTimerEvent("connect") /\ UNCHANGED state_
          [] OTHER -> UNCHANGED <<pc, state_, listen, timer, mine>>
  BY DEF Try
<1>3. CASE state_' = "Connected" /\ UNCHANGED <<timer, mine>>
  BY <1>1, <1>3, SleepersAlone
<1>4. CASE /\ pc' = "cwait" /\ listen' = listen \cup {"write"}
           /\ AddTimerEvent("connect") /\ UNCHANGED state_
  BY <1>1, <1>4, SleepersMade
<1>5. CASE UNCHANGED <<pc, state_, listen, timer, mine>>
  BY <1>1, <1>5, SleepersAlone
<1>. QED
  BY <1>2, <1>3, <1>4, <1>5

LEMMA SleepersStep == Sleepers /\ [Next]_vars => HandedOnce' /\ Undisturbed'
<1> SUFFICES ASSUME Sleepers, [Next]_vars
             PROVE  HandedOnce' /\ Undisturbed'
  OBVIOUS
<1>1. CASE Handshake \/ PeerActs \/ UNCHANGED vars
  <2>1. UNCHANGED <<pc, state_, listen, timer, due, mine, woken>>
    BY <1>1 DEF Handshake, PeerActs, vars, hist
  <2>. QED
    BY <2>1, SleepersAlone
<1>2. CASE Finish \/ SendAndRecv \/ NoTryLeft
  <2>1. /\ pc \notin {"cwait", "cback"} \cup Gone /\ listen' \subseteq listen
        /\ UNCHANGED <<state_, timer, due, mine, woken>>
    BY <1>2 DEF Finish, SendAndRecv, NoTryLeft, hist, Gone
  <2>. QED
    BY <2>1, SleepersAlone
<1>3. CASE Write \/ Read \/ ReadBack
  <2>1. UNCHANGED <<timer, due, mine, woken>>
    BY <1>3 DEF Write, Read, ReadBack, hist
  <2>2. state_ = "Connected"
    BY <1>3 DEF Sleepers, Linked, Talking, Write, Read, ReadBack
  <2>3. state_' \in {state_, "Closed"}
    BY <1>3 DEF Write, Read, ReadBack, GotReply, ClearClient
  <2>. QED
    BY <2>1, <2>2, <2>3, SleepersAlone
<1>4. CASE Sleep
  <2>1. /\ pc = "app" /\ pc' = "swait" /\ mine = 0 /\ UNCHANGED <<listen, due, woken, state_>>
        /\ AddTimerEvent("sleep")
    BY <1>4 DEF Sleep, Sleepers, TimerInv, Owned
  <2>. QED
    BY <2>1, SleepersMade
<1>. QED
  BY <1>1, <1>2, <1>3, <1>4, SleepersExpire, SleepersPoll, SleepersOnTimer, SleepersResume,
     SleepersConnectBack, SleepersTry DEF Next, Coroutine

(* Until a client has been connected nothing but its own time ends a       *)
(* sleep, whatever the number of retries, calls and sleeps: connect_hook() *)
(* leaves neither the fd registered nor a time-out running.                *)
THEOREM SleepsKept == Spec => []SleepsUndisturbed
<1>1. Init => Basic /\ Linked /\ ReplyOrClosed /\ TimerInv /\ HandedOnce /\ Undisturbed
  <2>1. Init => Basic /\ Linked /\ ReplyOrClosed
    BY DEF Init, Basic, Linked, ReplyOrClosed, Labels, Connecting, Talking, Gone, SockStates
  <2>2. Init => TimerInv
    BY DEF Init, TimerInv, Shape, Timers, Owned, Frames, Rounds, NoTimeoutAfterReturn
  <2>3. Init => HandedOnce /\ Undisturbed
    BY DEF Init, HandedOnce, Undisturbed, OneWaits, OneSleeps
  <2>. QED
    BY <2>1, <2>2, <2>3
<1>2. Linked /\ TimerInv /\ HandedOnce /\ Undisturbed /\ [Next]_vars => HandedOnce' /\ Undisturbed'
  BY SleepersStep DEF Sleepers
<1>3. Undisturbed => SleepsUndisturbed
  BY DEF Undisturbed, SleepsUndisturbed
<1>. QED
  BY <1>1, <1>2, <1>3, LinkedStep, TimersStep, PTL DEF Spec
=============================================================================

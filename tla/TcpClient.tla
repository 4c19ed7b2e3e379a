------------------------------ MODULE TcpClient ------------------------------
(***************************************************************************)
(* A coroutine that uses a net::TcpClient (net/tcp_client.cc) and          *)
(* sleep_hook: sendAndRecv() with its retries, connect_hook with its       *)
(* time-out, output() and input() of the connection, through the hooks of  *)
(* net/coroutine_hook.cc.                                                  *)
(*                                                                         *)
(* Everything runs on one thread.  The reactor acts while the coroutine    *)
(* has yielded; each callback it runs - of the FdEvent, of a time-out, of  *)
(* a sleep - resumes the coroutine wherever it is then.  Every time-out    *)
(* and every sleep has a Timer of its own, because Reactor::getTimer()     *)
(* makes a new one at each call.  A request and a reply are one unit each. *)
(***************************************************************************)
EXTENDS Integers, Sequences, FiniteSets

CONSTANTS
  MaxRetry,    \* max_retry_, 3
  MaxCalls,    \* bound on the calls of sendAndRecv
  MaxSleeps    \* bound on the calls of sleep_hook

ASSUME ClientAssumption == {MaxRetry, MaxCalls, MaxSleeps} \subseteq Nat

MaxTimers == MaxCalls * MaxRetry + MaxSleeps

VARIABLES
  pc,          \* where the coroutine is
  n,           \* tries left in sendAndRecv
  state_,      \* of connection_
  sock,        \* the kernel's socket
  inbox,       \* "none", "reply" or "fin": what a read would find
  listen,      \* events of the FdEvent registered with epoll
  timer,       \* the Timers made so far, each with its event: for what, and how far
  due,         \* the callbacks queued on the reactor, in order
  mine,        \* the Timer whose callback the coroutine waits for, or 0
  unsent,      \* "yes" while the request is in write_buffer_
  ret,         \* what the last sendAndRecv returned
  calls, sleeps,
  reply,       \* history: "yes" when this call has read a reply
  late,        \* history: time-outs handed over when their frame went away
  woken        \* history: why the last sleep ended

kernel == <<sock, inbox>>
hist == <<calls, sleeps, reply, late, woken>>
vars == <<pc, n, state_, kernel, listen, timer, due, mine, unsent, ret, hist>>

Init ==
  /\ pc = "app" /\ n = 0 /\ state_ = "NotConnected"
  /\ sock = "new" /\ inbox = "none" /\ listen = {}
  /\ timer = <<>> /\ due = <<>> /\ mine = 0
  /\ unsent = "no" /\ ret = "none"
  /\ calls = 0 /\ sleeps = 0 /\ reply = "no" /\ late = {} /\ woken = "none"
-----------------------------------------------------------------------------
(* The network and the peer.                                               *)
Handshake ==
  /\ sock = "progress" /\ sock' \in {"established", "failed"}
  /\ UNCHANGED <<pc, n, state_, inbox, listen, timer, due, mine, unsent, ret, hist>>

PeerActs ==
  /\ sock \in {"established", "connected"} /\ inbox = "none"
  /\ \/ inbox' = "fin"
     \/ inbox' = "reply" /\ calls > 0 /\ unsent = "no" /\ reply = "no" /\ sock = "connected"
  /\ UNCHANGED <<pc, n, state_, sock, listen, timer, due, mine, unsent, ret, hist>>

Expire ==
  /\ \E k \in DOMAIN timer :
       timer[k].st = "armed" /\ timer' = [timer EXCEPT ![k].st = "due"]
  /\ UNCHANGED <<pc, n, state_, kernel, listen, due, mine, unsent, ret, hist>>
-----------------------------------------------------------------------------
(* The reactor.                                                            *)
Yielded == pc \in {"cwait", "wwait", "rwait", "swait", "done"}

Writable == sock \in {"established", "failed", "connected"}
Ready ==
  {e \in {<<"read", 0>>, <<"write", 0>>} \cup {<<"onTimer", k>> : k \in DOMAIN timer} :
     \/ e[1] = "read" /\ "read" \in listen /\ inbox # "none"
     \/ e[1] = "write" /\ "write" \in listen /\ Writable
     \/ e[1] = "onTimer" /\ timer[e[2]].st = "due"}

(* epoll reports everything that is ready, in any order.                   *)
Poll ==
  /\ Yielded /\ due = <<>> /\ Ready # {}
  /\ \E order \in [1..Cardinality(Ready) -> Ready] :
       {order[i] : i \in DOMAIN order} = Ready /\ due' = order
  /\ UNCHANGED <<pc, n, state_, kernel, listen, timer, mine, unsent, ret, hist>>

(* Timer::onTimer(): hands the event's task over unless it was deleted.    *)
OnTimer ==
  /\ Yielded /\ due # <<>> /\ Head(due)[1] = "onTimer"
  /\ LET k == Head(due)[2]
     IN IF timer[k].st = "cancelled"
        THEN due' = Tail(due) /\ UNCHANGED timer
        ELSE /\ due' = Append(Tail(due), <<"timeout", k>>)
             /\ timer' = [timer EXCEPT ![k].st = "over"]
  /\ UNCHANGED <<pc, n, state_, kernel, listen, mine, unsent, ret, hist>>

(* Every other callback resumes the coroutine; a time-out first writes     *)
(* is_timeout in the frame of its connect_hook.  A finished coroutine has  *)
(* nowhere to go on.                                                       *)
Resume ==
  /\ Yielded /\ due # <<>> /\ Head(due)[1] # "onTimer"
  /\ due' = Tail(due)
  /\ LET k == Head(due)[2]
     IN pc' = IF k # 0 /\ k # mine /\ timer[k].for = "connect" THEN "smashed"
              ELSE CASE pc = "cwait" -> "cback" [] pc = "wwait" -> "wback"
                     [] pc = "rwait" -> "rback" [] pc = "swait" -> "app"
                     [] OTHER -> "nowhere"
  /\ IF pc' = "app"
     THEN mine' = 0 /\ woken' = IF Head(due)[2] = mine THEN "timer" ELSE "other"
     ELSE UNCHANGED <<mine, woken>>
  /\ UNCHANGED <<n, state_, kernel, listen, timer, unsent, ret, calls, sleeps, reply, late>>
-----------------------------------------------------------------------------
(* The coroutine.                                                          *)

(* Defect: the event is made and not added.                                *)
AddTimerEventLost(for) == UNCHANGED timer /\ mine' = 0

(* A new Timer gets an event for this coroutine.  resetArriveTime() reads  *)
(* the clock again: an event whose time has come by then, as one with the  *)
(* interval 0 always and another when the thread is held up for so long,   *)
(* leaves the timerfd without a time.                                      *)
AddTimerEvent(for) ==
  \E st \in {"armed", "unarmed"} :
    timer' = Append(timer, [for |-> for, st |-> st]) /\ mine' = Len(timer')

(* sleep_hook()                                                            *)
Sleep ==
  /\ pc = "app" /\ sleeps < MaxSleeps
  /\ pc' = "swait" /\ sleeps' = sleeps + 1 /\ AddTimerEvent("sleep")
  /\ UNCHANGED <<n, state_, kernel, listen, due, unsent, ret, calls, reply, late, woken>>

(* The coroutine ends, and with it the client: ~TcpClient() closes fd_.    *)
Finish ==
  /\ pc = "app" /\ pc' = "done" /\ sock' = "closed" /\ listen' = {}
  /\ UNCHANGED <<n, state_, inbox, timer, due, mine, unsent, ret, hist>>

(* Defect: one try too many.                                               *)
TriesOneMore == MaxRetry + 1

Tries == MaxRetry

(* sendAndRecv(), with a request in the write buffer.                      *)
SendAndRecv ==
  /\ pc = "app" /\ calls < MaxCalls
  /\ calls' = calls + 1 /\ unsent' = "yes" /\ reply' = "no" /\ ret' = "none"
  /\ n' = Tries /\ pc' = IF state_ = "Connected" THEN "write" ELSE "try"
  /\ UNCHANGED <<state_, kernel, listen, timer, due, mine, sleeps, late, woken>>

(* What connect() can make of the socket, and what it returns.             *)
Connect ==
  CASE sock = "new" -> {<<"connected", "0">>, <<"progress", "EINPROGRESS">>, <<"new", "error">>}
    [] sock = "progress" -> {<<"progress", "EALREADY">>}
    [] sock = "established" -> {<<"connected", "0">>}
    [] sock = "failed" -> {<<"new", "error">>}
    [] sock = "connected" -> {<<"connected", "EISCONN">>}
    [] sock = "closed" -> {<<"closed", "EBADF">>}

(* A try of the loop up to the first connect() of connect_hook(); one that *)
(* is in progress is waited for, with a time-out.                          *)
Try ==
  /\ pc = "try" /\ n > 0
  /\ \E r \in Connect :
       /\ sock' = r[1]
       /\ CASE r[2] = "0" ->
                 state_' = "Connected" /\ pc' = "write" /\ UNCHANGED <<n, listen, timer, mine>>
            [] r[2] = "EINPROGRESS" ->
                 /\ pc' = "cwait" /\ listen' = listen \cup {"write"}
                 /\ AddTimerEvent("connect") /\ UNCHANGED <<n, state_>>
            [] OTHER -> n' = n - 1 /\ UNCHANGED <<pc, state_, listen, timer, mine>>
  /\ UNCHANGED <<inbox, due, unsent, ret, hist>>

NoTryLeft ==
  /\ pc = "try" /\ n = 0
  /\ pc' = "app" /\ ret' = "NET_CONN_FAILED"
  /\ UNCHANGED <<n, state_, kernel, listen, timer, due, mine, unsent, hist>>

(* Defect: the time-out is left to fire.                                   *)
DelTimerEventNot == UNCHANGED timer

(* The time-out is deleted, unless its Timer has handed it over already.   *)
DelTimerEvent ==
  timer' = [timer EXCEPT ![mine].st = IF @ = "over" THEN @ ELSE "cancelled"]

(* Defect: the fd stays registered for WRITE.                              *)
DelListenEventsNot(e) == listen' = listen

DelListenEvents(e) == listen' = listen \ {e}

(* Defect: an attempt that is still going on passes for a connection.      *)
SucceededEarly(rc) == rc \in {"0", "EISCONN", "EALREADY"}

Succeeded(rc) == rc \in {"0", "EISCONN"}

(* connect_hook() after its Yield().                                       *)
ConnectBack ==
  /\ pc = "cback"
  /\ DelListenEvents("write") /\ DelTimerEvent /\ mine' = 0
  /\ late' = late \cup ({mine} \cap {due[i][2] : i \in {j \in DOMAIN due : due[j][1] = "timeout"}})
  /\ \E r \in Connect :
       /\ sock' = r[1]
       /\ IF Succeeded(r[2]) THEN state_' = "Connected" /\ pc' = "write" /\ UNCHANGED n
          ELSE n' = n - 1 /\ pc' = "try" /\ UNCHANGED state_
  /\ UNCHANGED <<inbox, due, unsent, ret, calls, sleeps, reply, woken>>

(* output(): write_hook() writes at once, or yields until the fd is        *)
(* writable and writes then; output() tries again until all is written.    *)
Write ==
  /\ pc \in {"write", "wback"}
  /\ \/ unsent' = "no" /\ DelListenEvents("write") /\ pc' = "read"
     \/ pc = "write" /\ pc' = "wwait" /\ listen' = listen \cup {"write"} /\ UNCHANGED unsent
     \/ pc = "wback" /\ pc' = "write" /\ UNCHANGED <<listen, unsent>>
  /\ UNCHANGED <<n, state_, kernel, timer, due, mine, ret, hist>>

GotReply == inbox = "reply" /\ inbox' = "none" /\ reply' = "yes" /\ UNCHANGED <<sock, state_>>

(* input(): read_hook() listens for READ, for good, and reads; if there is *)
(* nothing it yields until the fd is readable.                             *)
Read ==
  /\ pc = "read" /\ listen' = listen \cup {"read"}
  /\ \/ GotReply /\ pc' = "app" /\ ret' = "NET_NOERROR"
     \/ inbox # "reply" /\ pc' = "rwait" /\ UNCHANGED <<ret, state_, kernel, reply>>
  /\ UNCHANGED <<n, timer, due, mine, unsent, calls, sleeps, late, woken>>

(* Defect: a read that finds nothing is no reason to close.                *)
ClearClientNot == UNCHANGED <<state_, sock, listen>>

ClearClient == state_' = "Closed" /\ sock' = "closed" /\ listen' = {}

(* read_hook() after its Yield(): nothing to read, like the end of the     *)
(* stream, makes input() clear the client.                                 *)
ReadBack ==
  /\ pc = "rback"
  /\ \/ GotReply /\ UNCHANGED listen
     \/ inbox # "reply" /\ ClearClient /\ UNCHANGED <<inbox, reply>>
  /\ pc' = "app" /\ ret' = "NET_NOERROR"
  /\ UNCHANGED <<n, timer, due, mine, unsent, calls, sleeps, late, woken>>

Coroutine ==
  Sleep \/ Finish \/ SendAndRecv \/ Try \/ NoTryLeft \/ ConnectBack \/ Write \/ Read \/ ReadBack

Next == Handshake \/ PeerActs \/ Expire \/ Poll \/ OnTimer \/ Resume \/ Coroutine

Spec == Init /\ [][Next]_vars

(* Time passes, and the thread runs: its reactor or its coroutine.  The    *)
(* network and the peer may do nothing.                                    *)
FairSpec ==
  /\ Spec /\ WF_vars(Expire) /\ WF_vars(Poll \/ OnTimer \/ Resume)
  /\ WF_vars(Try \/ NoTryLeft \/ ConnectBack \/ Read \/ ReadBack)
-----------------------------------------------------------------------------
(* Properties.                                                             *)
TypeOK ==
  /\ pc \in {"app", "try", "cwait", "cback", "write", "wwait", "wback", "read", "rwait",
             "rback", "swait", "done", "smashed", "nowhere"}
  /\ n \in 0..MaxRetry /\ state_ \in {"NotConnected", "Connected", "Closed"}
  /\ sock \in {"new", "progress", "established", "failed", "connected", "closed"}
  /\ listen \subseteq {"read", "write"} /\ Len(timer) <= MaxTimers
  /\ mine \in 0..Len(timer) /\ ret \in {"none", "NET_NOERROR", "NET_CONN_FAILED"}

(* sendAndRecv() writes and reads only over an established connection:     *)
(* after time-outs, refusals, retries and earlier calls, and however the   *)
(* coroutine was woken, connect_hook() has not taken anything else for     *)
(* one.                                                                    *)
ConnectedIsEstablished ==
  pc \in {"write", "wwait", "wback", "read", "rwait", "rback"} => sock = "connected"

(* A time-out never runs on the stack frame of a connect_hook() that has   *)
(* returned, except one that its Timer had already handed to the reactor,  *)
(* in the round in which the connection was made.                          *)
NoTimeoutAfterReturn == pc = "smashed" => late # {}

(* Until a client has been connected, nothing but its own time cuts a      *)
(* sleep short: no event is left registered and no time-out left running   *)
(* by the connect_hook() calls that failed.                                *)
SleepsUndisturbed == state_ = "NotConnected" => woken # "other"

(* When sendAndRecv() reports NET_NOERROR there is a reply, or the         *)
(* connection is Closed; it never leaves a call unanswered on an open one. *)
ReplyOrClosed == ret = "NET_NOERROR" => reply = "yes" \/ state_ = "Closed"

(* The coroutine waits in a hook that has set its Timer no time.           *)
Unarmed == mine # 0 /\ timer[mine].st = "unarmed"

(* connect_hook() and sleep_hook() end: a coroutine that waits in one of   *)
(* them is resumed, though the network may never answer, unless its time   *)
(* had come before the timerfd was set: such a wait may last for ever.     *)
WaitsEnd == pc \in {"cwait", "swait"} /\ ~Unarmed ~> pc \notin {"cwait", "swait"}
=============================================================================

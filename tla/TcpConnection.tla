---------------------------- MODULE TcpConnection ----------------------------
(***************************************************************************)
(* The server side of one net::TcpConnection (net/tcp_connection.cc): the  *)
(* coroutine MainServerLoopCorFunc, which reads through read_hook into     *)
(* read_buffer_, calls the callbacks, and writes write_buffer_ out through *)
(* write_hook (net/coroutine_hook.cc), with the reactor that resumes it    *)
(* and the time wheel that shuts the connection down.                      *)
(*                                                                         *)
(* All of it runs on one thread: the peer acts at any time, the reactor    *)
(* and the time wheel only while the coroutine has yielded in a hook.  The *)
(* bytes of each direction are numbered 1, 2, 3, ....                      *)
(***************************************************************************)
EXTENDS TcpBuffer, Sequences

CONSTANTS
  BufferSize,  \* the size of both buffers, 128 in IOThread::addClient
  Lengths,     \* lengths of what wcb_ writes
  MaxIn,       \* bound on the bytes the peer sends
  MaxOut,      \* bound on the bytes wcb_ writes
  MaxSent      \* bound on the bytes the kernel accepts

ASSUME BoundsAssumption ==
  {BufferSize, MaxIn, MaxOut, MaxSent} \cup Lengths \subseteq Nat

VARIABLES
  state_, stop_,
  read_buffer_, write_buffer_,
  listen,      \* the events of the FdEvent registered with epoll
  due,         \* the resumes that the reactor has queued
  pc,          \* where the coroutine is
  arrived,     \* number of bytes the peer has sent
  taken,       \* number of bytes read from the socket
  peer,        \* "open", "fin" or "reset"
  shut,        \* "yes" after shutdown(fd, SHUT_RDWR)
  got,         \* history: the bytes rcb_ has read
  produced,    \* number of bytes wcb_ has written
  sent,        \* history: the bytes written to the socket
  lost         \* history: what a refused or failed call has spoilt

sock == <<arrived, peer>>
vars == <<state_, stop_, read_buffer_, write_buffer_, listen, due, pc, arrived, taken,
          peer, shut, got, produced, sent, lost>>

Unread(b) == [k \in 1..ReadAble(b) |-> b.data[b.ri + k - 1]]
Upto(n) == [k \in 1..n |-> k]

(* The server constructor; addCoroutine has queued the first resume, which *)
(* starts MainServerLoopCorFunc.                                           *)
Init ==
  /\ state_ = "Connected" /\ stop_ = "no"
  /\ read_buffer_ = NewBuffer(BufferSize) /\ write_buffer_ = NewBuffer(BufferSize)
  /\ listen = {} /\ due = <<>> /\ pc = "loop"
  /\ arrived = 0 /\ taken = 0 /\ peer = "open" /\ shut = "no"
  /\ got = <<>> /\ produced = 0 /\ sent = <<>> /\ lost = {}
-----------------------------------------------------------------------------
(* The peer: sends bytes, closes, or resets the connection, also one that  *)
(* it has closed.                                                          *)
PeerSends ==
  /\ peer = "open" /\ arrived < MaxIn
  /\ \E n \in arrived + 1..MaxIn : arrived' = n
  /\ UNCHANGED <<state_, stop_, read_buffer_, write_buffer_, listen, due, pc, taken,
                 peer, shut, got, produced, sent, lost>>

PeerEnds ==
  /\ \/ peer = "open" /\ peer' = "fin"
     \/ peer # "reset" /\ peer' = "reset"
  /\ UNCHANGED <<state_, stop_, read_buffer_, write_buffer_, listen, due, pc, arrived,
                 taken, shut, got, produced, sent, lost>>
-----------------------------------------------------------------------------
(* The reactor and the time wheel.                                         *)
Yielded == pc \in {"rwait", "wwait", "done"}

(* Level-triggered epoll: what is listened to and ready is queued, the     *)
(* read callback before the write callback; both resume the coroutine.     *)
Readable == arrived > taken \/ peer # "open" \/ shut = "yes"
Poll ==
  /\ Yielded /\ due = <<>>
  /\ \E writable \in (IF Len(sent) < MaxSent THEN BOOLEAN ELSE {FALSE}) :
       due' = (IF "read" \in listen /\ Readable THEN <<"read">> ELSE <<>>)
                \o (IF "write" \in listen /\ writable THEN <<"write">> ELSE <<>>)
  /\ due' # <<>>
  /\ UNCHANGED <<state_, stop_, read_buffer_, write_buffer_, listen, pc, sock, taken,
                 shut, got, produced, sent, lost>>

(* A call on the fd after close(fd) would be a call on somebody else's fd. *)
Touch == IF state_ = "Closed" THEN {"closed"} ELSE {}

(* shutdownConnection(), from the slot the time wheel drops.               *)
ShutdownConnection ==
  /\ Yielded /\ state_ # "Closed"
  /\ state_' = "HalfClosing" /\ shut' = "yes" /\ lost' = lost \cup Touch
  /\ UNCHANGED <<stop_, read_buffer_, write_buffer_, listen, due, pc, sock, taken, got,
                 produced, sent>>
-----------------------------------------------------------------------------
(* MainServerLoopCorFunc and input().                                      *)
Loop ==
  /\ pc = "loop"
  /\ pc' = IF stop_ = "yes" THEN "done" ELSE IF state_ = "Closed" THEN "app" ELSE "read"
  /\ UNCHANGED <<state_, stop_, read_buffer_, write_buffer_, listen, due, sock, taken,
                 shut, got, produced, sent, lost>>

(* Defect: the loop of the coroutine is not told to stop.                  *)
ClearClientGoesOn ==
  /\ listen' = {} /\ state_' = "Closed" /\ UNCHANGED stop_

(* clearClient(): out of epoll, stop the loop, close the fd.               *)
ClearClient ==
  /\ listen' = {} /\ stop_' = "yes" /\ state_' = "Closed"

(* The buffer input() reads into, doubled when it is full.                 *)
Room == IF WriteAble(read_buffer_) = 0
        THEN ResizeBuffer(read_buffer_, 2 * read_buffer_.size) ELSE read_buffer_

(* What a read of the socket may give: the bytes that are there; then -1   *)
(* when nothing has come or, once, after a reset; 0 at the end.            *)
SysRead ==
  LET n == Least(WriteAble(Room), arrived - taken)
  IN  IF n > 0 THEN {n}
      ELSE IF peer = "reset" THEN {-1, 0}
      ELSE IF peer = "fin" \/ shut = "yes" THEN {0} ELSE {-1}

(* Defect: input() ends without recycleWrite.                              *)
StoreUnrecorded(rt) ==
  IF rt > 0 THEN Buf(Room.size, Fill(Room, taken + 1, rt), Room.ri, Room.wi) ELSE Room

(* The read buffer after the read and recycleWrite.                        *)
Store(rt) ==
  RecycleWrite(IF rt > 0
               THEN Buf(Room.size, Fill(Room, taken + 1, rt), Room.ri, Room.wi)
               ELSE Room, rt)

(* input() goes on with the result of read_hook: a result that is not      *)
(* positive clears the connection; a full read is followed by another, a   *)
(* short one ends input().                                                 *)
ReadReturns(rt, listening) ==
  LET full == rt = WriteAble(Room)
  IN  /\ read_buffer_' = Store(rt)
      /\ taken' = IF rt > 0 THEN taken + rt ELSE taken
      /\ lost' = lost \cup Touch \cup (IF full THEN {"in"} ELSE {})
      /\ \/ rt <= 0 /\ ClearClient /\ pc' = "app"
         \/ /\ rt > 0 /\ pc' = IF full THEN "read" ELSE "app"
            /\ listen' = listening /\ UNCHANGED <<stop_, state_>>

(* read_hook listens first, then reads, and yields unless it got bytes.    *)
Read ==
  /\ pc = "read"
  /\ \/ \E rt \in SysRead : rt > 0 /\ ReadReturns(rt, listen \cup {"read"})
     \/ /\ \E rt \in SysRead : rt <= 0
        /\ read_buffer_' = Room /\ pc' = "rwait" /\ listen' = listen \cup {"read"}
        /\ lost' = lost \cup Touch
        /\ UNCHANGED <<state_, stop_, taken>>
  /\ UNCHANGED <<write_buffer_, due, sock, shut, got, produced, sent>>

(* Whatever resumes the coroutine, the second read is final.               *)
ResumeRead ==
  /\ pc = "rwait" /\ due # <<>>
  /\ due' = Tail(due)
  /\ \E rt \in SysRead : ReadReturns(rt, listen)
  /\ UNCHANGED <<write_buffer_, sock, shut, got, produced, sent>>
-----------------------------------------------------------------------------
(* The callbacks, run also after input() has closed the connection: rcb_   *)
(* reads all there is, wcb_ writes an answer of n bytes.  After a failed   *)
(* read of an empty buffer readAble() is -1, and readFromBuffer throws.    *)
Callbacks(n) ==
  /\ pc = "app" /\ produced + n <= MaxOut
  /\ IF ReadAble(read_buffer_) < 0
     THEN /\ pc' = "killed"
          /\ UNCHANGED <<read_buffer_, write_buffer_, got, produced>>
     ELSE /\ got' = got \o Unread(read_buffer_)
          /\ read_buffer_' = ReadFromBuffer(read_buffer_, ReadAble(read_buffer_))
          /\ write_buffer_' = IF n = 0 THEN write_buffer_
                              ELSE WriteToBuffer(write_buffer_, produced + 1, n)
          /\ produced' = produced + n
          /\ pc' = "out"
  /\ UNCHANGED <<state_, stop_, listen, due, sock, taken, shut, sent, lost>>
-----------------------------------------------------------------------------
(* output().                                                               *)
OutputEnds ==
  /\ pc = "out" /\ (state_ # "Connected" \/ ReadAble(write_buffer_) = 0)
  /\ pc' = "loop"
  /\ UNCHANGED <<state_, stop_, read_buffer_, write_buffer_, listen, due, sock, taken,
                 shut, got, produced, sent, lost>>

(* Defect: output() returns and leaves the write event registered.         *)
WriteReturnsListening(rt, listening) ==
  LET b == RecycleRead(write_buffer_, rt)
      refused == write_buffer_.ri + rt >= write_buffer_.size
  IN  /\ write_buffer_' = b
      /\ sent' = IF rt > 0 THEN sent \o SubSeq(Unread(write_buffer_), 1, rt) ELSE sent
      /\ lost' = lost \cup Touch \cup (IF rt < 0 \/ refused THEN {"out"} ELSE {})
      /\ listen' = listening
      /\ pc' = IF b.ri < 0 THEN "undefined" ELSE IF ReadAble(b) <= 0 THEN "loop" ELSE "out"

(* output() goes on with the result of write_hook: recycleRead, whatever   *)
(* the result; when nothing is left it stops listening and returns.  An    *)
(* index of -1 makes the next write read before the buffer.                *)
WriteReturns(rt, listening) ==
  LET b == RecycleRead(write_buffer_, rt)
      refused == write_buffer_.ri + rt >= write_buffer_.size
  IN  /\ write_buffer_' = b
      /\ sent' = IF rt > 0 THEN sent \o SubSeq(Unread(write_buffer_), 1, rt) ELSE sent
      /\ lost' = lost \cup Touch \cup (IF rt < 0 \/ refused THEN {"out"} ELSE {})
      /\ \/ b.ri < 0 /\ pc' = "undefined" /\ listen' = listening
         \/ b.ri >= 0 /\ ReadAble(b) <= 0 /\ pc' = "loop" /\ listen' = listening \ {"write"}
         \/ b.ri >= 0 /\ ReadAble(b) > 0 /\ pc' = "out" /\ listen' = listening

(* What a write to the socket may accept.                                  *)
SysWrite == 1..Least(ReadAble(write_buffer_), MaxSent - Len(sent))

(* A write after a shutdown, or after the first error of a reset, raises   *)
(* SIGPIPE, which is nowhere ignored.                                      *)
Broken == peer = "reset" \/ shut = "yes"
Killed == pc' = "killed" /\ UNCHANGED <<write_buffer_, sent, lost, listen>>

(* write_hook listens first, then writes, and yields unless the kernel     *)
(* accepted something.                                                     *)
Write ==
  /\ pc = "out" /\ state_ = "Connected" /\ ReadAble(write_buffer_) # 0
  /\ \/ Broken /\ Killed
     \/ ~Broken /\ \E n \in SysWrite : WriteReturns(n, listen \cup {"write"})
     \/ /\ shut = "no" /\ pc' = "wwait" /\ listen' = listen \cup {"write"}
        /\ lost' = lost \cup Touch
        /\ UNCHANGED <<write_buffer_, sent>>
  /\ UNCHANGED <<state_, stop_, read_buffer_, due, sock, taken, shut, got, produced>>

(* A resume may find the kernel full, or full again: -1.                   *)
ResumeWrite ==
  /\ pc = "wwait" /\ due # <<>>
  /\ due' = Tail(due)
  /\ \/ Broken /\ Killed
     \/ ~Broken /\ \E n \in SysWrite : WriteReturns(n, listen)
     \/ shut = "no" /\ WriteReturns(-1, listen)
  /\ UNCHANGED <<state_, stop_, read_buffer_, sock, taken, shut, got, produced>>
-----------------------------------------------------------------------------
Coroutine ==
  \/ Loop \/ Read \/ ResumeRead \/ OutputEnds \/ Write \/ ResumeWrite
  \/ \E n \in Lengths \cup {0} : Callbacks(n)
Next == Coroutine \/ Poll \/ ShutdownConnection \/ PeerSends \/ PeerEnds

(* The reactor polls and resumes, and the coroutine runs when resumed.     *)
Spec == Init /\ [][Next]_vars
FairSpec == Spec /\ WF_vars(Coroutine) /\ WF_vars(Poll)
-----------------------------------------------------------------------------
(* Properties.                                                             *)

(* The state has its type, and as long as the connection is not closed the *)
(* unread bytes lie within the read buffer.                                *)
TypeOK ==
  /\ state_ \in {"Connected", "HalfClosing", "Closed"} /\ stop_ \in {"yes", "no"}
  /\ listen \subseteq {"read", "write"} /\ Len(due) <= 2
  /\ pc \in {"loop", "read", "rwait", "app", "out", "wwait", "done", "killed", "undefined"}
  /\ taken <= arrived
  /\ state_ # "Closed" => /\ 0 <= read_buffer_.ri /\ read_buffer_.ri <= read_buffer_.wi
                          /\ read_buffer_.wi <= read_buffer_.size

(* The bytes pass in order, in both directions, as long as no read has     *)
(* filled the read buffer to its end, no write has emptied the write       *)
(* buffer to its end, and no write has failed: the buffers, the hooks and  *)
(* the loops of input() and output() lose and repeat nothing by            *)
(* themselves, and the indices of the read buffer stay within it.          *)
InOrderUnlessRefused ==
  /\ TypeOK
  /\ "in" \notin lost /\ pc # "killed" /\ state_ # "Closed"
       => got \o Unread(read_buffer_) = Upto(taken)
  /\ "out" \notin lost => sent \o Unread(write_buffer_) = Upto(produced)

(* A closed connection is left alone.  After close(fd) nothing makes a call *)
(* on the fd, which may be another connection's by then: neither the       *)
(* callbacks and output() that still follow, nor the time wheel.  And a    *)
(* coroutine that has left its loop is never resumed again, which would    *)
(* run it past the end of CoFunction: although two callbacks of one fd may *)
(* be queued in a round, the first of them to close the connection leaves  *)
(* none behind.                                                            *)
ClosedIsLeft == "closed" \notin lost /\ (pc = "done" => due = <<>>)

Dead == pc \in {"killed", "undefined"}

(* A connection that is shut down is closed in the end, and a closed one   *)
(* leaves its loop, unless the process has died.                           *)
Ends ==
  /\ state_ = "HalfClosing" ~> (state_ = "Closed" \/ Dead)
  /\ state_ = "Closed" ~> (pc = "done" \/ Dead)

(* A full read "should continue read" until input() has "read all data in  *)
(* socket buffer": what the callbacks get is what the peer sent.           *)
ReceivedInOrder == \A k \in DOMAIN got : got[k] = k
=============================================================================

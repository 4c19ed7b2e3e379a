------------------------- MODULE TcpConnectionProofs -------------------------
(***************************************************************************)
(* Proofs about a TcpConnection and its buffers, for any buffer size, any  *)
(* lengths of the answers and any bounds.                                  *)
(*                                                                         *)
(* A TcpBuffer is a queue, through every sequence of writes, reads and     *)
(* clears.  The argument: Holds(b, first, n) says that the n unread bytes  *)
(* of b are first, first + 1, ... in this order and that the indices lie   *)
(* within the buffer; each operation of TcpBuffer takes a buffer that      *)
(* holds something to one that holds what it should.                       *)
(*                                                                         *)
(* A closed connection is left alone: Alone ties the place of the          *)
(* coroutine to stop_, the state and the events of the fd.                 *)
(*                                                                         *)
(* The bytes pass in order: Ordered says that what a buffer still holds is *)
(* what follows what has left it, and each call on a buffer, taken with    *)
(* the system call around it, keeps that or puts the direction in lost.    *)
(*                                                                         *)
(* The numbers of codec::Binary, which travel in these buffers, are        *)
(* written the most significant byte first on either kind of host, and any *)
(* host reads back what any host wrote.                                    *)
(***************************************************************************)
EXTENDS BufferQueue, TcpConnection, Codec, SequenceTheorems, TLAPS

Buffer(b) ==
  /\ b.size \in Nat /\ b.ri \in Nat /\ b.wi \in Nat
  /\ b.ri <= b.wi /\ b.wi <= b.size
  /\ DOMAIN b = {"size", "data", "ri", "wi"}
  /\ DOMAIN b.data = 0..(b.size - 1)

Holds(b, first, n) ==
  /\ Buffer(b)
  /\ b.wi - b.ri = n
  /\ \A k \in 0..(n - 1) : b.data[b.ri + k] = first + k

(* The arithmetic of the indices, free of buffers.                         *)
LEMMA Fits ==
  ASSUME NEW size \in Nat, NEW wi \in Nat, NEW m \in Nat, m <= size - wi
  PROVE  wi + m \in Nat /\ wi + m <= size
  OBVIOUS

(* Unread bytes moved to the front of a vector with room for them.         *)
LEMMA MovedHolds ==
  ASSUME NEW b, NEW first \in Nat, NEW n \in Nat, NEW size \in Nat,
         Holds(b, first, n), n <= size
  PROVE  Holds(Buf(size, Moved(b, size, n), 0, n), first, n)
<1> DEFINE r == Buf(size, Moved(b, size, n), 0, n)
<1>1. /\ r.size = size /\ r.data = Moved(b, size, n) /\ r.ri = 0 /\ r.wi = n
      /\ DOMAIN r = {"size", "data", "ri", "wi"}
  BY DEF Buf
<1>2. DOMAIN Moved(b, size, n) = 0..(size - 1)
  BY DEF Moved
<1>3. ASSUME NEW k \in 0..(n - 1) PROVE Moved(b, size, n)[0 + k] = first + k
  BY DEF Moved, Holds
<1> HIDE DEF r
<1>4. Holds(r, first, n)
  BY <1>1, <1>2, <1>3 DEF Holds, Buffer
<1> QED
  BY <1>4 DEF r

(* resizeBuffer keeps every unread byte when there is room for them.       *)
LEMMA ResizeHolds ==
  ASSUME NEW b, NEW first \in Nat, NEW n \in Nat, NEW size \in Nat,
         Holds(b, first, n), n <= size
  PROVE  /\ Holds(ResizeBuffer(b, size), first, n)
         /\ ResizeBuffer(b, size).size = size
         /\ ResizeBuffer(b, size).wi = n
<1> DEFINE r == Buf(size, Moved(b, size, n), 0, n)
<1>1. ResizeBuffer(b, size) = r
  <2>1. Least(size, ReadAble(b)) = n
    BY DEF Holds, Buffer, ReadAble, Least
  <2> QED
    BY <2>1 DEF ResizeBuffer
<1>2. Holds(r, first, n)
  BY MovedHolds
<1>3. r.size = size /\ r.wi = n
  BY DEF Buf
<1> QED
  BY <1>1, <1>2, <1>3

(* Making room keeps the unread bytes, and there is room afterwards.       *)
LEMMA GrowHolds ==
  ASSUME NEW b, NEW first \in Nat, NEW n \in Nat, NEW m \in Nat,
         Holds(b, first, n)
  PROVE  Holds(Grow(b, m), first, n) /\ m <= WriteAble(Grow(b, m))
<1>1. CASE m <= WriteAble(b)
  <2>1. ~(m > WriteAble(b))
    BY <1>1 DEF WriteAble, Holds, Buffer
  <2>2. Grow(b, m) = b
    BY <2>1 DEF Grow
  <2> QED
    BY <1>1, <2>2
<1>2. CASE m > WriteAble(b)
  <2> DEFINE size == (3 * (b.wi + m)) \div 2
  <2>1. b.wi \in Nat /\ b.size \in Nat /\ b.wi <= b.size /\ n <= b.wi
    BY DEF Holds, Buffer
  <2>2. m >= 1
    BY <1>2, <2>1 DEF WriteAble
  <2>3. size \in Nat /\ b.wi + m <= size
    BY <2>1, <2>2
  <2>4. Grow(b, m) = ResizeBuffer(b, size)
    BY <1>2 DEF Grow
  <2>5. n <= size
    BY <2>1, <2>3
  <2> HIDE DEF size
  <2>6. /\ Holds(ResizeBuffer(b, size), first, n)
        /\ ResizeBuffer(b, size).size = size
        /\ ResizeBuffer(b, size).wi = n
    BY <2>3, <2>5, ResizeHolds
  <2> QED
    BY <2>1, <2>3, <2>4, <2>6 DEF WriteAble
<1> QED
  BY <1>1, <1>2 DEF WriteAble, Holds, Buffer

(* Bytes stored behind the unread ones, where there is room for them.      *)
LEMMA FillHolds ==
  ASSUME NEW g, NEW first \in Nat, NEW n \in Nat, NEW m \in Nat,
         Holds(g, first, n), m <= WriteAble(g)
  PROVE  Holds(Buf(g.size, Fill(g, first + n, m), g.ri, g.wi + m), first, n + m)
<1> DEFINE data == Fill(g, first + n, m)
           w == Buf(g.size, data, g.ri, g.wi + m)
<1>1. /\ w.size = g.size /\ w.data = data /\ w.ri = g.ri /\ w.wi = g.wi + m
      /\ DOMAIN w = {"size", "data", "ri", "wi"}
  BY DEF Buf
<1> HIDE DEF w
<1>2. Holds(w, first, n + m)
  <2>1. /\ g.size \in Nat /\ g.ri \in Nat /\ g.wi \in Nat
        /\ g.ri <= g.wi /\ g.wi + m <= g.size /\ g.wi - g.ri = n
    <3>1. /\ g.size \in Nat /\ g.ri \in Nat /\ g.wi \in Nat
          /\ g.ri <= g.wi /\ g.wi - g.ri = n
      BY DEF Holds, Buffer
    <3>2. m <= g.size - g.wi
      BY DEF WriteAble
    <3>3. g.wi + m <= g.size
      BY <3>1, <3>2, Fits
    <3> QED
      BY <3>1, <3>3
  <2>2. DOMAIN data = 0..(g.size - 1)
    BY DEF Fill
  <2>3. Buffer(w)
    <3>1. g.wi + m \in Nat /\ g.ri <= g.wi + m
      BY <2>1
    <3>2. /\ w.size \in Nat /\ w.ri \in Nat /\ w.wi \in Nat
          /\ w.ri <= w.wi /\ w.wi <= w.size
      BY <1>1, <2>1, <3>1
    <3>3. DOMAIN w.data = 0..(w.size - 1)
      BY <1>1, <2>2
    <3> QED
      BY <1>1, <3>2, <3>3 DEF Buffer
  <2>4. ASSUME NEW k \in 0..((n + m) - 1)
        PROVE  data[g.ri + k] = first + k
    <3>1. g.ri + k \in 0..(g.size - 1)
      BY <2>1
    <3>2. data[g.ri + k] = IF g.wi <= g.ri + k /\ g.ri + k < g.wi + m
                           THEN (first + n) + ((g.ri + k) - g.wi) ELSE g.data[g.ri + k]
      BY <3>1 DEF Fill
    <3>3. CASE k < n
      <4>1. g.data[g.ri + k] = first + k
        BY <3>3 DEF Holds
      <4>2. ~(g.wi <= g.ri + k)
        BY <2>1, <3>3
      <4> QED
        BY <3>2, <4>1, <4>2
    <3>4. CASE k >= n
      BY <2>1, <3>2, <3>4
    <3> QED
      BY <3>3, <3>4
  <2> HIDE DEF data
  <2>5. w.wi - w.ri = n + m
    <3>1. w.wi = g.wi + m /\ w.ri = g.ri
      BY <1>1
    <3>2. (g.wi + m) - g.ri = n + m
      BY <2>1
    <3> QED
      BY <3>1, <3>2
  <2> QED
    BY <1>1, <2>3, <2>4, <2>5 DEF Holds
<1> QED
  BY <1>2 DEF w

(* writeToBuffer appends the new bytes behind the unread ones.             *)
LEMMA WriteHolds ==
  ASSUME NEW b, NEW first \in Nat, NEW n \in Nat, NEW m \in Nat,
         Holds(b, first, n)
  PROVE  Holds(WriteToBuffer(b, first + n, m), first, n + m)
<1>1. Holds(Grow(b, m), first, n) /\ m <= WriteAble(Grow(b, m))
  BY GrowHolds
<1>2. PICK g : g = Grow(b, m)
  BY Zenon
<1>3. WriteToBuffer(b, first + n, m) = Buf(g.size, Fill(g, first + n, m), g.ri, g.wi + m)
  BY <1>2, Zenon DEF WriteToBuffer
<1> QED
  BY <1>1, <1>2, <1>3, FillHolds

(* adjustBuffer keeps the unread bytes.                                    *)
LEMMA AdjustHolds ==
  ASSUME NEW b, NEW first \in Nat, NEW n \in Nat, Holds(b, first, n)
  PROVE  Holds(AdjustBuffer(b), first, n)
<1>1. CASE b.ri > b.size \div 3
  <2>1. ReadAble(b) = n /\ b.size \in Nat /\ n <= b.size
    BY DEF Holds, Buffer, ReadAble
  <2>2. AdjustBuffer(b) = Buf(b.size, Moved(b, b.size, n), 0, n)
    BY <1>1, <2>1 DEF AdjustBuffer
  <2> QED
    BY <2>1, <2>2, MovedHolds
<1>2. CASE ~(b.ri > b.size \div 3)
  BY <1>2 DEF AdjustBuffer
<1> QED
  BY <1>1, <1>2

(* The oldest d bytes are skipped.                                         *)
LEMMA SkipHolds ==
  ASSUME NEW b, NEW first \in Nat, NEW n \in Nat, NEW d \in 0..n,
         Holds(b, first, n)
  PROVE  Holds(Buf(b.size, b.data, b.ri + d, b.wi), first + d, n - d)
<1> DEFINE c == Buf(b.size, b.data, b.ri + d, b.wi)
<1>1. /\ c.size = b.size /\ c.data = b.data /\ c.ri = b.ri + d /\ c.wi = b.wi
      /\ DOMAIN c = {"size", "data", "ri", "wi"}
  BY DEF Buf
<1> HIDE DEF c
<1>2. /\ b.size \in Nat /\ b.ri \in Nat /\ b.wi \in Nat
      /\ b.wi - b.ri = n /\ b.wi <= b.size /\ DOMAIN b.data = 0..(b.size - 1)
  BY DEF Holds, Buffer
<1>3. Buffer(c) /\ c.wi - c.ri = n - d
  <2>0. b.ri \in Nat /\ b.wi \in Nat /\ b.wi - b.ri = n
    BY <1>2
  <2>1. /\ b.ri + d \in Nat /\ b.ri + d <= b.wi
        /\ b.wi - (b.ri + d) = n - d
    BY <2>0
  <2>2. /\ c.size \in Nat /\ c.ri \in Nat /\ c.wi \in Nat
        /\ c.ri <= c.wi /\ c.wi <= c.size /\ c.wi - c.ri = n - d
    BY <1>1, <1>2, <2>1
  <2>3. DOMAIN c.data = 0..(c.size - 1)
    BY <1>1, <1>2
  <2> QED
    BY <1>1, <2>2, <2>3 DEF Buffer
<1>4. ASSUME NEW k \in 0..((n - d) - 1)
      PROVE  b.data[(b.ri + d) + k] = (first + d) + k
  <2>1. d + k \in 0..(n - 1) /\ b.ri + (d + k) = (b.ri + d) + k
    BY <1>2
  <2>2. b.data[b.ri + (d + k)] = first + (d + k)
    BY <2>1 DEF Holds
  <2> QED
    BY <2>1, <2>2
<1>5. Holds(c, first + d, n - d)
  BY <1>1, <1>3, <1>4 DEF Holds
<1> QED
  BY <1>5 DEF c

(* readFromBuffer takes the oldest bytes away.                             *)
LEMMA ReadHolds ==
  ASSUME NEW b, NEW first \in Nat, NEW n \in Nat, NEW m \in Nat,
         Holds(b, first, n)
  PROVE  /\ ReadSize(b, m) \in 0..n
         /\ Holds(ReadFromBuffer(b, m), first + ReadSize(b, m), n - ReadSize(b, m))
<1>1. ReadSize(b, m) \in 0..n /\ ReadAble(b) = n
  BY DEF ReadSize, ReadAble, Least, Holds, Buffer
<1>2. CASE n = 0
  <2>1. ReadSize(b, m) = 0 /\ ReadFromBuffer(b, m) = b
    BY <1>1, <1>2 DEF ReadFromBuffer
  <2> QED
    BY <1>1, <1>2, <2>1
<1>3. CASE n # 0
  <2> DEFINE d == ReadSize(b, m)
             c == Buf(b.size, b.data, b.ri + d, b.wi)
  <2>1. ReadFromBuffer(b, m) = AdjustBuffer(c)
    BY <1>1, <1>3 DEF ReadFromBuffer
  <2>2. d \in 0..n
    BY <1>1
  <2> HIDE DEF d
  <2>3. Holds(c, first + d, n - d)
    BY <2>2, SkipHolds
  <2>4. first + d \in Nat /\ n - d \in Nat
    BY <2>2
  <2> HIDE DEF c
  <2>5. Holds(AdjustBuffer(c), first + d, n - d)
    BY <2>3, <2>4, AdjustHolds
  <2> QED
    BY <1>1, <2>1, <2>5 DEF d
<1> QED
  BY <1>2, <1>3

(* A fresh or cleared buffer holds nothing.                                *)
LEMMA NewHolds ==
  ASSUME NEW size \in Nat, NEW first \in Nat
  PROVE  Holds(NewBuffer(size), first, 0)
  BY DEF Holds, Buffer, NewBuffer, Buf
-----------------------------------------------------------------------------
(* The inductive invariant.                                                *)
IInv ==
  /\ written \in Nat /\ gone \in Nat /\ gone <= written
  /\ Holds(buf, gone + 1, written - gone)

LEMMA IInvInit == BufferInit => IInv
  BY NewHolds, SizeAssumption DEF BufferInit, IInv

LEMMA IInvStep == IInv /\ [BufferNext]_bvars => IInv'
<1> SUFFICES ASSUME IInv, [BufferNext]_bvars PROVE IInv'
  OBVIOUS
<1>1. /\ written \in Nat /\ gone \in Nat /\ gone <= written
      /\ written - gone \in Nat /\ gone + 1 \in Nat
      /\ Holds(buf, gone + 1, written - gone)
  BY DEF IInv
<1>2. CASE BufferClear
  <2>1. buf' = NewBuffer(0) /\ gone' = written /\ written' = written
    BY <1>2 DEF BufferClear, ClearBuffer
  <2>2. Holds(NewBuffer(0), written + 1, 0)
    BY <1>1, NewHolds
  <2> QED
    BY <1>1, <2>1, <2>2 DEF IInv
<1>3. ASSUME NEW m \in Amounts, BufferWrite(m) PROVE IInv'
  <2>1. m \in Nat
    BY SizeAssumption
  <2>2. /\ buf' = WriteToBuffer(buf, written + 1, m)
        /\ written' = written + m /\ gone' = gone
    BY <1>3 DEF BufferWrite
  <2>3. Holds(WriteToBuffer(buf, (gone + 1) + (written - gone), m), gone + 1,
              (written - gone) + m)
    BY <1>1, <2>1, WriteHolds, Zenon
  <2>4. (gone + 1) + (written - gone) = written + 1
        /\ (written - gone) + m = written' - gone'
    BY <1>1, <2>1, <2>2
  <2> QED
    BY <1>1, <2>1, <2>2, <2>3, <2>4 DEF IInv
<1>4. ASSUME NEW m \in Amounts, BufferRead(m) PROVE IInv'
  <2> DEFINE d == ReadSize(buf, m)
  <2>1. m \in Nat
    BY SizeAssumption
  <2>2. buf' = ReadFromBuffer(buf, m) /\ gone' = gone + d /\ written' = written
    BY <1>4 DEF BufferRead
  <2>3. d \in 0..(written - gone)
        /\ Holds(ReadFromBuffer(buf, m), (gone + 1) + d, (written - gone) - d)
    BY <1>1, <2>1, ReadHolds
  <2> HIDE DEF d
  <2>4. (gone + 1) + d = gone' + 1 /\ (written - gone) - d = written' - gone'
    BY <1>1, <2>2, <2>3
  <2> QED
    BY <1>1, <2>2, <2>3, <2>4 DEF IInv
<1>5. CASE UNCHANGED bvars
  BY <1>5 DEF IInv, bvars
<1> QED
  BY <1>2, <1>3, <1>4, <1>5 DEF BufferNext

(* Queue from the invariant.                                               *)
LEMMA IInvQueue == IInv => Queue
<1> SUFFICES ASSUME IInv PROVE Queue
  OBVIOUS
<1>1. ReadAble(buf) = written - gone
  BY DEF IInv, Holds, Buffer, ReadAble
<1> QED
  BY <1>1 DEF IInv, Holds, Queue

(* For every size of the buffer and all lengths, what can be read from it  *)
(* is what was written and not read yet, in order.                         *)
THEOREM BufferIsQueue == BufferSpec => []Queue
<1>1. IInv /\ [BufferNext]_bvars => IInv'
  BY IInvStep
<1> QED
  BY IInvInit, <1>1, IInvQueue, PTL DEF BufferSpec

(* IndicesOK from the invariant.                                           *)
LEMMA IInvType == IInv => IndicesOK
  BY DEF IInv, Holds, Buffer, IndicesOK

(* The indices never leave the buffer, so neither does a memcpy.           *)
THEOREM IndicesInBounds == BufferSpec => []IndicesOK
<1>1. IInv /\ [BufferNext]_bvars => IInv'
  BY IInvStep
<1> QED
  BY IInvInit, <1>1, IInvType, PTL DEF BufferSpec
-----------------------------------------------------------------------------
(* The connection, once closed.                                            *)

(* The indices of a buffer are numbers, whatever the calls did to them.    *)
Ints(b) == b.size \in Int /\ b.ri \in Int /\ b.wi \in Int

(* Only output() leaves a second callback in the queue, because only it    *)
(* listens to both events: it stops listening to "write" before it returns *)
(* unless the process dies.  Hence input(), which closes, is resumed by    *)
(* the last callback of the round, and after it nobody listens.            *)
Alone ==
  /\ Ints(read_buffer_) /\ arrived \in Int /\ taken \in Int
  /\ state_ \in {"Connected", "HalfClosing", "Closed"} /\ listen \subseteq {"read", "write"}
  /\ due \in {<<>>, <<"read">>, <<"write">>, <<"read", "write">>}
  /\ "closed" \notin lost
  /\ stop_ = "yes" => /\ state_ = "Closed" /\ due = <<>> /\ listen = {}
                      /\ pc \in {"app", "out", "loop", "done", "killed"}
  /\ stop_ # "yes" => state_ # "Closed" /\ pc # "done"
  /\ state_ = "HalfClosing" => shut = "yes"
  /\ pc \in {"loop", "read", "rwait", "app", "done"} => "write" \notin listen
  /\ pc = "out" /\ "write" \in listen => state_ = "Connected" /\ ReadAble(write_buffer_) > 0
  /\ pc \notin {"wwait", "killed", "undefined"} => due # <<"read", "write">>

(* The rounds of callbacks there can be, and what is left of them.         *)
LEMMA Rounds ==
  /\ Tail(<<"read">>) = <<>> /\ Tail(<<"write">>) = <<>>
  /\ Tail(<<"read", "write">>) = <<"write">>
  /\ <<"read">> \o <<"write">> = <<"read", "write">>
  /\ <<"read">> \o <<>> = <<"read">> /\ <<>> \o <<"write">> = <<"write">>
  /\ <<>> \o <<>> = <<>>
  /\ <<"read">> # <<"read", "write">> /\ <<"write">> # <<"read", "write">>
<1>1. Tail(<<"read">>) = <<>> /\ Tail(<<"write">>) = <<>>
  OBVIOUS
<1>2. Tail(<<"read", "write">>) = <<"write">>
  OBVIOUS
<1>3. <<"read">> \o <<"write">> = <<"read", "write">>
  <2> DEFINE S == {"read", "write"}
             s == <<"read">> \o <<"write">>
  <2>1. <<"read">> \in Seq(S) /\ <<"write">> \in Seq(S) /\ <<"read", "write">> \in Seq(S)
    OBVIOUS
  <2>2. s \in Seq(S) /\ Len(s) = 2 /\ s[1] = "read" /\ s[2] = "write"
    BY <2>1
  <2> HIDE DEF s
  <2>3. s = <<"read", "write">>
    BY <2>1, <2>2
  <2>4. QED
    BY <2>3 DEF s
<1>4. <<"read">> \o <<>> = <<"read">> /\ <<>> \o <<"write">> = <<"write">> /\ <<>> \o <<>> = <<>>
  OBVIOUS
<1>5. <<"read">> # <<"read", "write">> /\ <<"write">> # <<"read", "write">>
  OBVIOUS
<1>6. QED
  BY <1>1, <1>2, <1>3, <1>4, <1>5

(* What input() does to the read buffer.                                   *)
LEMMA RoomInts ==
  ASSUME Ints(read_buffer_)
  PROVE  Ints(Room)
BY DEF Ints, Room, WriteAble, ResizeBuffer, ReadAble, Least, Buf

LEMMA RecycleInts ==
  ASSUME NEW b, NEW rt \in Int, Ints(b)
  PROVE  Ints(RecycleWrite(b, rt))
<1> DEFINE c == Buf(b.size, b.data, b.ri, b.wi + rt)
<1>1. Ints(c)
  BY DEF Ints, Buf
<1>2. Ints(AdjustBuffer(c))
  <2> HIDE DEF c
  <2> QED
    BY <1>1 DEF Ints, AdjustBuffer, ReadAble, Buf
<1>3. QED
  BY <1>2 DEF RecycleWrite

LEMMA StoreInts ==
  ASSUME Ints(read_buffer_), NEW rt \in Int
  PROVE  Ints(Store(rt))
<1>1. Ints(Buf(Room.size, Fill(Room, taken + 1, rt), Room.ri, Room.wi)) /\ Ints(Room)
  BY RoomInts DEF Ints, Buf
<1>2. QED
  BY <1>1, RecycleInts DEF Store

LEMMA CallbackInts ==
  ASSUME Ints(read_buffer_)
  PROVE  Ints(ReadFromBuffer(read_buffer_, ReadAble(read_buffer_)))
BY DEF Ints, ReadFromBuffer, ReadSize, Least, AdjustBuffer, ReadAble, Buf

LEMMA SysReadInts ==
  ASSUME Ints(read_buffer_), arrived \in Int, taken \in Int
  PROVE  SysRead \subseteq Int
BY RoomInts DEF Ints, SysRead, Least, WriteAble
-----------------------------------------------------------------------------
(* input() after a read: it goes on, or closes with nothing left to come.  *)
LEMMA ReadReturnsAlone ==
  ASSUME Alone, NEW rt \in Int, NEW listening \in SUBSET {"read"},
         pc \in {"read", "rwait"},
         ReadReturns(rt, listening), arrived' = arrived, shut' = shut,
         due' \in {<<>>, <<"read">>, <<"write">>}, rt > 0 \/ due' = <<>>
  PROVE  Alone'
<1>1. Ints(read_buffer_') /\ arrived' \in Int /\ taken' \in Int
  BY StoreInts DEF Alone, ReadReturns
<1>2. "closed" \notin lost'
  BY DEF Alone, ReadReturns, Touch
<1>3. CASE rt <= 0 /\ ClearClient /\ pc' = "app"
  BY <1>1, <1>2, <1>3 DEF Alone, ClearClient
<1>4. CASE /\ rt > 0 /\ pc' \in {"read", "app"}
           /\ listen' = listening /\ UNCHANGED <<stop_, state_>>
  BY <1>1, <1>2, <1>4 DEF Alone
<1>5. QED
  BY <1>3, <1>4 DEF ReadReturns

(* output() after a write.                                                 *)
LEMMA WriteReturnsAlone ==
  ASSUME Alone, NEW rt, NEW listening,
         state_ = "Connected", listening \subseteq {"read", "write"},
         WriteReturns(rt, listening), due' \in {<<>>, <<"read">>, <<"write">>},
         UNCHANGED <<state_, stop_, read_buffer_, arrived, taken, shut>>
  PROVE  Alone'
<1>1. "closed" \notin lost'
  BY DEF Alone, WriteReturns, Touch
<1>2. /\ listen' \subseteq {"read", "write"}
      /\ \/ pc' = "undefined"
         \/ pc' = "loop" /\ "write" \notin listen'
         \/ pc' = "out" /\ ReadAble(write_buffer_') > 0
  BY Zenon DEF WriteReturns
<1>3. QED
  BY <1>1, <1>2 DEF Alone

(* The coroutine.                                                          *)
LEMMA CoroutineAlone ==
  ASSUME Alone, Coroutine
  PROVE  Alone'
<1>1. CASE Loop
  BY <1>1 DEF Alone, Loop, sock
<1>2. CASE Read
  <2>1. ASSUME NEW rt \in SysRead, rt > 0, ReadReturns(rt, listen \cup {"read"})
        PROVE  Alone'
    <3>1. rt \in Int /\ pc = "read" /\ UNCHANGED <<due, arrived, shut>>
      BY <1>2, SysReadInts DEF Alone, Read, sock
    <3>2. due \in {<<>>, <<"read">>, <<"write">>} /\ listen \cup {"read"} \in SUBSET {"read"}
      BY <3>1 DEF Alone
    <3>3. QED
      BY <2>1, <3>1, <3>2, ReadReturnsAlone
  <2>2. CASE /\ read_buffer_' = Room /\ pc' = "rwait" /\ listen' = listen \cup {"read"}
             /\ lost' = lost \cup Touch
             /\ UNCHANGED <<state_, stop_, taken>>
    BY <1>2, <2>2, RoomInts DEF Alone, Read, Touch, sock
  <2>3. QED
    BY <1>2, <2>1, <2>2 DEF Read
<1>3. CASE ResumeRead
  <2>1. pc = "rwait" /\ due # <<>> /\ due' = Tail(due) /\ UNCHANGED <<arrived, shut>>
    BY <1>3 DEF ResumeRead, sock
  <2>2. /\ due' \in {<<>>, <<"read">>, <<"write">>} /\ due' = <<>>
        /\ listen \in SUBSET {"read"}
    <3>1. due \in {<<"read">>, <<"write">>} /\ "write" \notin listen
      BY <2>1 DEF Alone
    <3>2. QED
      BY <2>1, <3>1, Rounds, Zenon DEF Alone
  <2>3. ASSUME NEW rt \in SysRead, ReadReturns(rt, listen)
        PROVE  Alone'
    <3>1. rt \in Int /\ pc = "rwait" /\ UNCHANGED <<arrived, shut>>
      BY <2>1, SysReadInts DEF Alone
    <3>2. QED
      BY <2>2, <2>3, <3>1, ReadReturnsAlone
  <2>4. QED
    BY <1>3, <2>3 DEF ResumeRead
<1>4. CASE OutputEnds
  <2>1. "write" \notin listen
    BY <1>4 DEF Alone, OutputEnds
  <2>2. QED
    BY <1>4, <2>1 DEF Alone, OutputEnds, sock
<1>5. CASE Write
  <2>1. /\ pc = "out" /\ state_ = "Connected"
        /\ UNCHANGED <<state_, stop_, read_buffer_, due, arrived, taken, shut>>
        /\ due \in {<<>>, <<"read">>, <<"write">>}
        /\ listen \cup {"write"} \subseteq {"read", "write"}
    BY <1>5 DEF Alone, Write, sock
  <2>2. CASE Killed
    BY <2>1, <2>2 DEF Alone, Killed
  <2>3. ASSUME NEW n \in SysWrite, WriteReturns(n, listen \cup {"write"}) PROVE Alone'
    BY <2>1, <2>3, WriteReturnsAlone
  <2>4. CASE /\ pc' = "wwait" /\ listen' = listen \cup {"write"}
             /\ lost' = lost \cup Touch
    BY <2>1, <2>4 DEF Alone, Touch
  <2>5. QED
    BY <1>5, <2>2, <2>3, <2>4 DEF Write
<1>6. CASE ResumeWrite
  <2>1. /\ pc = "wwait" /\ due # <<>> /\ due' = Tail(due)
        /\ UNCHANGED <<state_, stop_, read_buffer_, arrived, taken, shut>>
    BY <1>6 DEF ResumeWrite, sock
  <2>2. due' \in {<<>>, <<"read">>, <<"write">>} /\ listen \subseteq {"read", "write"}
        /\ stop_ # "yes"
    <3>1. due \in {<<"read">>, <<"write">>, <<"read", "write">>}
      BY <2>1 DEF Alone
    <3>2. due' \in {<<>>, <<"write">>}
      BY <2>1, <3>1, Rounds, Zenon
    <3>3. QED
      BY <2>1, <3>2 DEF Alone
  <2>3. CASE Killed
    BY <2>1, <2>2, <2>3 DEF Alone, Killed
  <2>4. ASSUME NEW n, WriteReturns(n, listen), shut # "yes" PROVE Alone'
    <3>1. state_ = "Connected"
      BY <2>2, <2>4 DEF Alone
    <3>2. QED
      BY <2>1, <2>2, <2>4, <3>1, WriteReturnsAlone, Zenon
  <2>5. QED
    BY <1>6, <2>3, <2>4 DEF ResumeWrite, Broken
<1>7. ASSUME NEW n \in Lengths \cup {0}, Callbacks(n) PROVE Alone'
  <2>1. /\ pc = "app" /\ pc' \in {"killed", "out"} /\ Ints(read_buffer_')
        /\ UNCHANGED <<state_, stop_, listen, due, arrived, taken, shut, lost>>
    BY <1>7, CallbackInts DEF Alone, Callbacks, sock
  <2>2. QED
    BY <2>1 DEF Alone
<1>8. QED
  BY <1>1, <1>2, <1>3, <1>4, <1>5, <1>6, <1>7 DEF Coroutine

(* The reactor, the time wheel and the peer.                               *)
LEMMA OthersAlone ==
  ASSUME Alone, Poll \/ ShutdownConnection \/ PeerSends \/ PeerEnds
  PROVE  Alone'
<1>1. CASE Poll
  <2>1. /\ due' \in {<<"read">>, <<"write">>, <<"read", "write">>}
        /\ "write" \notin listen => due' = <<"read">>
        /\ listen # {}
    <3>1. PICK writable : due' = (IF "read" \in listen /\ Readable THEN <<"read">> ELSE <<>>)
                             \o (IF "write" \in listen /\ writable THEN <<"write">> ELSE <<>>)
      BY <1>1 DEF Poll
    <3>2. due' # <<>>
      BY <1>1 DEF Poll
    <3> DEFINE r == "read" \in listen /\ Readable
               w == "write" \in listen /\ writable
    <3>3. CASE r /\ w
      BY <3>1, <3>3, Rounds
    <3>4. CASE r /\ ~w
      BY <3>1, <3>4, Rounds, Zenon
    <3>5. CASE ~r /\ w
      BY <3>1, <3>5, Rounds, Zenon
    <3>6. CASE ~r /\ ~w
      BY <3>1, <3>2, <3>6, Rounds
    <3>7. QED
      BY <3>3, <3>4, <3>5, <3>6, Zenon
  <2>2. pc \in {"rwait", "wwait"}
    BY <1>1, <2>1 DEF Alone, Poll, Yielded
  <2>3. UNCHANGED <<state_, stop_, read_buffer_, write_buffer_, listen, pc, arrived, taken,
                   shut, lost>>
    BY <1>1 DEF Poll, sock
  <2>4. stop_ # "yes"
    BY <2>1, Zenon DEF Alone
  <2>5. pc # "wwait" => due' # <<"read", "write">>
    <3>1. CASE pc = "rwait"
      BY <2>1, <3>1, Rounds DEF Alone
    <3>2. QED
      BY <2>2, <3>1
  <2>6. due' \in {<<>>, <<"read">>, <<"write">>, <<"read", "write">>}
    BY <2>1, Zenon
  <2>7. pc' \notin {"wwait", "killed", "undefined"} => due' # <<"read", "write">>
    BY <2>3, <2>5, Zenon
  <2>8. stop_' # "yes"
    BY <2>3, <2>4
  <2>9. QED
    BY <2>3, <2>6, <2>7, <2>8 DEF Alone
<1>2. CASE ShutdownConnection
  BY <1>2, SMTT(30) DEF Alone, ShutdownConnection, Yielded, Touch, sock
<1>3. CASE PeerSends
  BY <1>3, BoundsAssumption DEF Alone, PeerSends
<1>4. CASE PeerEnds
  BY <1>4 DEF Alone, PeerEnds
<1>5. QED
  BY <1>1, <1>2, <1>3, <1>4

LEMMA AloneInit == Init => Alone
BY BoundsAssumption DEF Init, Alone, Ints, NewBuffer, Buf

LEMMA AloneNext == Alone /\ [Next]_vars => Alone'
<1> SUFFICES ASSUME Alone, [Next]_vars PROVE Alone'
  OBVIOUS
<1>1. CASE UNCHANGED vars
  BY <1>1 DEF Alone, vars
<1>2. QED
  BY <1>1, CoroutineAlone, OthersAlone DEF Next

(* After close(fd) no call is made on the fd, and a coroutine that has     *)
(* left its loop is never resumed.                                         *)
THEOREM ClosedLeftAlone == Spec => []ClosedIsLeft
<1>1. Alone => ClosedIsLeft
  BY DEF Alone, ClosedIsLeft
<1>2. QED
  BY <1>1, AloneInit, AloneNext, PTL DEF Spec
-----------------------------------------------------------------------------
(* The bytes pass in order.                                                *)

(* Numbers in sequence.                                                    *)
From(m, n) == [k \in 1..n |-> m + k]

LEMMA Concatenation ==
  ASSUME NEW S, NEW s \in Seq(S), NEW t \in Seq(S)
  PROVE  /\ s \o t \in Seq(S) /\ Len(s \o t) = Len(s) + Len(t)
         /\ \A k \in 1..Len(s) + Len(t) :
              (s \o t)[k] = IF k <= Len(s) THEN s[k] ELSE t[k - Len(s)]
OBVIOUS

LEMMA Subsequence ==
  ASSUME NEW S, NEW s \in Seq(S), NEW j \in 0..Len(s)
  PROVE  /\ SubSeq(s, 1, j) \in Seq(S) /\ Len(SubSeq(s, 1, j)) = j
         /\ \A k \in 1..j : SubSeq(s, 1, j)[k] = s[k]
OBVIOUS

LEMMA Spelled ==
  ASSUME NEW s \in Seq(Nat), NEW n \in Nat, Len(s) = n, NEW m \in Nat,
         \A k \in 1..n : s[k] = m + k
  PROVE  s = From(m, n)
<1>1. s = [k \in 1..n |-> s[k]]
  OBVIOUS
<1> QED
  BY <1>1, Zenon DEF From

LEMMA FromSeq ==
  ASSUME NEW m \in Nat, NEW n \in Nat
  PROVE  From(m, n) \in Seq(Nat) /\ Len(From(m, n)) = n /\ \A k \in 1..n : From(m, n)[k] = m + k
BY DEF From

LEMMA UptoFrom == \A n \in Nat : Upto(n) = From(0, n)
BY DEF Upto, From

LEMMA Joined ==
  ASSUME NEW m \in Nat, NEW n \in Nat
  PROVE  Upto(m) \o From(m, n) = Upto(m + n)
<1>1. PICK s, t : s = From(0, m) /\ t = From(m, n)
  BY Zenon
<1>2. /\ s \in Seq(Nat) /\ Len(s) = m /\ \A k \in 1..m : s[k] = 0 + k
      /\ t \in Seq(Nat) /\ Len(t) = n /\ \A k \in 1..n : t[k] = m + k
  BY <1>1, FromSeq, Zenon
<1>3. s \o t \in Seq(Nat) /\ Len(s \o t) = m + n
  BY <1>2, Concatenation, Zenon
<1>4. ASSUME NEW k \in 1..m + n PROVE (s \o t)[k] = 0 + k
  <2>1. (s \o t)[k] = IF k <= m THEN s[k] ELSE t[k - m]
    BY <1>2, Concatenation, Zenon
  <2>2. CASE k <= m
    <3>1. k \in 1..m
      BY <2>2
    <3> QED
      BY <1>2, <2>1, <2>2, <3>1, Zenon
  <2>3. CASE ~ (k <= m)
    <3>1. k - m \in 1..n /\ m + (k - m) = 0 + k
      BY <2>3
    <3> QED
      BY <1>2, <2>1, <2>3, <3>1, Zenon
  <2> QED
    BY <2>2, <2>3, Zenon
<1>5. s \o t = From(0, m + n)
  <2> HIDE <1>1
  <2>1. m + n \in Nat
    OBVIOUS
  <2> QED
    BY <1>3, <1>4, <2>1, Spelled, Zenon
<1>6. Upto(m) = s /\ Upto(m + n) = From(0, m + n)
  BY <1>1, UptoFrom
<1> QED
  BY <1>1, <1>5, <1>6, Zenon

LEMMA Beginning ==
  ASSUME NEW m \in Nat, NEW n \in Nat, NEW j \in 0..n
  PROVE  SubSeq(From(m, n), 1, j) = From(m, j)
<1>1. PICK f : f = From(m, n)
  BY Zenon
<1>2. f \in Seq(Nat) /\ Len(f) = n /\ \A k \in 1..n : f[k] = m + k
  BY <1>1, FromSeq, Zenon
<1>3. PICK s : s = SubSeq(f, 1, j)
  BY Zenon
<1>4. s \in Seq(Nat) /\ Len(s) = j /\ \A k \in 1..j : s[k] = f[k]
  <2>1. j \in 0..Len(f)
    BY <1>2, Zenon
  <2> QED
    BY <1>2, <1>3, <2>1, Subsequence, Zenon
<1>5. j \in Nat /\ \A k \in 1..j : k \in 1..n
  OBVIOUS
<1>6. s = From(m, j)
  <2>1. \A k \in 1..j : s[k] = m + k
    BY <1>2, <1>4, <1>5, Zenon
  <2> QED
    BY <1>4, <1>5, <2>1, Spelled, Zenon
<1> QED
  BY <1>1, <1>3, <1>6, Zenon

LEMMA UnreadBytes ==
  ASSUME NEW b, NEW m \in Nat, NEW n \in Nat, Holds(b, m + 1, n)
  PROVE  Unread(b) = From(m, n) /\ ReadAble(b) = n
<1>1. ReadAble(b) = n
  BY DEF Holds, ReadAble
<1>2. ASSUME NEW k \in 1..n PROVE b.data[b.ri + k - 1] = m + k
  <2>1. b.ri \in Nat /\ k - 1 \in 0..n - 1 /\ b.ri + k - 1 = b.ri + (k - 1)
    BY DEF Holds, Buffer
  <2>2. b.data[b.ri + (k - 1)] = m + 1 + (k - 1)
    BY <2>1, Zenon DEF Holds
  <2> QED
    BY <2>1, <2>2
<1> QED
  BY <1>1, <1>2, Zenon DEF Unread, From

(* The operations keep the indices of a buffer within it, whatever the     *)
(* bytes are.                                                              *)
LEMMA BufBuffer ==
  ASSUME NEW size \in Nat, NEW data, DOMAIN data = 0..size - 1,
         NEW ri \in Nat, NEW wi \in Nat, ri <= wi, wi <= size
  PROVE  Buffer(Buf(size, data, ri, wi))
BY DEF Buffer, Buf

LEMMA AdjustKeeps ==
  ASSUME NEW b, Buffer(b)
  PROVE  Buffer(AdjustBuffer(b))
<1>1. CASE b.ri > b.size \div 3
  <2>1. ReadAble(b) \in Nat /\ ReadAble(b) <= b.size /\ b.size \in Nat
    BY DEF Buffer, ReadAble
  <2>2. DOMAIN Moved(b, b.size, ReadAble(b)) = 0..b.size - 1
    BY Zenon DEF Moved
  <2>3. Buffer(Buf(b.size, Moved(b, b.size, ReadAble(b)), 0, ReadAble(b)))
    BY <2>1, <2>2, BufBuffer
  <2> QED
    BY <1>1, <2>3, Zenon DEF AdjustBuffer
<1>2. CASE ~ (b.ri > b.size \div 3)
  BY <1>2, Zenon DEF AdjustBuffer
<1> QED
  BY <1>1, <1>2

LEMMA RoomKeeps ==
  ASSUME Buffer(read_buffer_)
  PROVE  Buffer(Room)
<1>1. CASE WriteAble(read_buffer_) = 0
  <2> DEFINE b == read_buffer_
             size == 2 * b.size
             c == Least(size, ReadAble(b))
  <2>1. size \in Nat /\ c \in Nat /\ c <= size
    BY DEF Buffer, ReadAble, Least
  <2>2. DOMAIN Moved(b, size, c) = 0..size - 1
    BY Zenon DEF Moved
  <2> HIDE DEF size, c
  <2>3. Buffer(Buf(size, Moved(b, size, c), 0, c))
    BY <2>1, <2>2, BufBuffer
  <2> QED
    BY <1>1, <2>3, Zenon DEF Room, ResizeBuffer, size, c
<1>2. CASE WriteAble(read_buffer_) # 0
  BY <1>2, Zenon DEF Room
<1> QED
  BY <1>1, <1>2

LEMMA StoreKeeps ==
  ASSUME Buffer(Room), NEW rt \in Nat, rt > 0, rt <= WriteAble(Room)
  PROVE  Buffer(Store(rt))
<1>1. PICK r, data : r = Room /\ data = Fill(Room, taken + 1, rt)
  BY Zenon
<1>2. DOMAIN data = 0..r.size - 1
  BY <1>1, Zenon DEF Fill
<1>3. /\ r.size \in Nat /\ r.ri \in Nat /\ r.wi \in Nat /\ r.ri <= r.wi /\ r.wi <= r.size
      /\ rt <= r.size - r.wi
  BY <1>1 DEF Buffer, WriteAble
<1>4. PICK b : b = Buf(r.size, data, r.ri, r.wi)
  BY Zenon
<1>5. b.size = r.size /\ b.data = data /\ b.ri = r.ri /\ b.wi = r.wi /\ Buffer(b)
  BY <1>2, <1>3, <1>4, BufBuffer DEF Buf
<1>6. Store(rt) = RecycleWrite(b, rt)
  BY <1>1, <1>4 DEF Store
<1>7. CASE r.wi + rt >= r.size
  BY <1>5, <1>6, <1>7, Zenon DEF RecycleWrite
<1>8. CASE ~ (r.wi + rt >= r.size)
  <2>1. Buffer(Buf(r.size, data, r.ri, r.wi + rt))
    BY <1>2, <1>3, <1>8, BufBuffer
  <2> QED
    BY <1>5, <1>6, <1>8, <2>1, AdjustKeeps, Zenon DEF RecycleWrite
<1> QED
  BY <1>7, <1>8

LEMMA ReadKeeps ==
  ASSUME NEW b, Buffer(b)
  PROVE  Buffer(ReadFromBuffer(b, ReadAble(b)))
<1>1. ReadAble(b) \in Nat /\ ReadSize(b, ReadAble(b)) = ReadAble(b)
  BY DEF Buffer, ReadAble, ReadSize, Least
<1>2. Buffer(Buf(b.size, b.data, b.ri + ReadAble(b), b.wi))
  <2>1. b.ri + ReadAble(b) \in Nat /\ b.ri + ReadAble(b) <= b.wi
    BY DEF Buffer, ReadAble
  <2>2. b.size \in Nat /\ b.wi \in Nat /\ b.wi <= b.size /\ DOMAIN b.data = 0..b.size - 1
    BY DEF Buffer
  <2> QED
    BY <2>1, <2>2, BufBuffer, Zenon
<1> QED
  BY <1>1, <1>2, AdjustKeeps, Zenon DEF ReadFromBuffer

(* What the operations of the two loops do to the bytes.                   *)
LEMMA RoomHolds ==
  ASSUME NEW first \in Nat, NEW n \in Nat, Holds(read_buffer_, first, n)
  PROVE  Holds(Room, first, n)
<1>1. CASE WriteAble(read_buffer_) = 0
  <2>1. 2 * read_buffer_.size \in Nat /\ n <= 2 * read_buffer_.size
    BY DEF Holds, Buffer
  <2>2. Holds(ResizeBuffer(read_buffer_, 2 * read_buffer_.size), first, n)
    BY <2>1, ResizeHolds
  <2> QED
    BY <1>1, <2>2, Zenon DEF Room
<1>2. CASE WriteAble(read_buffer_) # 0
  BY <1>2, Zenon DEF Room
<1> QED
  BY <1>1, <1>2

LEMMA StoreHolds ==
  ASSUME NEW first \in Nat, NEW n \in Nat, Holds(Room, first, n), first + n = taken + 1,
         NEW rt \in Nat, rt > 0, rt < WriteAble(Room)
  PROVE  Holds(Store(rt), first, n + rt)
<1>1. PICK r, data : r = Room /\ data = Fill(Room, first + n, rt)
  BY Zenon
<1>2. PICK b : b = Buf(r.size, data, r.ri, r.wi)
  BY Zenon
<1>3. b.size = r.size /\ b.data = data /\ b.ri = r.ri /\ b.wi = r.wi
  BY <1>2, Zenon DEF Buf
<1>4. Holds(Buf(r.size, data, r.ri, r.wi + rt), first, n + rt)
  <2>1. rt <= WriteAble(Room)
    BY DEF WriteAble, Holds, Buffer
  <2> QED
    BY <1>1, <2>1, FillHolds, Zenon
<1>5. ~ (b.wi + rt >= b.size)
  BY <1>1, <1>3 DEF WriteAble, Holds, Buffer
<1>6. Store(rt) = AdjustBuffer(Buf(b.size, b.data, b.ri, b.wi + rt))
  <2>1. Store(rt) = RecycleWrite(b, rt)
    BY <1>1, <1>2, Zenon DEF Store
  <2> QED
    BY <1>5, <2>1, Zenon DEF RecycleWrite
<1>7. n + rt \in Nat
  OBVIOUS
<1> QED
  BY <1>3, <1>4, <1>6, <1>7, AdjustHolds, Zenon

LEMMA RecycleReadHolds ==
  ASSUME NEW b, NEW first \in Nat, NEW n \in Nat, NEW d \in 0..n, Holds(b, first, n),
         ~ (b.ri + d >= b.size)
  PROVE  Holds(RecycleRead(b, d), first + d, n - d)
<1>1. Holds(Buf(b.size, b.data, b.ri + d, b.wi), first + d, n - d)
  BY SkipHolds, Zenon
<1>2. first + d \in Nat /\ n - d \in Nat
  OBVIOUS
<1>3. Holds(AdjustBuffer(Buf(b.size, b.data, b.ri + d, b.wi)), first + d, n - d)
  BY <1>1, <1>2, AdjustHolds, Zenon
<1> QED
  BY <1>3, Zenon DEF RecycleRead

(* The inductive invariant: of the bytes taken from the socket the first d *)
(* have gone to rcb_ and the others are in the read buffer, of those that  *)
(* wcb_ has produced the first d are sent and the others in the write      *)
(* buffer, until a call is refused or fails.                               *)
Passed(hist, b, total) ==
  \E d \in 0..total : hist = Upto(d) /\ Holds(b, d + 1, total - d)

Incoming ==
  state_ # "Closed" =>
    /\ Buffer(read_buffer_)
    /\ "in" \notin lost => Passed(got, read_buffer_, taken)

Outgoing == "out" \notin lost => Passed(sent, write_buffer_, produced)

Ordered ==
  /\ taken \in Nat /\ arrived \in Nat /\ taken <= arrived /\ produced \in Nat
  /\ pc \in {"loop", "read", "rwait", "app", "out", "wwait", "done", "killed", "undefined"}
  /\ stop_ \in {"yes", "no"}
  /\ Incoming /\ Outgoing

LEMMA OrderedInit == Init => Ordered
<1> SUFFICES ASSUME Init PROVE Ordered
  OBVIOUS
<1>1. BufferSize \in Nat
  BY BoundsAssumption
<1>2. Holds(NewBuffer(BufferSize), 0 + 1, 0 - 0) /\ 0 \in 0..0
  BY <1>1, NewHolds
<1>3. <<>> = Upto(0)
  BY DEF Upto
<1>4. /\ taken = 0 /\ produced = 0 /\ got = <<>> /\ sent = <<>> /\ arrived = 0
      /\ read_buffer_ = NewBuffer(BufferSize) /\ write_buffer_ = NewBuffer(BufferSize)
      /\ pc = "loop" /\ stop_ = "no"
  BY DEF Init
<1>5. Passed(got, read_buffer_, taken) /\ Passed(sent, write_buffer_, produced)
  BY <1>2, <1>3, <1>4, Zenon DEF Passed
<1>6. Buffer(read_buffer_)
  BY <1>2, <1>4, Zenon DEF Holds
<1>7. Incoming /\ Outgoing
  BY <1>5, <1>6, Zenon DEF Incoming, Outgoing
<1> QED
  BY <1>4, <1>7 DEF Ordered

(* What passes in neither direction.                                       *)
LEMMA IncomingKept ==
  ASSUME Incoming, UNCHANGED <<read_buffer_, got, taken>>, lost \subseteq lost',
         state_' # "Closed" => state_ # "Closed"
  PROVE  Incoming'
BY Zenon DEF Incoming

LEMMA OutgoingKept ==
  ASSUME Outgoing, UNCHANGED <<write_buffer_, sent, produced>>, lost \subseteq lost'
  PROVE  Outgoing'
BY Zenon DEF Outgoing

(* input() after a read.                                                   *)
LEMMA SysReadBound ==
  ASSUME Ordered, Buffer(Room), NEW rt \in SysRead, rt > 0
  PROVE  rt \in Nat /\ rt <= WriteAble(Room) /\ taken + rt <= arrived
<1>1. WriteAble(Room) \in Nat /\ taken \in Nat /\ arrived \in Nat
  BY DEF Buffer, WriteAble, Ordered
<1>2. rt = Least(WriteAble(Room), arrived - taken)
  BY DEF SysRead
<1> QED
  BY <1>1, <1>2 DEF Least

LEMMA ReadReturnsOrdered ==
  ASSUME Ordered, state_ # "Closed", NEW rt \in SysRead, NEW listening, ReadReturns(rt, listening),
         UNCHANGED <<arrived, got, produced, sent, write_buffer_>>
  PROVE  Ordered'
<1>1. lost \subseteq lost' /\ (rt = WriteAble(Room) => "in" \in lost')
  BY Zenon DEF ReadReturns
<1>2. Outgoing'
  BY <1>1, OutgoingKept DEF Ordered
<1>3. CASE rt <= 0 /\ ClearClient /\ pc' = "app"
  <2>1. Incoming' /\ stop_' \in {"yes", "no"}
    BY <1>3, Zenon DEF Incoming, ClearClient
  <2>2. taken' = taken \/ (taken' = taken + rt /\ rt > 0)
    BY Zenon DEF ReadReturns
  <2>3. Buffer(Room)
    BY RoomKeeps DEF Ordered, Incoming
  <2>4. taken' \in Nat /\ taken' <= arrived
    BY <2>2, <2>3, SysReadBound DEF Ordered
  <2> QED
    BY <1>2, <1>3, <2>1, <2>4 DEF Ordered
<1>4. CASE /\ rt > 0 /\ pc' = IF rt = WriteAble(Room) THEN "read" ELSE "app"
           /\ UNCHANGED <<stop_, state_>>
  <2>1. Buffer(Room)
    BY RoomKeeps DEF Ordered, Incoming
  <2>2. rt \in Nat /\ rt <= WriteAble(Room) /\ taken + rt <= arrived
    BY <1>4, <2>1, SysReadBound
  <2>3. read_buffer_' = Store(rt) /\ taken' = taken + rt
    BY <1>4, Zenon DEF ReadReturns
  <2>4. Buffer(read_buffer_')
    BY <1>4, <2>1, <2>2, <2>3, StoreKeeps
  <2>5. ASSUME "in" \notin lost' PROVE Passed(got', read_buffer_', taken')
    <3>1. "in" \notin lost /\ rt # WriteAble(Room)
      BY <1>1, <2>5
    <3>2. PICK d \in 0..taken : got = Upto(d) /\ Holds(read_buffer_, d + 1, taken - d)
      BY <3>1, Zenon DEF Ordered, Incoming, Passed
    <3>3. /\ taken \in Nat /\ d + 1 \in Nat /\ taken - d \in Nat
          /\ (d + 1) + (taken - d) = taken + 1 /\ (taken - d) + rt = (taken + rt) - d
          /\ d \in 0..taken + rt
      BY <2>2 DEF Ordered
    <3>4. Holds(Room, d + 1, taken - d)
      BY <3>2, <3>3, RoomHolds, Zenon
    <3>5. rt < WriteAble(Room)
      BY <2>1, <2>2, <3>1 DEF Buffer, WriteAble
    <3>6. Holds(Store(rt), d + 1, (taken - d) + rt)
      BY <1>4, <2>2, <3>3, <3>4, <3>5, StoreHolds
    <3> QED
      BY <2>3, <3>2, <3>3, <3>6, Zenon DEF Passed
  <2>6. Incoming'
    BY <2>4, <2>5, Zenon DEF Incoming
  <2>7. taken' \in Nat /\ arrived' \in Nat /\ taken' <= arrived' /\ produced' \in Nat
    BY <2>2, <2>3 DEF Ordered
  <2>8. pc' \in {"loop", "read", "rwait", "app", "out", "wwait", "done", "killed", "undefined"}
    BY <1>4, Zenon
  <2> QED
    BY <1>2, <1>4, <2>6, <2>7, <2>8, Zenon DEF Ordered
<1> QED
  BY <1>3, <1>4, Zenon DEF ReadReturns

(* output() after a write.                                                 *)
LEMMA WriteReturnsOrdered ==
  ASSUME Ordered, NEW rt, rt \in SysWrite \/ rt = -1, NEW listening, WriteReturns(rt, listening),
         UNCHANGED <<state_, stop_, read_buffer_, arrived, taken, got, produced>>
  PROVE  Ordered'
<1>1. /\ lost \subseteq lost'
      /\ rt < 0 \/ write_buffer_.ri + rt >= write_buffer_.size => "out" \in lost'
      /\ write_buffer_' = RecycleRead(write_buffer_, rt)
      /\ sent' = IF rt > 0 THEN sent \o SubSeq(Unread(write_buffer_), 1, rt) ELSE sent
      /\ pc' \in {"undefined", "loop", "out"}
  BY Zenon DEF WriteReturns
<1>2. Incoming'
  BY <1>1, IncomingKept DEF Ordered
<1>3. ASSUME "out" \notin lost' PROVE Passed(sent', write_buffer_', produced')
  <2>1. "out" \notin lost /\ ~ (rt < 0) /\ ~ (write_buffer_.ri + rt >= write_buffer_.size)
    BY <1>1, <1>3, Zenon
  <2>2. PICK d \in 0..produced : sent = Upto(d) /\ Holds(write_buffer_, d + 1, produced - d)
    BY <2>1, Zenon DEF Ordered, Outgoing, Passed
  <2>3. produced \in Nat /\ d \in Nat /\ produced - d \in Nat /\ d + 1 \in Nat
    BY DEF Ordered
  <2>4. ReadAble(write_buffer_) = produced - d /\ Unread(write_buffer_) = From(d, produced - d)
    BY <2>2, <2>3, UnreadBytes, Zenon
  <2>5. Len(sent) = d
    BY <2>2, <2>3 DEF Upto
  <2>6. rt \in 1..produced - d
    <3>1. rt \in SysWrite
      BY <2>1
    <3>2. MaxSent \in Nat
      BY BoundsAssumption
    <3> QED
      BY <2>3, <2>4, <2>5, <3>1, <3>2 DEF SysWrite, Least
  <2>7. Holds(write_buffer_', (d + 1) + rt, (produced - d) - rt)
    <3>1. rt \in 0..produced - d
      BY <2>6, <2>3
    <3> QED
      BY <1>1, <2>1, <2>2, <2>3, <3>1, RecycleReadHolds, Zenon
  <2>8. /\ (d + 1) + rt = (d + rt) + 1 /\ (produced - d) - rt = produced - (d + rt)
        /\ d + rt \in 0..produced /\ rt > 0 /\ rt \in 0..produced - d /\ rt \in Nat
    BY <2>3, <2>6
  <2>9. sent' = Upto(d + rt)
    <3>1. sent' = Upto(d) \o SubSeq(From(d, produced - d), 1, rt)
      BY <1>1, <2>2, <2>4, <2>8, Zenon
    <3>2. SubSeq(From(d, produced - d), 1, rt) = From(d, rt)
      BY <2>3, <2>8, Beginning, Zenon
    <3> QED
      BY <2>3, <2>8, <3>1, <3>2, Joined, Zenon
  <2> QED
    BY <2>7, <2>8, <2>9, Zenon DEF Passed
<1>4. Outgoing'
  BY <1>3, Zenon DEF Outgoing
<1>5. pc' \in {"loop", "read", "rwait", "app", "out", "wwait", "done", "killed", "undefined"}
  BY <1>1, Zenon
<1> QED
  BY <1>2, <1>4, <1>5, Zenon DEF Ordered

(* The callbacks empty the read buffer and add to the write buffer.        *)
LEMMA CallbacksOrdered ==
  ASSUME Ordered, NEW n \in Nat, Callbacks(n)
  PROVE  Ordered'
<1>1. UNCHANGED <<state_, stop_, arrived, peer, taken, sent, lost>>
  BY Zenon DEF Callbacks, sock
<1>2. CASE ReadAble(read_buffer_) < 0
  <2>1. pc' = "killed" /\ UNCHANGED <<read_buffer_, write_buffer_, got, produced>>
    BY <1>2, Zenon DEF Callbacks
  <2>2. Incoming' /\ Outgoing'
    BY <1>1, <2>1, IncomingKept, OutgoingKept DEF Ordered
  <2> QED
    BY <1>1, <2>1, <2>2 DEF Ordered
<1>3. CASE ~ (ReadAble(read_buffer_) < 0)
  <2>1. /\ got' = got \o Unread(read_buffer_)
        /\ read_buffer_' = ReadFromBuffer(read_buffer_, ReadAble(read_buffer_))
        /\ write_buffer_' = IF n = 0 THEN write_buffer_
                            ELSE WriteToBuffer(write_buffer_, produced + 1, n)
        /\ produced' = produced + n /\ pc' = "out"
    BY <1>3, Zenon DEF Callbacks
  <2>2. ASSUME state_ # "Closed" PROVE Buffer(read_buffer_')
    BY <2>1, <2>2, ReadKeeps, Zenon DEF Ordered, Incoming
  <2>3. ASSUME state_ # "Closed", "in" \notin lost PROVE Passed(got', read_buffer_', taken)
    <3>1. PICK d \in 0..taken : got = Upto(d) /\ Holds(read_buffer_, d + 1, taken - d)
      BY <2>3, Zenon DEF Ordered, Incoming, Passed
    <3>2. /\ taken \in Nat /\ d \in Nat /\ d + 1 \in Nat /\ taken - d \in Nat
          /\ d + (taken - d) = taken
          /\ (d + 1) + (taken - d) = taken + 1 /\ (taken - d) - (taken - d) = taken - taken
          /\ taken \in 0..taken
      BY DEF Ordered
    <3>3. ReadAble(read_buffer_) = taken - d /\ Unread(read_buffer_) = From(d, taken - d)
      BY <3>1, <3>2, UnreadBytes, Zenon
    <3>4. got' = Upto(taken)
      BY <2>1, <3>1, <3>2, <3>3, Joined, Zenon
    <3>5. ReadSize(read_buffer_, taken - d) = taken - d
      BY <3>2, <3>3 DEF ReadSize, Least
    <3>6. Holds(read_buffer_', (d + 1) + (taken - d), (taken - d) - (taken - d))
      BY <2>1, <3>1, <3>2, <3>3, <3>5, ReadHolds
    <3> QED
      BY <3>2, <3>4, <3>6, Zenon DEF Passed
  <2>4. Incoming'
    BY <1>1, <2>2, <2>3, Zenon DEF Incoming
  <2>5. ASSUME "out" \notin lost PROVE Passed(sent, write_buffer_', produced + n)
    <3>1. PICK d \in 0..produced : sent = Upto(d) /\ Holds(write_buffer_, d + 1, produced - d)
      BY <2>5, Zenon DEF Ordered, Outgoing, Passed
    <3>2. /\ produced \in Nat /\ d + 1 \in Nat /\ produced - d \in Nat
          /\ (d + 1) + (produced - d) = produced + 1
          /\ (produced - d) + n = (produced + n) - d /\ d \in 0..produced + n
      BY DEF Ordered
    <3>3. CASE n = 0
      <4>1. write_buffer_' = write_buffer_ /\ produced + n = produced
        BY <2>1, <3>2, <3>3
      <4> QED
        BY <3>1, <4>1, Zenon DEF Passed
    <3>4. CASE n # 0
      <4>1. Holds(WriteToBuffer(write_buffer_, (d + 1) + (produced - d), n), d + 1, (produced - d) + n)
        BY <3>1, <3>2, WriteHolds, Zenon
      <4>2. Holds(write_buffer_', d + 1, (produced + n) - d)
        BY <2>1, <3>2, <3>4, <4>1, Zenon
      <4> QED
        BY <3>1, <3>2, <4>2, Zenon DEF Passed
    <3> QED
      BY <3>3, <3>4
  <2>6. Outgoing'
    BY <1>1, <2>1, <2>5, Zenon DEF Outgoing
  <2>7. produced' \in Nat
    BY <2>1 DEF Ordered
  <2> QED
    BY <1>1, <2>1, <2>4, <2>6, <2>7 DEF Ordered
<1> QED
  BY <1>2, <1>3

(* Steps that move no byte.                                                *)
LEMMA StillOrdered ==
  ASSUME Ordered, UNCHANGED <<read_buffer_, write_buffer_, got, taken, sent, produced>>,
         lost \subseteq lost', state_' # "Closed" => state_ # "Closed",
         arrived' \in Nat, arrived' >= arrived, stop_' \in {"yes", "no"},
         pc' \in {"loop", "read", "rwait", "app", "out", "wwait", "done", "killed", "undefined"}
  PROVE  Ordered'
<1>1. Incoming' /\ Outgoing'
  BY IncomingKept, OutgoingKept DEF Ordered
<1>2. taken' \in Nat /\ taken' <= arrived' /\ produced' \in Nat
  BY DEF Ordered
<1> QED
  BY <1>1, <1>2, Zenon DEF Ordered

LEMMA OrderedNext == Alone /\ Ordered /\ [Next]_vars => Ordered'
<1> SUFFICES ASSUME Alone, Ordered, [Next]_vars PROVE Ordered'
  OBVIOUS
<1>0. /\ arrived \in Nat /\ arrived >= arrived /\ stop_ \in {"yes", "no"}
      /\ pc \in {"loop", "read", "rwait", "app", "out", "wwait", "done", "killed", "undefined"}
  BY DEF Ordered
<1>1. CASE Loop
  <2>1. pc' \in {"done", "app", "read"}
    BY <1>1, Zenon DEF Loop
  <2> QED
    BY <1>0, <1>1, <2>1, StillOrdered DEF Loop, sock
<1>2. CASE Read
  <2>1. state_ # "Closed"
    BY <1>2 DEF Read, Alone
  <2>2. UNCHANGED <<write_buffer_, arrived, got, produced, sent>>
    BY <1>2 DEF Read, sock
  <2>3. ASSUME NEW rt \in SysRead, ReadReturns(rt, listen \cup {"read"}) PROVE Ordered'
    BY <2>1, <2>2, <2>3, ReadReturnsOrdered
  <2>4. CASE /\ read_buffer_' = Room /\ pc' = "rwait" /\ lost' = lost \cup Touch
             /\ UNCHANGED <<state_, stop_, taken>>
    <3>1. Outgoing'
      BY <2>2, <2>4, OutgoingKept DEF Ordered
    <3>2. Buffer(read_buffer_')
      BY <2>1, <2>4, RoomKeeps DEF Ordered, Incoming
    <3>3. ASSUME "in" \notin lost' PROVE Passed(got, read_buffer_', taken)
      <4>1. PICK d \in 0..taken : got = Upto(d) /\ Holds(read_buffer_, d + 1, taken - d)
        BY <2>1, <2>4, <3>3, Zenon DEF Ordered, Incoming, Passed
      <4>2. d + 1 \in Nat /\ taken - d \in Nat
        BY DEF Ordered
      <4>3. Holds(read_buffer_', d + 1, taken - d)
        BY <2>4, <4>1, <4>2, RoomHolds, Zenon
      <4> QED
        BY <4>1, <4>3, Zenon DEF Passed
    <3>4. Incoming'
      BY <2>2, <2>4, <3>2, <3>3, Zenon DEF Incoming
    <3> QED
      BY <2>2, <2>4, <3>1, <3>4 DEF Ordered
  <2> QED
    BY <1>2, <2>3, <2>4, Zenon DEF Read
<1>3. CASE ResumeRead
  <2>1. state_ # "Closed"
    BY <1>3 DEF ResumeRead, Alone
  <2>2. UNCHANGED <<write_buffer_, arrived, got, produced, sent>>
    BY <1>3 DEF ResumeRead, sock
  <2>3. PICK rt \in SysRead : ReadReturns(rt, listen)
    BY <1>3 DEF ResumeRead
  <2> QED
    BY <2>1, <2>2, <2>3, ReadReturnsOrdered
<1>4. CASE OutputEnds
  BY <1>0, <1>4, StillOrdered DEF OutputEnds, sock
<1>5. ASSUME Killed, UNCHANGED <<state_, stop_, read_buffer_, arrived, taken, got, produced>>
      PROVE  Ordered'
  BY <1>0, <1>5, StillOrdered DEF Killed
<1>6. CASE Write
  <2>1. UNCHANGED <<state_, stop_, read_buffer_, arrived, taken, got, produced>>
    BY <1>6 DEF Write, sock
  <2>2. ASSUME NEW n \in SysWrite, WriteReturns(n, listen \cup {"write"}) PROVE Ordered'
    BY <2>1, <2>2, WriteReturnsOrdered
  <2>3. CASE pc' = "wwait" /\ lost' = lost \cup Touch /\ UNCHANGED <<write_buffer_, sent>>
    BY <1>0, <2>1, <2>3, StillOrdered
  <2> QED
    BY <1>5, <1>6, <2>1, <2>2, <2>3, Zenon DEF Write
<1>7. CASE ResumeWrite
  <2>1. UNCHANGED <<state_, stop_, read_buffer_, arrived, taken, got, produced>>
    BY <1>7 DEF ResumeWrite, sock
  <2>2. ASSUME NEW n, n \in SysWrite \/ n = -1, WriteReturns(n, listen) PROVE Ordered'
    BY <2>1, <2>2, WriteReturnsOrdered
  <2> QED
    BY <1>5, <1>7, <2>1, <2>2, Zenon DEF ResumeWrite
<1>8. ASSUME NEW n \in Lengths \cup {0}, Callbacks(n) PROVE Ordered'
  <2>1. n \in Nat
    BY BoundsAssumption
  <2> QED
    BY <1>8, <2>1, CallbacksOrdered
<1>9. CASE Poll
  BY <1>0, <1>9, StillOrdered DEF Poll, sock
<1>10. CASE ShutdownConnection
  BY <1>0, <1>10, StillOrdered DEF ShutdownConnection, sock
<1>11. CASE PeerSends
  <2>1. PICK n \in arrived + 1..MaxIn : arrived' = n
    BY <1>11 DEF PeerSends
  <2>2. arrived' \in Nat /\ arrived' >= arrived
    BY <1>0, <2>1, BoundsAssumption
  <2> QED
    BY <1>0, <1>11, <2>2, StillOrdered DEF PeerSends
<1>12. CASE PeerEnds
  BY <1>0, <1>12, StillOrdered DEF PeerEnds
<1>13. CASE UNCHANGED vars
  BY <1>0, <1>13, StillOrdered DEF vars
<1> QED
  BY <1>1, <1>2, <1>3, <1>4, <1>6, <1>7, <1>8, <1>9, <1>10, <1>11, <1>12, <1>13, Zenon
     DEF Next, Coroutine

(* For any size of the buffers, any lengths and any bounds, the bytes pass *)
(* through input(), the callbacks and output() in order, nothing lost and  *)
(* nothing repeated, as long as no call on a buffer is refused and no      *)
(* write fails; and the indices of the read buffer stay within it until    *)
(* the connection is closed.                                               *)
THEOREM InOrder == Spec => []InOrderUnlessRefused
<1>1. Alone /\ Ordered => InOrderUnlessRefused
  <2> SUFFICES ASSUME Alone, Ordered PROVE InOrderUnlessRefused
    OBVIOUS
  <2>1. Len(due) <= 2
    <3>1. due \in {<<>>, <<"read">>, <<"write">>, <<"read", "write">>}
      BY DEF Alone
    <3>2. /\ Len(<<>>) = 0 /\ Len(<<"read">>) = 1 /\ Len(<<"write">>) = 1
          /\ Len(<<"read", "write">>) = 2
      OBVIOUS
    <3>3. Len(due) \in {0, 1, 2}
      BY <3>1, <3>2, Zenon
    <3>4. \A n \in {0, 1, 2} : n <= 2
      OBVIOUS
    <3> QED
      BY <3>3, <3>4, Zenon
  <2>2. state_ # "Closed" => /\ 0 <= read_buffer_.ri /\ read_buffer_.ri <= read_buffer_.wi
                             /\ read_buffer_.wi <= read_buffer_.size
    BY DEF Ordered, Incoming, Buffer
  <2>3. TypeOK
    BY <2>1, <2>2, Zenon DEF Alone, Ordered, TypeOK
  <2>4. ASSUME NEW hist, NEW b, NEW total \in Nat, Passed(hist, b, total)
        PROVE  hist \o Unread(b) = Upto(total)
    <3>1. PICK d \in 0..total : hist = Upto(d) /\ Holds(b, d + 1, total - d)
      BY <2>4, Zenon DEF Passed
    <3>2. d \in Nat /\ total - d \in Nat /\ d + (total - d) = total
      OBVIOUS
    <3>3. Unread(b) = From(d, total - d)
      BY <3>1, <3>2, UnreadBytes, Zenon
    <3> QED
      BY <3>1, <3>2, <3>3, Joined, Zenon
  <2>5. taken \in Nat /\ produced \in Nat
    BY DEF Ordered
  <2> QED
    BY <2>3, <2>4, <2>5, Zenon DEF Ordered, Incoming, Outgoing, InOrderUnlessRefused
<1> QED
  BY <1>1, AloneInit, AloneNext, OrderedInit, OrderedNext, PTL DEF Spec
-----------------------------------------------------------------------------
(* The numbers of the codec.                                               *)

Byte == 0..255
Hosts == {"little", "big"}

(* The numbers that Swap reverses: all but the signed shorts.              *)
Kept ==
  {Pod("unsigned", k) : k \in {1, 2, 4, 8}} \cup {Pod("signed", k) : k \in {1, 4, 8}}
    \cup {Pod("float", k) : k \in {4, 8}}

Values(t) == {v \in Seq(Byte) : Len(v) = t.n}

LEMMA ByteIsInt == 255 \in Byte /\ \A b \in Byte : b \in Int
BY DEF Byte

LEMMA ReverseFacts ==
  ASSUME NEW v \in Seq(Byte)
  PROVE  /\ Reverse(v) \in Seq(Byte) /\ Len(Reverse(v)) = Len(v)
         /\ \A i \in 1..Len(v) : Reverse(v)[i] = v[Len(v) + 1 - i]
         /\ Reverse(Reverse(v)) = v
<1> DEFINE r == Reverse(v)
<1>1. r = [i \in 1..Len(v) |-> v[(Len(v) - i) + 1]]
  BY DEF Reverse
<1>2. r \in Seq(Byte) /\ Len(r) = Len(v)
  BY <1>1
<1>3. \A i \in 1..Len(v) : r[i] = v[Len(v) + 1 - i]
  BY <1>1
<1>4. Reverse(r) = [i \in 1..Len(v) |-> r[(Len(v) - i) + 1]]
  BY <1>2 DEF Reverse
<1>5. Reverse(r) \in Seq(Byte) /\ Len(Reverse(r)) = Len(v)
  BY <1>2, <1>4
<1> HIDE DEF r
<1>6. ASSUME NEW i \in 1..Len(v) PROVE Reverse(r)[i] = v[i]
  <2>1. Len(v) \in Nat /\ (Len(v) - i) + 1 \in 1..Len(v) /\ Len(v) + 1 - ((Len(v) - i) + 1) = i
    OBVIOUS
  <2>2. Reverse(r)[i] = r[(Len(v) - i) + 1]
    BY <1>4
  <2>. QED
    BY <1>3, <2>1, <2>2
<1>7. Reverse(r) = v
  BY <1>5, <1>6, SeqEqual
<1>. QED
  BY <1>2, <1>3, <1>7 DEF r

(* A part of a sequence.                                                   *)
LEMMA Slice ==
  ASSUME NEW v \in Seq(Byte), NEW m \in 1..Len(v), NEW n \in m..Len(v)
  PROVE  /\ SubSeq(v, m, n) \in Seq(Byte) /\ Len(SubSeq(v, m, n)) = n - m + 1
         /\ \A i \in 1..n - m + 1 : SubSeq(v, m, n)[i] = v[m + i - 1]
<1>1. \A i \in m..n : v[i] \in Byte
  BY ElementOfSeq
<1>2. m \in Int /\ n \in Int /\ m <= n
  OBVIOUS
<1>. QED
  BY <1>1, <1>2, SubSeqProperties

LEMMA Swap4Facts ==
  ASSUME NEW v \in Seq(Byte), Len(v) = 4
  PROVE  /\ Swap4(v) \in Seq(Byte) /\ Len(Swap4(v)) = 4
         /\ \A i \in 1..4 : Swap4(v)[i] = v[5 - i]
<1> DEFINE f == <<v[4], v[3]>>
           g == <<v[2], v[1]>>
<1>1. /\ SubSeq(v, 3, 4)[1] = v[3] /\ SubSeq(v, 3, 4)[2] = v[4]
      /\ SubSeq(v, 1, 2)[1] = v[1] /\ SubSeq(v, 1, 2)[2] = v[2]
  OBVIOUS
<1>2. Swap4(v) = f \o g
  BY <1>1 DEF Swap4, Swap2
<1>3. \A i \in 1..Len(v) : v[i] \in Byte
  BY ElementOfSeq
<1>4. v[1] \in Byte /\ v[2] \in Byte /\ v[3] \in Byte /\ v[4] \in Byte
  BY <1>3
<1>5. /\ f \in Seq(Byte) /\ Len(f) = 2 /\ f[1] = v[4] /\ f[2] = v[3]
      /\ g \in Seq(Byte) /\ Len(g) = 2 /\ g[1] = v[2] /\ g[2] = v[1]
  BY <1>4
<1> HIDE DEF f, g
<1>6. /\ f \o g \in Seq(Byte) /\ Len(f \o g) = 4
      /\ \A i \in 1..2 : (f \o g)[i] = f[i]
      /\ \A i \in 3..4 : (f \o g)[i] = g[i - 2]
  <2>1. /\ f \o g \in Seq(Byte) /\ Len(f \o g) = Len(f) + Len(g)
        /\ \A i \in 1..Len(f) + Len(g) :
             (f \o g)[i] = IF i <= Len(f) THEN f[i] ELSE g[i - Len(f)]
    <3>1. f \in Seq(Byte) /\ g \in Seq(Byte)
      BY <1>5
    <3>. QED
      BY <3>1, ConcatProperties
  <2>2. \A i \in 1..4 : (f \o g)[i] = IF i <= 2 THEN f[i] ELSE g[i - 2]
    BY <1>5, <2>1
  <2>. QED
    BY <1>5, <2>1, <2>2
<1>7. (f \o g)[1] = f[1] /\ (f \o g)[2] = f[2] /\ (f \o g)[3] = g[1] /\ (f \o g)[4] = g[2]
  BY <1>6
<1>8. \A i \in 1..4 : i = 1 \/ i = 2 \/ i = 3 \/ i = 4
  OBVIOUS
<1>. QED
  BY <1>2, <1>5, <1>6, <1>7, <1>8

LEMMA Swap8Facts ==
  ASSUME NEW v \in Seq(Byte), Len(v) = 8
  PROVE  /\ Swap8(v) \in Seq(Byte) /\ Len(Swap8(v)) = 8
         /\ \A i \in 1..8 : Swap8(v)[i] = v[9 - i]
<1> DEFINE a == SubSeq(v, 5, 8)
           b == SubSeq(v, 1, 4)
           f == Swap4(a)
           g == Swap4(b)
<1>1. a \in Seq(Byte) /\ Len(a) = 4 /\ \A i \in 1..4 : a[i] = v[5 + i - 1]
  <2>1. 5 \in 1..Len(v) /\ 8 \in 5..Len(v)
    OBVIOUS
  <2>2. /\ a \in Seq(Byte) /\ Len(a) = 8 - 5 + 1
        /\ \A i \in 1..8 - 5 + 1 : a[i] = v[5 + i - 1]
    BY <2>1, Slice
  <2>. QED
    BY <2>2
<1>2. b \in Seq(Byte) /\ Len(b) = 4 /\ \A i \in 1..4 : b[i] = v[1 + i - 1]
  <2>1. 1 \in 1..Len(v) /\ 4 \in 1..Len(v)
    OBVIOUS
  <2>2. /\ b \in Seq(Byte) /\ Len(b) = 4 - 1 + 1
        /\ \A i \in 1..4 - 1 + 1 : b[i] = v[1 + i - 1]
    BY <2>1, Slice
  <2>. QED
    BY <2>2
<1>3. Swap8(v) = f \o g
  BY DEF Swap8
<1> HIDE DEF a, b
<1>4. /\ f \in Seq(Byte) /\ Len(f) = 4 /\ \A i \in 1..4 : f[i] = a[5 - i]
      /\ g \in Seq(Byte) /\ Len(g) = 4 /\ \A i \in 1..4 : g[i] = b[5 - i]
  BY <1>1, <1>2, Swap4Facts
<1> HIDE DEF f, g
<1>5. /\ f \o g \in Seq(Byte) /\ Len(f \o g) = 8
      /\ \A i \in 1..4 : (f \o g)[i] = f[i]
      /\ \A i \in 5..8 : (f \o g)[i] = g[i - 4]
  <2>1. /\ f \o g \in Seq(Byte) /\ Len(f \o g) = Len(f) + Len(g)
        /\ \A i \in 1..Len(f) + Len(g) :
             (f \o g)[i] = IF i <= Len(f) THEN f[i] ELSE g[i - Len(f)]
    <3>1. f \in Seq(Byte) /\ g \in Seq(Byte)
      BY <1>4
    <3>. QED
      BY <3>1, ConcatProperties
  <2>2. \A i \in 1..8 : (f \o g)[i] = IF i <= 4 THEN f[i] ELSE g[i - 4]
    BY <1>4, <2>1
  <2>. QED
    BY <1>4, <2>1, <2>2
<1>6. \A i \in 1..4 : f[i] = v[9 - i] /\ g[i] = v[5 - i]
  BY <1>1, <1>2, <1>4
<1>7. \A i \in 5..8 : g[i - 4] = v[9 - i]
  BY <1>6
<1>8. \A i \in 1..8 : i \in 1..4 \/ i \in 5..8
  OBVIOUS
<1>9. \A i \in 1..8 : (f \o g)[i] = v[9 - i]
  BY <1>5, <1>6, <1>7, <1>8
<1>. QED
  BY <1>3, <1>5, <1>9

(* Which swap is chosen for a number on a little-endian host.              *)
LEMMA Chosen ==
  ASSUME NEW kind \in {"unsigned", "signed", "float"}, NEW v
  PROVE  /\ Swap("little", Pod(kind, 1), v) = v
         /\ kind # "float" => Swap("little", Pod(kind, 2), v) = Swap2(kind, v)
         /\ kind # "float" => Swap("little", Pod(kind, 4), v) = Swap4(v)
         /\ kind # "float" => Swap("little", Pod(kind, 8), v) = Swap8(v)
         /\ Swap("little", Pod("float", 4), v) = SwapFloat(v)
         /\ Swap("little", Pod("float", 8), v) = SwapFloat(v)
<1>1. \A k : Pod(kind, k).k = kind /\ Pod(kind, k).n = k
  BY DEF Pod
<1>2. \A k : Pod("float", k).k = "float" /\ Pod("float", k).n = k
  BY DEF Pod
<1>. QED
  BY <1>1, <1>2 DEF Swap, ShouldSwap

LEMMA SwapLittle ==
  ASSUME NEW t \in Kept, NEW v \in Values(t)
  PROVE  Swap("little", t, v) = Reverse(v)
<1>0. v \in Seq(Byte) /\ Len(v) = t.n
  BY DEF Values
<1>1. /\ Reverse(v) \in Seq(Byte) /\ Len(Reverse(v)) = Len(v)
      /\ \A i \in 1..Len(v) : Reverse(v)[i] = v[Len(v) + 1 - i]
  BY <1>0, ReverseFacts
<1>2. ASSUME NEW w \in Seq(Byte), Len(w) = Len(v), \A i \in 1..Len(v) : w[i] = v[Len(v) + 1 - i]
      PROVE  w = Reverse(v)
  BY <1>1, <1>2, SeqEqual
<1>3. ASSUME NEW kind \in {"unsigned", "signed"}, t = Pod(kind, 1)
      PROVE  Swap("little", t, v) = Reverse(v)
  <2>1. Len(v) = 1
    BY <1>0, <1>3 DEF Pod
  <2>2. \A i \in 1..Len(v) : v[i] = v[Len(v) + 1 - i]
    BY <2>1
  <2>. QED
    BY <1>0, <1>2, <1>3, <2>2, Chosen
<1>4. CASE t = Pod("unsigned", 2)
  <2>1. Len(v) = 2 /\ Swap("little", t, v) = <<v[2], v[1]>>
    BY <1>0, <1>4, Chosen DEF Pod, Swap2
  <2>2. v[1] \in Byte /\ v[2] \in Byte
    BY <1>0, <2>1
  <2>3. /\ <<v[2], v[1]>> \in Seq(Byte) /\ Len(<<v[2], v[1]>>) = Len(v)
        /\ \A i \in 1..Len(v) : <<v[2], v[1]>>[i] = v[Len(v) + 1 - i]
    BY <2>1, <2>2
  <2>. QED
    BY <1>2, <2>1, <2>3
<1>5. ASSUME NEW kind \in {"unsigned", "signed"}, t = Pod(kind, 4)
      PROVE  Swap("little", t, v) = Reverse(v)
  <2>1. Len(v) = 4 /\ Swap("little", t, v) = Swap4(v)
    BY <1>0, <1>5, Chosen DEF Pod
  <2>. QED
    BY <1>0, <1>2, <2>1, Swap4Facts
<1>6. ASSUME NEW kind \in {"unsigned", "signed"}, t = Pod(kind, 8)
      PROVE  Swap("little", t, v) = Reverse(v)
  <2>1. Len(v) = 8 /\ Swap("little", t, v) = Swap8(v)
    BY <1>0, <1>6, Chosen DEF Pod
  <2>. QED
    BY <1>0, <1>2, <2>1, Swap8Facts
<1>7. CASE t \in {Pod("float", 4), Pod("float", 8)}
  <2>1. Swap("little", t, v) = [i \in 1..Len(v) |-> v[Len(v) + 1 - i]]
    BY <1>7, Chosen DEF SwapFloat
  <2>. QED
    BY <1>0, <2>1 DEF Reverse
<1>8. \/ \E kind \in {"unsigned", "signed"} : t \in {Pod(kind, 1), Pod(kind, 4), Pod(kind, 8)}
      \/ t = Pod("unsigned", 2) \/ t \in {Pod("float", 4), Pod("float", 8)}
  BY DEF Kept
<1>. QED
  BY <1>3, <1>4, <1>5, <1>6, <1>7, <1>8

(* Swap undoes the byte order of its host.                                 *)
LEMMA WireIsValue ==
  ASSUME NEW host \in Hosts, NEW t \in Kept, NEW v \in Values(t)
  PROVE  PutPod(host, t, v) = v /\ Swap(host, t, Memory(host, v)) = v
<1>1. v \in Seq(Byte) /\ Len(v) = t.n
  BY DEF Values
<1>2. CASE host = "little"
  <2>1. Memory(host, v) = Reverse(v) /\ Reverse(v) \in Values(t) /\ Reverse(Reverse(v)) = v
    BY <1>1, <1>2, ReverseFacts DEF Memory, Values
  <2>2. Swap(host, t, v) = Reverse(v) /\ Swap(host, t, Reverse(v)) = Reverse(Reverse(v))
    BY <1>2, <2>1, SwapLittle
  <2>. QED
    BY <1>2, <2>1, <2>2 DEF PutPod, Memory
<1>3. CASE host = "big"
  <2>1. \A w : Memory(host, w) = w /\ Swap(host, t, w) = w
    BY <1>3 DEF Memory, Swap, ShouldSwap
  <2>. QED
    BY <2>1 DEF PutPod
<1>. QED
  BY <1>2, <1>3 DEF Hosts

(* operator& on a number: the bytes on the stream are those of the value,  *)
(* the most significant first, whatever the byte order of the host, for    *)
(* every value of every type but the signed short.                         *)
THEOREM NetworkOrder ==
  ASSUME NEW host \in Hosts, NEW t \in Kept, NEW v \in Values(t)
  PROVE  PutPod(host, t, v) = v
BY WireIsValue

(* What one host writes any other reads, and the reader stops where the    *)
(* next field begins.                                                      *)
THEOREM NumberReadBack ==
  ASSUME NEW c \in Hosts, NEW s \in Hosts, NEW t \in Kept, NEW v \in Values(t),
         NEW rest \in Seq(Byte)
  PROVE  GetPod(s, t, PutPod(c, t, v) \o rest) = Got(v, rest)
<1> DEFINE w == v \o rest
<1>1. v \in Seq(Byte) /\ Len(v) = t.n /\ Len(v) \in Nat
  BY DEF Values
<1>2. PutPod(c, t, v) \o rest = w
  BY WireIsValue
<1>3. w \in Seq(Byte) /\ Len(w) = Len(v) + Len(rest) /\ Len(rest) \in Nat
  BY <1>1, ConcatProperties
<1>4. SubSeq(w, 1, Len(v)) = v /\ SubSeq(w, Len(v) + 1, Len(w)) = rest
  <2>1. /\ \A i \in 1..Len(v) : w[i] = v[i]
        /\ \A i \in 1..Len(rest) : w[Len(v) + i] = rest[i]
    <3>1. \A i \in 1..Len(v) + Len(rest) : w[i] = IF i <= Len(v) THEN v[i] ELSE rest[i - Len(v)]
      BY <1>1, ConcatProperties
    <3> HIDE DEF w
    <3>0. Len(v) \in Nat /\ Len(rest) \in Nat
      BY <1>1, <1>3
    <3>2. ASSUME NEW i \in 1..Len(v) PROVE w[i] = v[i]
      <4>1. i \in 1..Len(v) + Len(rest) /\ i <= Len(v)
        BY <3>0
      <4>. QED
        BY <3>1, <4>1
    <3>3. ASSUME NEW i \in 1..Len(rest) PROVE w[Len(v) + i] = rest[i]
      <4>1. Len(v) + i \in 1..Len(v) + Len(rest) /\ ~ (Len(v) + i <= Len(v)) /\ Len(v) + i - Len(v) = i
        BY <3>0
      <4>. QED
        BY <3>1, <4>1
    <3>. QED
      BY <3>2, <3>3
  <2> HIDE DEF w
  <2>2. \A i \in 1..Len(w) : w[i] \in Byte
    BY <1>3, ElementOfSeq
  <2>3. /\ SubSeq(w, 1, Len(v)) \in Seq(Byte) /\ Len(SubSeq(w, 1, Len(v))) = Len(v)
        /\ \A i \in 1..Len(v) : SubSeq(w, 1, Len(v))[i] = w[i]
    BY <1>1, <1>3, <2>2, SubSeqProperties
  <2>4. /\ SubSeq(w, Len(v) + 1, Len(w)) \in Seq(Byte)
        /\ Len(SubSeq(w, Len(v) + 1, Len(w))) = Len(rest)
        /\ \A i \in 1..Len(rest) : SubSeq(w, Len(v) + 1, Len(w))[i] = w[Len(v) + i]
    <3> DEFINE m == Len(v) + 1
               n == Len(w)
               u == SubSeq(w, m, n)
    <3>1. m \in Int /\ n \in Int /\ \A i \in m..n : w[i] \in Byte
      BY <1>1, <1>3, <2>2
    <3>2. /\ u \in Seq(Byte) /\ Len(u) = IF m <= n THEN n - m + 1 ELSE 0
          /\ \A i \in 1..n - m + 1 : u[i] = w[m + i - 1]
      <4> HIDE DEF m, n
      <4>. QED
        BY <3>1, SubSeqProperties
    <3>3. n - m + 1 = Len(rest) /\ (m <= n <=> Len(rest) > 0)
      BY <1>1, <1>3
    <3>4. \A i \in 1..Len(rest) : m + i - 1 = Len(v) + i
      BY <1>1, <1>3
    <3> HIDE DEF u
    <3>5. Len(u) = Len(rest)
      BY <1>3, <3>2, <3>3
    <3>6. \A i \in 1..Len(rest) : u[i] = w[Len(v) + i]
      BY <3>2, <3>3, <3>4
    <3>. QED
      BY <3>2, <3>5, <3>6 DEF u
  <2>5. SubSeq(w, 1, Len(v)) = v
    BY <1>1, <2>1, <2>3, SeqEqual
  <2>6. SubSeq(w, Len(v) + 1, Len(w)) = rest
    BY <2>1, <2>4, SeqEqual
  <2>. QED
    BY <2>5, <2>6
<1> HIDE DEF w
<1>5. Swap(s, t, Memory(s, v)) = v
  BY WireIsValue
<1>6. ~ (Len(w) < t.n)
  BY <1>1, <1>3
<1>7. GetPod(s, t, w) = Got(Swap(s, t, Memory(s, SubSeq(w, 1, Len(v)))), SubSeq(w, Len(v) + 1, Len(w)))
  BY <1>1, <1>6 DEF GetPod
<1>. QED
  BY <1>2, <1>4, <1>5, <1>7

(* The signed short: its high bit smears into the low byte on a little-    *)
(* endian host, so exactly the values without it, and those whose low byte *)
(* is 255, are written as they are.                                        *)
THEOREM SignedShortSmears ==
  ASSUME NEW v \in Seq(Byte), Len(v) = 2
  PROVE  PutPod("little", Pod("signed", 2), v) = v <=> v[1] < 128 \/ v[2] = 255
<1>0. v[1] \in Byte /\ v[2] \in Byte
  OBVIOUS
<1>1. v = <<v[1], v[2]>>
  OBVIOUS
<1> DEFINE low == IF v[1] >= 128 THEN 255 ELSE v[2]
<1>2. Swap("little", Pod("signed", 2), v) = <<low, v[1]>>
  <2>1. Swap("little", Pod("signed", 2), v) = Swap2("signed", v)
    BY Chosen
  <2>. QED
    BY <2>1 DEF Swap2
<1>3. low \in Byte
  BY <1>0, ByteIsInt
<1>4. Reverse(<<low, v[1]>>) = <<v[1], low>>
  BY <1>0, <1>3 DEF Reverse
<1>5. PutPod("little", Pod("signed", 2), v) = <<v[1], low>>
  BY <1>2, <1>4 DEF PutPod, Memory
<1>6. <<v[1], low>> = v <=> low = v[2]
  BY <1>1
<1>7. low = v[2] <=> v[1] < 128 \/ v[2] = 255
  <2>1. v[1] \in Int /\ v[2] \in Int
    BY <1>0, ByteIsInt
  <2>2. CASE v[1] >= 128
    BY <2>1, <2>2
  <2>3. CASE v[1] < 128
    BY <2>1, <2>3
  <2>. QED
    BY <2>1, <2>2, <2>3
<1>. QED
  BY <1>5, <1>6, <1>7
=============================================================================

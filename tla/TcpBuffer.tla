------------------------------ MODULE TcpBuffer ------------------------------
(***************************************************************************)
(* net::TcpBuffer (net/tcp_buffer.cc): a byte buffer with a read and a     *)
(* write index.  Operators on a buffer                                     *)
(*   [size |-> buffer_.size(), data |-> buffer_, ri |-> read_index_,       *)
(*    wi |-> write_index_],                                                *)
(* data a function on 0..size-1.  Bytes are natural numbers; 0 is what a   *)
(* fresh vector holds.                                                     *)
(***************************************************************************)
EXTENDS Integers

Buf(size, data, ri, wi) == [size |-> size, data |-> data, ri |-> ri, wi |-> wi]

NewBuffer(size) == Buf(size, [k \in 0..(size - 1) |-> 0], 0, 0)

ReadAble(b) == b.wi - b.ri
WriteAble(b) == b.size - b.wi
Least(x, y) == IF x < y THEN x ELSE y

(* A new vector of the given size that begins with the next c unread bytes.*)
Moved(b, size, c) == [k \in 0..(size - 1) |-> IF k < c THEN b.data[b.ri + k] ELSE 0]

(* resizeBuffer: the unread bytes, as many as fit, move to the front.      *)
ResizeBuffer(b, size) ==
  LET c == Least(size, ReadAble(b))
  IN  Buf(size, Moved(b, size, c), 0, c)

(* memcpy(&buffer_[write_index_], bytes, n): n bytes, numbered from first. *)
Fill(b, first, n) ==
  [k \in 0..(b.size - 1) |->
     IF b.wi <= k /\ k < b.wi + n THEN first + (k - b.wi) ELSE b.data[k]]

(* The part of writeToBuffer that makes room: 1.5 times what is needed.    *)
Grow(b, n) ==
  IF n > WriteAble(b) THEN ResizeBuffer(b, (3 * (b.wi + n)) \div 2) ELSE b

WriteToBuffer(b, first, n) ==
  LET g == Grow(b, n)
  IN  Buf(g.size, Fill(g, first, n), g.ri, g.wi + n)

(* Defect: the unread bytes stay where they are.                           *)
AdjustIndices(b) ==
  IF b.ri > b.size \div 3 THEN Buf(b.size, b.data, 0, ReadAble(b)) ELSE b

(* Defect: the read index is not reset.                                    *)
AdjustKeepsReadIndex(b) ==
  IF b.ri > b.size \div 3
  THEN Buf(b.size, Moved(b, b.size, ReadAble(b)), b.ri, ReadAble(b))
  ELSE b

(* adjustBuffer: the unread bytes move to the front once more than a third *)
(* of the buffer has been read.                                            *)
AdjustBuffer(b) ==
  IF b.ri > b.size \div 3
  THEN Buf(b.size, Moved(b, b.size, ReadAble(b)), 0, ReadAble(b))
  ELSE b

(* readFromBuffer: how many bytes are read, and the buffer afterwards.     *)
ReadSize(b, n) == Least(n, ReadAble(b))
ReadFromBuffer(b, n) ==
  IF ReadAble(b) = 0 THEN b
  ELSE AdjustBuffer(Buf(b.size, b.data, b.ri + ReadSize(b, n), b.wi))

ClearBuffer(b) == NewBuffer(0)

(* recycleRead, recycleWrite: an index that would reach the end of the     *)
(* buffer is refused.                                                      *)
RecycleRead(b, n) ==
  IF b.ri + n >= b.size THEN b ELSE AdjustBuffer(Buf(b.size, b.data, b.ri + n, b.wi))
RecycleWrite(b, n) ==
  IF b.wi + n >= b.size THEN b ELSE AdjustBuffer(Buf(b.size, b.data, b.ri, b.wi + n))
=============================================================================

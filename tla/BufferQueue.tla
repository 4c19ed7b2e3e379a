----------------------------- MODULE BufferQueue -----------------------------
(***************************************************************************)
(* A TcpBuffer used through writeToBuffer, readFromBuffer and clearBuffer, *)
(* as the callbacks of a connection use it.  The bytes written are         *)
(* numbered 1, 2, 3, ...; what the buffer promises is a queue.             *)
(***************************************************************************)
EXTENDS TcpBuffer

CONSTANTS
  Size,       \* the size given to the constructor
  Amounts     \* lengths of reads and writes

ASSUME SizeAssumption == Size \in Nat /\ Amounts \subseteq Nat

VARIABLES
  buf,
  written,    \* number of bytes written so far
  gone        \* number of bytes read or cleared so far

bvars == <<buf, written, gone>>

BufferInit == buf = NewBuffer(Size) /\ written = 0 /\ gone = 0

BufferWrite(n) ==
  /\ buf' = WriteToBuffer(buf, written + 1, n)
  /\ written' = written + n
  /\ UNCHANGED gone

BufferRead(n) ==
  /\ buf' = ReadFromBuffer(buf, n)
  /\ gone' = gone + ReadSize(buf, n)
  /\ UNCHANGED written

BufferClear ==
  /\ buf' = ClearBuffer(buf)
  /\ gone' = written
  /\ UNCHANGED written

BufferNext == BufferClear \/ \E n \in Amounts : BufferWrite(n) \/ BufferRead(n)

BufferSpec == BufferInit /\ [][BufferNext]_bvars
-----------------------------------------------------------------------------
(* The indices stay within the buffer, so that no memcpy leaves it.        *)
IndicesOK ==
  /\ written \in Nat /\ gone \in Nat
  /\ DOMAIN buf = {"size", "data", "ri", "wi"}
  /\ buf.size \in Nat /\ buf.ri \in Nat /\ buf.wi \in Nat
  /\ buf.ri <= buf.wi /\ buf.wi <= buf.size
  /\ DOMAIN buf.data = 0..(buf.size - 1)

(* The buffer is a queue: through any sequence of growing, compacting,     *)
(* reading and clearing, the unread bytes are the ones written and not     *)
(* read, in the order they were written.                                   *)
Queue ==
  /\ ReadAble(buf) = written - gone
  /\ \A k \in 0..(ReadAble(buf) - 1) : buf.data[buf.ri + k] = gone + 1 + k
=============================================================================

----------------------------- MODULE LogStream -----------------------------
(***************************************************************************)
(* LOG(level) << ... on one thread: a LogMessage writes its line into the  *)
(* thread's buffer of its level and flushes it when the statement ends.    *)
(* An operand may log too, so messages nest.  A cell of a buffer holds the *)
(* message that wrote it last and whether it is a newline.                 *)
(***************************************************************************)
EXTENDS Digits

CONSTANTS
  LogSize,       \* kSmallBufferSize
  Slack,         \* the bytes gLogBuf has behind that
  MaxNumeric,    \* kMaxNumericSize
  PtrSize,       \* sizeof(ptr)
  Header,        \* the operands of the constructor
  Operands,      \* the operands of a statement
  Levels,
  MaxMessages, MaxDepth

VARIABLES
  gLogBuf,       \* per level, the buffer
  output,        \* per level, LogLv<LEVEL>::output
  open,          \* the messages under construction, the innermost last
  made,          \* messages made
  line           \* the last line flushed

lvars == <<gLogBuf, output, open, made, line>>

LogInit ==
  /\ gLogBuf = [v \in Levels |-> [i \in 0..(LogSize + Slack - 1) |-> <<0, "-">>]]
  /\ output = [v \in Levels |-> "null"]
  /\ open = <<>> /\ made = 0 /\ line = [id |-> 0, to |-> "null", cells |-> <<>>]

Avail(cur) == LogSize - cur

(* What an operator<< does to the buffer: the bytes it writes at cur_ and  *)
(* by how much it moves cur_.                                              *)
Written(n, len) == [bytes |-> n, len |-> len]

Appends(cur, n) == IF Avail(cur) > n THEN Written(n, n) ELSE Written(0, 0)

(* Defect: cur_ moves by the size reserved, not by the length returned.    *)
FormatNumberWhole(cur, text, len) ==
  IF Avail(cur) > MaxNumeric THEN Written(Len(text) + 1, MaxNumeric) ELSE Written(0, 0)

(* formatInteger and operator<<(double): a text and its NUL.               *)
FormatNumber(cur, text, len) ==
  IF Avail(cur) > MaxNumeric THEN Written(Len(text) + 1, len) ELSE Written(0, 0)

(* A pointer has two digits a byte, and is cut to the room there is.       *)
FormatPointer(cur, value) ==
  LET t == Ptrtoa(Avail(cur), value)
  IN IF Avail(cur) > PtrSize THEN Written(Len(t) + 1, Len(t)) ELSE Written(0, 0)

(* strftime returns 0 if the text and its NUL do not fit.                  *)
FormatTime(cur, n) == IF n < Avail(cur) THEN Written(n + 1, n) ELSE Written(0, 0)

Operator(cur, x) ==
  CASE x.k = "text" -> Appends(cur, x.n)
    [] x.k = "newline" -> Appends(cur, 1)
    [] x.k = "int" -> LET t == Itoa(Avail(cur), x.value, x.abs) IN FormatNumber(cur, t, Len(t))
    [] x.k = "double" -> LET d == Dtoa(x.sign, x.ds, x.K) IN FormatNumber(cur, d.text, d.len)
    [] x.k = "pointer" -> FormatPointer(cur, x.value)
    [] x.k = "time" -> FormatTime(cur, x.n)

(* One operand of message m, on the buffer of its level.                   *)
Put1(st, x) ==
  LET w == Operator(st.cur, x)
  IN [st EXCEPT !.cur = @ + w.len,
        !.buf = [i \in DOMAIN @ |->
                   IF i \in st.cur..(st.cur + w.bytes - 1)
                   THEN <<st.id, IF x.k = "newline" THEN "nl" ELSE "-">> ELSE @[i]]]

(* LogMessage's constructor: the buffer of the level is used from its      *)
(* start, also if a message of that level is under construction.           *)
Construct(v) ==
  LET st == FoldLeft(Put1, [id |-> made + 1, cur |-> 0, buf |-> gLogBuf[v]], Header)
  IN /\ made < MaxMessages /\ Len(open) < MaxDepth
     /\ made' = made + 1
     /\ output' = [output EXCEPT ![v] = IF @ = "null" THEN "stdout" ELSE @]
     /\ open' = Append(
          [i \in 1..Len(open) |->
             [open[i] EXCEPT !.shared = IF open[i].level = v THEN "yes" ELSE @]],
          [id |-> made + 1, level |-> v, cur |-> st.cur, shared |-> "no"])
     /\ gLogBuf' = [gLogBuf EXCEPT ![v] = st.buf]
     /\ UNCHANGED line

Stream(x) ==
  LET m == Last(open)
      st == Put1([id |-> m.id, cur |-> m.cur, buf |-> gLogBuf[m.level]], x)
  IN /\ open # <<>>
     /\ open' = [open EXCEPT ![Len(open)].cur = st.cur]
     /\ gLogBuf' = [gLogBuf EXCEPT ![m.level] = st.buf]
     /\ UNCHANGED <<output, made, line>>

(* The destructor: the newline, then flush.                                *)
Destruct ==
  LET m == Last(open)
      st == Put1([id |-> m.id, cur |-> m.cur, buf |-> gLogBuf[m.level]], [k |-> "newline"])
  IN /\ open # <<>>
     /\ open' = Front(open)
     /\ gLogBuf' = [gLogBuf EXCEPT ![m.level] = st.buf]
     /\ line' = [id |-> m.id, shared |-> m.shared, to |-> output[m.level],
                 cells |-> [i \in 1..st.cur |-> st.buf[i - 1]]]
     /\ UNCHANGED <<output, made>>

LogNext == Destruct \/ (\E v \in Levels : Construct(v)) \/ \E x \in Operands : Stream(x)
-----------------------------------------------------------------------------
(* Properties.                                                             *)

(* No operator<< writes behind kSmallBufferSize, the NULs of the number    *)
(* conversions included, whatever was streamed before it.  The buffer is   *)
(* reused for every line of a level, and dtoa_grisu2 does not return the   *)
(* length it wrote: still every byte flushed was written by its own        *)
(* message, and the line ends in a newline unless the buffer is full;      *)
(* except where an operand of the statement logged at the same level.      *)
LineIsWhole ==
  /\ \A v \in Levels, i \in LogSize..(LogSize + Slack - 1) : gLogBuf[v][i][1] = 0
  /\ \A i \in 1..Len(open) : open[i].cur < LogSize
  /\ line.id # 0 /\ line.shared = "no" =>
       /\ \A i \in 1..Len(line.cells) : line.cells[i][1] = line.id
       /\ Last(line.cells)[2] = "nl" \/ Len(line.cells) = LogSize - 1
=============================================================================

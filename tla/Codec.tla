------------------------------- MODULE Codec -------------------------------
(***************************************************************************)
(* codec::Binary and the rpc macros: what is put on a stream and what the  *)
(* other side takes off it.  A number is the tuple of its bytes, the most  *)
(* significant first; a host is "little" or "big" endian.  A stream is the *)
(* tuple of its unread bytes.                                              *)
(***************************************************************************)
EXTENDS Integers, Sequences, FiniteSets, SequencesExt

CONSTANT Chunk     \* size of the buffer a string is read through

(* Types: a number of n bytes, a string, or a container of numbers.        *)
Pod(kind, n) == [k |-> kind, n |-> n]
Container(kind, elem) == [k |-> kind, elem |-> elem]
Array(n, elem) == [k |-> "array", n |-> n, elem |-> elem]
String == [k |-> "string"]
Pair(first, second) == [k |-> "pair", first |-> first, second |-> second]
Len32 == Pod("unsigned", 4)

ShouldSwap(host) == host = "little"

Memory(host, v) == IF host = "little" THEN Reverse(v) ELSE v

(* (v >> 8) | (v << 8): the shift of a negative short copies its sign into *)
(* the byte the other shift should fill.                                   *)
Swap2(kind, v) ==
  <<IF kind = "signed" /\ v[1] >= 128 THEN 255 ELSE v[2], v[1]>>

(* The halves of an integer of four bytes are swapped as unsigned shorts.  *)
Swap4(v) == Swap2("unsigned", SubSeq(v, 3, 4)) \o Swap2("unsigned", SubSeq(v, 1, 2))

(* Defect: the halves of a long are swapped but not exchanged.             *)
Swap8InPlace(v) == Swap4(SubSeq(v, 1, 4)) \o Swap4(SubSeq(v, 5, 8))

Swap8(v) == Swap4(SubSeq(v, 5, 8)) \o Swap4(SubSeq(v, 1, 4))

(* SwapBytes on the bytes of a float or a double, outermost pair first.    *)
SwapFloat(v) == [i \in 1..Len(v) |-> v[Len(v) + 1 - i]]

Swap(host, t, v) ==
  IF ~ShouldSwap(host) \/ t.n = 1 THEN v
  ELSE IF t.k = "float" THEN SwapFloat(v)
  ELSE IF t.n = 2 THEN Swap2(t.k, v)
  ELSE IF t.n = 4 THEN Swap4(v) ELSE Swap8(v)
-----------------------------------------------------------------------------
(* Encoding.                                                               *)
PutPod(host, t, v) == Memory(host, Swap(host, t, v))

PutLen(host, n) == PutPod(host, Len32, <<0, 0, n \div 256, n % 256>>)

PutElem(host, t, v) ==
  IF t.k = "pair"
  THEN PutPod(host, t.first, v[1]) \o PutPod(host, t.second, v[2])
  ELSE PutPod(host, t, v)

PutElems(host, t, vs) ==
  FlattenSeq([i \in 1..Len(vs) |-> PutElem(host, t, vs[i])])

PutString(host, v) == PutLen(host, Len(v)) \o v

Put(host, t, v) ==
  CASE t.k = "string" -> PutString(host, v)
    [] t.k \in {"array", "seq", "set", "multiset", "map", "multimap"} ->
         PutLen(host, Len(v)) \o PutElems(host, t.elem, v)
    [] OTHER -> PutPod(host, t, v)
-----------------------------------------------------------------------------
(* Decoding gives the value and what is left of the stream, or throws.     *)
Got(v, rest) == [ok |-> "yes", v |-> v, rest |-> rest]
Malformed == [ok |-> "no", v |-> <<>>, rest |-> <<>>]

(* Defect: a read that comes up short is not noticed.                      *)
GetPodShort(host, t, s) ==
  LET m == [i \in 1..t.n |-> IF i <= Len(s) THEN s[i] ELSE 0]
  IN Got(Swap(host, t, Memory(host, m)), SubSeq(s, t.n + 1, Len(s)))

GetPod(host, t, s) ==
  IF Len(s) < t.n THEN Malformed
  ELSE Got(Swap(host, t, Memory(host, SubSeq(s, 1, t.n))), SubSeq(s, t.n + 1, Len(s)))

(* What follows a read, unless it has thrown "malformed data".             *)
Then(got, After(_, _)) == IF got.ok = "no" THEN Malformed ELSE After(got.v, got.rest)

GetPair(host, t, s) ==
  Then(GetPod(host, t.first, s), LAMBDA a, s2 :
    Then(GetPod(host, t.second, s2), LAMBDA b, s3 : Got(<<a, b>>, s3)))

GetElem(host, t, s) ==
  IF t.k = "pair" THEN GetPair(host, t, s) ELSE GetPod(host, t, s)

(* The loops over elements and fields, Read(i, s) being the i-th read.     *)
GetEach(Read(_, _), n, s) ==
  FoldLeft(LAMBDA got, i : Then(got, LAMBDA vs, s2 :
             Then(Read(i, s2), LAMBDA v, s3 : Got(Append(vs, v), s3))),
           Got(<<>>, s), [i \in 1..n |-> i])

(* The n elements that follow a length, each read into a fresh value.      *)
GetElems(host, t, s, n) == GetEach(LAMBDA i, s2 : GetElem(host, t, s2), n, s)

KeyOf(t, x) == IF t.k \in {"map", "multimap"} THEN x[1] ELSE x

(* v.insert(v.end(), value): at the end of a sequence, behind the equal    *)
(* keys of a multiset or multimap, nowhere if a set or map has the key.    *)
(* Keys of the ordered containers are numbers of one byte.                 *)
Insert(t, c, x) ==
  LET upto == Cardinality({i \in 1..Len(c) : KeyOf(t, c[i])[1] <= KeyOf(t, x)[1]})
  IN CASE t.k = "seq" -> Append(c, x)
       [] t.k \in {"set", "map"} /\ \E i \in 1..Len(c) : KeyOf(t, c[i]) = KeyOf(t, x) -> c
       [] OTHER -> SubSeq(c, 1, upto) \o <<x>> \o SubSeq(c, upto + 1, Len(c))

InsertAll(t, c, xs) == FoldLeft(LAMBDA c2, x : Insert(t, c2, x), c, xs)

LenOf(bytes) == 256 * bytes[3] + bytes[4]

GetLen(host, s) == GetPod(host, Len32, s)

(* The elements are added to what the container holds already.             *)
GetContainer(host, t, s, into) ==
  Then(GetLen(host, s), LAMBDA len, s2 :
    Then(GetElems(host, t.elem, s2, LenOf(len)), LAMBDA vs, s3 :
      Got(InsertAll(t, into, vs), s3)))

(* The length read for an array is ignored: its own size counts.           *)
GetArray(host, t, s) ==
  Then(GetLen(host, s), LAMBDA len, s2 : GetElems(host, t.elem, s2, t.n))

(* A string is cleared and read piece by piece.                            *)
GetString(host, s) ==
  Then(GetLen(host, s), LAMBDA len, s2 :
    LET n == LenOf(len)
        Piece(i) == IF i * Chunk <= n THEN Chunk ELSE n % Chunk
        Read(i, s3) == IF Len(s3) < Piece(i) THEN Malformed
                       ELSE Got(SubSeq(s3, 1, Piece(i)), SubSeq(s3, Piece(i) + 1, Len(s3)))
    IN Then(GetEach(Read, (n + Chunk - 1) \div Chunk, s2), LAMBDA ps, s3 :
         Got(FlattenSeq(ps), s3)))

Get(host, t, s, into) ==
  CASE t.k = "string" -> GetString(host, s)
    [] t.k = "array" -> GetArray(host, t, s)
    [] t.k \in {"seq", "set", "multiset", "map", "multimap"} -> GetContainer(host, t, s, into)
    [] OTHER -> GetPod(host, t, s)
-----------------------------------------------------------------------------
(* for_each over the fields of a message, in the order they are exported.  *)
PutFields(host, ts, vs) == FlattenSeq([i \in 1..Len(ts) |-> Put(host, ts[i], vs[i])])

GetFields(host, ts, s, into) ==
  GetEach(LAMBDA i, s2 : Get(host, ts[i], s2, into[i]), Len(ts), s)

(* ObjectFactory::create: null for a name nobody registered.               *)
Create(registered, name) == IF name \in registered THEN name ELSE "null"

(* call: the fields are read into a default-constructed request, the       *)
(* handler runs, its response goes to the end of the same stream.  The     *)
(* handler answers the fields of the request in reverse order.             *)
Call(host, ts, default, s) ==
  Then(GetFields(host, ts, s, default), LAMBDA vs, rest :
    Got(vs, rest \o PutFields(host, Reverse(ts), Reverse(vs))))
-----------------------------------------------------------------------------
(* An exchange x: a client on host x.c sends the values x.vs, of types     *)
(* x.ts, to method x.method on host x.s, whose request is constructed with *)
(* x.default.  The stream may end early.                                   *)
VARIABLES
  x, step, stream,
  req,       \* what the server read off the stream
  ans        \* what the client read off it

cvars == <<x, step, stream, req, ans>>

CodecInit(xs) ==
  /\ x \in xs /\ step = "send" /\ stream = <<>>
  /\ req = Malformed /\ ans = Malformed

Send ==
  /\ step = "send" /\ step' = "sent"
  /\ stream' = PutFields(x.c, x.ts, x.vs)
  /\ UNCHANGED <<x, req, ans>>

Cut ==
  /\ step = "sent" /\ step' = "cut"
  /\ \E n \in 0..(Len(stream) - 1) : stream' = SubSeq(stream, 1, n)
  /\ UNCHANGED <<x, req, ans>>

(* dispatch(method)->call(codec): through a null pointer if the method is  *)
(* not registered; an exception leaves the stream as it is.                *)
Serve ==
  /\ step \in {"sent", "cut"}
  /\ \E r \in {Call(x.s, x.ts, x.default, stream)} :
       /\ step' = IF Create(x.registered, x.method) = "null" THEN "undefined"
                  ELSE IF r.ok = "no" THEN "thrown"
                  ELSE IF step = "cut" THEN "made up" ELSE "served"
       /\ req' = IF step' = "undefined" THEN req ELSE r
       /\ stream' = IF step' = "served" THEN r.rest ELSE stream
  /\ UNCHANGED <<x, ans>>

Nothing == [i \in 1..Len(x.ts) |-> <<>>]

Receive ==
  /\ step = "served" /\ step' = "answered"
  /\ ans' = GetFields(x.c, Reverse(x.ts), stream, Nothing)
  /\ UNCHANGED <<x, req, stream>>

CodecNext == Send \/ Cut \/ Serve \/ Receive
-----------------------------------------------------------------------------
(* Properties.                                                             *)

(* A short whose high bit meets Swap2 on a little-endian side.             *)
Smeared ==
  \E i \in 1..Len(x.ts) :
    /\ x.ts[i] = Pod("signed", 2)
    /\ "little" \in {x.c, x.s} /\ \E b \in 1..2 : x.vs[i][b] >= 128

(* The fields as the handler should get them: operator& never clears a     *)
(* sequence, so the elements its default has come before the ones sent.    *)
Expected ==
  [i \in 1..Len(x.ts) |-> IF x.ts[i].k = "seq" THEN x.default[i] \o x.vs[i] ELSE x.vs[i]]

(* The handler is given the fields that were sent, behind the defaults of  *)
(* its request, and the client reads the fields of the answer, whatever    *)
(* the byte orders of the two hosts and the types that follow one another, *)
(* and nothing is left on the stream; only shorts with a high bit are not  *)
(* kept by Swap.                                                           *)
ExchangeKept ==
  ~Smeared =>
    /\ step \in {"served", "answered"} => req.v = Expected
    /\ step = "answered" => ans = Got(Reverse(Expected), <<>>)

(* A stream cut anywhere makes a decoder throw "malformed data": no value  *)
(* is made up from the part that arrived, and a whole one never throws.    *)
CutIsNoticed ==
  /\ step # "made up"
  /\ step = "thrown" => Len(stream) < Len(PutFields(x.c, x.ts, x.vs))
=============================================================================

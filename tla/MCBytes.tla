------------------------------- MODULE MCBytes -------------------------------
(* The layers that handle bytes, one at a time: the buffer of a connection, *)
(* the codec, the conversions of numbers and the log line.                  *)
EXTENDS BufferQueue, Codec, LogStream

CONSTANT MaxWritten   \* bound on the bytes written to the buffer

VARIABLE layer

mcvars == <<layer, bvars, cvars, q, lvars>>
-----------------------------------------------------------------------------
Byte == Pod("unsigned", 1)
Short == Pod("signed", 2)

Fields == {
  <<Byte, <<200>>>>, <<Pod("unsigned", 2), <<129, 2>>>>, <<Short, <<1, 2>>>>,
  <<Short, <<255, 2>>>>, <<Short, <<1, 128>>>>,
  <<Pod("signed", 4), <<255, 2, 3, 4>>>>, <<Pod("unsigned", 8), <<1, 2, 3, 4, 5, 6, 7, 8>>>>,
  <<Pod("float", 4), <<1, 2, 3, 4>>>>, <<Pod("float", 8), <<1, 2, 3, 4, 5, 6, 7, 8>>>>,
  <<String, <<>>>>, <<String, <<1, 2, 3, 4, 5>>>>, <<Array(2, Byte), <<<<1>>, <<2>>>>>>,
  <<Container("seq", Byte), <<<<2>>, <<1>>>>>>, <<Container("seq", Pod("signed", 4)), <<>>>>,
  <<Container("set", Byte), <<<<1>>, <<2>>>>>>,
  <<Container("multiset", Byte), <<<<1>>, <<1>>>>>>,
  <<Container("map", Pair(Byte, Short)), <<<<<<1>>, <<0, 7>>>>, <<<<3>>, <<0, 8>>>>>>>>,
  <<Container("multimap", Pair(Byte, Byte)), <<<<<<1>>, <<9>>>>, <<<<1>>, <<8>>>>>>>>}

Messages == {<<a>> : a \in Fields} \cup {<<a, b>> : a, b \in Fields}

Exchanges ==
  { [c |-> c, s |-> s, ts |-> [i \in 1..Len(m) |-> m[i][1]], vs |-> [i \in 1..Len(m) |-> m[i][2]],
     default |-> [i \in 1..Len(m) |-> <<>>], registered |-> {"GetB"}, method |-> "GetB"] :
    c, s \in {"little", "big"}, m \in Messages }
  \cup
  { [c |-> "little", s |-> "little", ts |-> <<Container("seq", Byte), Byte>>,
     vs |-> <<v, <<5>>>>, default |-> <<d, <<>>>>,
     registered |-> {"GetB"}, method |-> n] :
    v, d \in {<<>>, <<<<1>>, <<2>>>>, <<<<2>>>>}, n \in {"GetB", "GetC"} }

Conversions ==
  [k : {"int"}, maxlen : 1..7, value : -128..255]
  \cup [k : {"ptr"}, maxlen : 1..4, value : 0..255]
  \cup [k : {"mul"}, f : 0..63, g : 0..63]
  \cup ([k : {"double"}, biased : 0..MaxBiased, sig : 0..(2^Dp - 1)]
          \ {[k |-> "double", biased |-> 0, sig |-> 0]})
  \cup [k : {"power"}, e : -1137..960]
  \cup {g \in [k : {"gen"}, f : 128..255, p : {1, 4}, delta : {1, 2, 3, 5, 8}, wpw : 1..8] :
          g.wpw <= g.delta}
  \cup [k : {"pretty"}, ds : {<<7>>, <<1, 2>>, <<1, 0, 5>>, <<9, 0, 0, 0, 0, 0, 0, 3>>}, K : -120..110]

MCHeader == <<[k |-> "time", n |-> 2], [k |-> "text", n |-> 1], [k |-> "int", value |-> 7, abs |-> 7]>>

MCOperands == {
  [k |-> "text", n |-> 1], [k |-> "text", n |-> 5],
  [k |-> "int", value |-> 0, abs |-> 0],
  [k |-> "double", sign |-> <<>>, ds |-> <<0>>, K |-> 0],
  [k |-> "double", sign |-> <<Minus>>, ds |-> <<3, 1>>, K |-> -1],
  [k |-> "double", sign |-> <<>>, ds |-> <<1>>, K |-> 99],
  [k |-> "pointer", value |-> 200]}
  \cup [k : {"int"}, value : {Least8}, abs : {0, 8, 64, 128}]
-----------------------------------------------------------------------------
NoExchange ==
  /\ x = [ts |-> <<>>, vs |-> <<>>, default |-> <<>>] /\ step = "none"
  /\ stream = <<>> /\ req = Malformed /\ ans = Malformed

MCInit ==
  /\ BufferInit
  /\ LogInit
  /\ \/ layer \in {"buffer", "log"} /\ q = [k |-> "none"] /\ NoExchange
     \/ layer = "codec" /\ q = [k |-> "none"] /\ CodecInit(Exchanges)
     \/ layer = "digits" /\ q \in Conversions /\ NoExchange

MCNext ==
  \/ /\ layer = "buffer"
     /\ BufferClear \/ \E n \in Amounts : (written + n <= MaxWritten /\ BufferWrite(n)) \/ BufferRead(n)
     /\ UNCHANGED <<layer, cvars, q, lvars>>
  \/ layer = "codec" /\ CodecNext /\ UNCHANGED <<layer, bvars, q, lvars>>
  \/ layer = "log" /\ LogNext /\ UNCHANGED <<layer, bvars, cvars, q>>

MCSpec == MCInit /\ [][MCNext]_mcvars
=============================================================================

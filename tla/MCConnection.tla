---------------------------- MODULE MCConnection ----------------------------
(* Instances of Connection for TLC: headers of two bytes, caches and reads *)
(* of eight, ints of six bits and sizes of seven.                          *)
EXTENDS Connection, TLC

(* A request number i that declares len bytes and has size.                *)
Request(i, len, size) == IntBytes(len) \o [k \in 1 .. size |-> <<"body", i, k>>]

Scenario(link, plugin, items) ==
  [link |-> link, plugin |-> plugin, items |-> items, msgs |-> <<>>]

(* A body that makes the cache grow, then two small ones, one empty.       *)
Pipelined == <<Request(1, 8, 8), Request(2, 0, 0), Request(3, 1, 1)>>
NegativeLength == <<Request(1, 1, 1), Request(2, -1, 2), Request(3, 1, 1)>>
TooLong == <<Request(1, 1, 1), Request(2, 25, 2), Request(3, 1, 1)>>
Small == <<Request(1, 1, 1), Request(2, 2, 2), Request(3, 0, 0)>>
WithEmpty == <<Request(1, 1, 1), <<>>, Request(3, 1, 1)>>

(* Messages: all fields, a string replaced by an empty one, a required     *)
(* field missing, an unknown field.                                        *)
Msg1 == SetString(SetString(SetType(NewMsg, 1), 2, <<"a">>), 3, <<"b">>)
Msg2 == SetString(SetString(SetType(NewMsg, 2), 2, <<>>), 4, <<"c", "d">>)
Msg3 == [SetString(NewMsg, 2, <<"e">>) EXCEPT
           !.unknown = <<Tag(9, Delimited), Num(1), Char("f"), Tag(7, Varint), Num(5)>>]
Msg4 == [NewMsg EXCEPT
           !.unknown = <<Tag(5, StartGroup), Tag(6, StartGroup), Tag(6, EndGroup),
                         Tag(2, Fixed32), Num(7), Tag(5, EndGroup),
                         Tag(0, Fixed64), Num(8)>>]

Datagrams(msgs) ==
  [link |-> "udp", plugin |-> "udp", msgs |-> msgs,
   items |-> [i \in DOMAIN msgs |-> SubSeq(SerializeMsg(msgs[i]), 1, ByteSize(msgs[i]))]]

StreamScenarios ==
  {Scenario("tcp", "example", s) : s \in {Pipelined, NegativeLength, TooLong}}
  \cup {Scenario("udp", "example", s) : s \in {Small, NegativeLength, TooLong, WithEmpty}}
  \cup {Scenario("tcp", "udp", SubSeq(Small, 1, 2)), Scenario("udp", "udp", Pipelined)}

MsgScenarios ==
  {Datagrams(s) : s \in {<<Msg1, Msg2, Msg3>>, <<Msg3, Msg4, Msg1>>, <<Msg2, Msg3, Msg2>>}}

AllScenarios == StreamScenarios \cup MsgScenarios

AllBytes ==
  {Junk} \cup {<<"int", v, k>> : v \in Ints, k \in 1 .. HeaderLen}
  \cup UNION {UNION {ToSet(s.items[i]) : i \in DOMAIN s.items} : s \in AllScenarios}
=============================================================================

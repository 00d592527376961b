------------------------------ MODULE DemoMsg ------------------------------
(***************************************************************************)
(* demo::msg (module/udp/msg.pb.cc), the message the UDP plug-in expects   *)
(* in a datagram: one integer and three strings, each with a presence bit, *)
(* and what was skipped as unknown.                                        *)
(*                                                                         *)
(* A tag, an integer, a length and a character are one cell each: the      *)
(* number of bytes a varint, a fixed32 or a fixed64 takes is left out, and *)
(* so is the library's limit on the groups that lie within each other.     *)
(*                                                                         *)
(* The server parses messages; the sender of a datagram serializes them    *)
(* with the same generated code, as tools/protobuf/test-src/test.cpp does. *)
(***************************************************************************)
EXTENDS Integers, Sequences, FiniteSets, SequencesExt

MsgType == 1
Strings == {2, 3, 4}     \* MsgInfo, MsgFrom, opt
Fields == {MsgType} \cup Strings
Required == {1, 2, 3}

(* Wire types.                                                             *)
Varint == 0
Fixed64 == 1
Delimited == 2
StartGroup == 3
EndGroup == 4
Fixed32 == 5
WireOf(f) == IF f = MsgType THEN Varint ELSE Delimited

Tag(f, wire) == <<"tag", f, wire>>
Num(n) == <<"num", n, 0>>
Char(x) == <<"char", x, 0>>

(* SharedCtor, Clear.                                                      *)
NewMsg == [has |-> {}, type |-> 0, str |-> [f \in Strings |-> <<>>],
           unknown |-> <<>>]

SetType(m, v) == [m EXCEPT !.has = @ \cup {MsgType}, !.type = v]
SetString(m, f, s) == [m EXCEPT !.has = @ \cup {f}, !.str[f] = s]

IsInitialized(m) == Required \subseteq m.has

(* SerializeWithCachedSizes: the fields present, by number, then the rest. *)
SerializeField(m, f) ==
  IF f \notin m.has THEN <<>>
  ELSE <<Tag(f, WireOf(f))>> \o
       IF f = MsgType THEN <<Num(m.type)>>
       ELSE <<Num(Len(m.str[f]))>> \o [i \in DOMAIN m.str[f] |-> Char(m.str[f][i])]

SerializeMsg(m) ==
  FlattenSeq([f \in 1 .. 4 |-> SerializeField(m, f)]) \o m.unknown

(* ByteSize: what SerializeToString reserves for the bytes it writes.      *)
ByteSize(m) ==
  Len(m.unknown)
  + FoldSet(LAMBDA f, n : n + IF f = MsgType THEN 2 ELSE 2 + Len(m.str[f]),
            0, m.has)

(* MergeFrom: the fields the other message has replace one's own.          *)
MergeFrom(m, from) ==
  [has |-> m.has \cup from.has,
   type |-> IF MsgType \in from.has THEN from.type ELSE m.type,
   str |-> [f \in Strings |-> IF f \in from.has THEN from.str[f] ELSE m.str[f]],
   unknown |-> m.unknown \o from.unknown]

-----------------------------------------------------------------------------
(* MergePartialFromCodedStream, cell by cell.  Field 0 stands for one that *)
(* is skipped, whose cells are kept; "open" has the numbers of the groups  *)
(* that are being skipped, the outermost first.  "over" is an end before   *)
(* the end of the data, or a failure.                                      *)
StartParse == [msg |-> NewMsg, at |-> "tag", field |-> 0, left |-> 0, open |-> <<>>]

Between(open) == IF open = <<>> THEN "tag" ELSE "group"

(* What follows a tag.                                                     *)
Place(wire) ==
  CASE wire \in {Varint, Fixed32, Fixed64} -> "num"
    [] wire = Delimited                    -> "length"
    [] wire = StartGroup                   -> "group"
    [] OTHER                               -> "over"

Skipped(s, c) == [s EXCEPT !.msg.unknown = Append(@, c)]

(* SkipField.  The tag 0 ends a message; no field has another's end of a   *)
(* group, or a wire type that there is not.                                *)
Refused(c) == Place(c[3]) = "over" \/ (c[2] = 0 /\ c[3] = Varint)
SkipField(s, c) ==
  IF Refused(c) THEN [s EXCEPT !.at = "over"]
  ELSE Skipped([s EXCEPT !.at = Place(c[3]), !.field = 0,
                         !.open = IF c[3] = StartGroup THEN Append(@, c[2]) ELSE @], c)

ReadTag(s, c) ==
  LET f == c[2]
      next == [s EXCEPT !.at = Place(c[3]), !.field = f]
  IN  IF f \notin Fields \/ WireOf(f) # c[3] THEN SkipField(s, c)
      ELSE IF f \in Strings THEN [next EXCEPT !.msg.has = @ \cup {f}]
      ELSE next

(* SkipMessage: a tag within a group.                                      *)
ReadInGroup(s, c) ==
  IF c[3] = EndGroup /\ c[2] = Last(s.open)
  THEN Skipped([s EXCEPT !.at = Between(Front(s.open)), !.open = Front(s.open)], c)
  ELSE SkipField(s, c)

ReadNum(s, c) ==
  LET next == [s EXCEPT !.at = Between(s.open)]
  IN  IF s.field = 0 THEN Skipped(next, c)
      ELSE [next EXCEPT !.msg = SetType(@, c[2])]

(* ReadString empties the string it reads into.                            *)
(* Fault: it appends to what the string holds.                             *)
MutReadLength(s, c) ==
  LET next == [s EXCEPT !.at = IF c[2] = 0 THEN Between(s.open) ELSE "chars",
                        !.left = c[2]]
  IN  IF s.field = 0 THEN Skipped(next, c) ELSE next
ReadLength(s, c) ==
  LET next == [s EXCEPT !.at = IF c[2] = 0 THEN Between(s.open) ELSE "chars",
                        !.left = c[2]]
  IN  IF s.field = 0 THEN Skipped(next, c)
      ELSE [next EXCEPT !.msg.str[s.field] = <<>>]

ReadChar(s, c) ==
  LET next == [s EXCEPT !.at = IF s.left = 1 THEN Between(s.open) ELSE "chars",
                        !.left = @ - 1]
  IN  IF s.field = 0 THEN Skipped(next, c)
      ELSE [next EXCEPT !.msg.str[s.field] = Append(@, c[2])]

ParseStep(s, c) ==
  CASE s.at = "tag"    -> ReadTag(s, c)
    [] s.at = "group"  -> ReadInGroup(s, c)
    [] s.at = "num"    -> ReadNum(s, c)
    [] s.at = "length" -> ReadLength(s, c)
    [] s.at = "chars"  -> ReadChar(s, c)
    [] s.at = "over"   -> s

(* ParseFromArray: the message as far as it was read, and whether it was   *)
(* read to the end and has what is required.                               *)
ParseFromArray(cells) ==
  LET end == FoldLeft(ParseStep, StartParse, cells)
  IN  [msg |-> end.msg, ok |-> end.at = "tag" /\ IsInitialized(end.msg)]
=============================================================================

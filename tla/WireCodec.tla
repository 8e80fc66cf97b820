------------------------------- MODULE WireCodec -------------------------------
(***************************************************************************)
(* The bytes that cross between the managed shim and the native plugin:    *)
(* the shim's writers (Shim.cs, UiBridge.cs) against the Cursor of api.rs, *)
(* and UiCommand::encode of api.rs against Command.Decode of UiBridge.cs.  *)
(*                                                                         *)
(* A number is the sequence of its bytes, low byte first, in values as on  *)
(* the wire; only lengths, counts, tags and bounds are turned into         *)
(* integers.  Text is a sequence of ASCII bytes.  A record is the sequence *)
(* of its fields, described by a layout: the writer's layout and the       *)
(* reader's are separate definitions, as they are in the code.  The types  *)
(* of the SDK's fields (Combatant, Player, NetworkBuff) are not in the     *)
(* repository; they are taken to have the width api.rs gives them.         *)
(***************************************************************************)
EXTENDS Integers, Sequences, SequencesExt

CONSTANTS
  Null,          \* a null reference, or None
  Numbers,       \* the numbers that ids, indexes and bounds are drawn from
  Texts,         \* strings, as sequences of bytes
  Blobs,         \* network payloads, as sequences of bytes
  MaxUiPayload,  \* api.rs:10, 1 MiB in the code
  MaxPayload,    \* UiBridge.cs:12, 1 MiB in the code
  MaxItems,      \* UiBridge.cs:658, 10000 in the code
  MaxLogRows     \* UiBridge.cs:567, 10000 in the code

ASSUME CodecAssumption ==
  /\ MaxUiPayload \in Nat /\ MaxPayload \in Nat
  /\ MaxItems \in Nat /\ MaxLogRows \in Nat

Byte == 0..255

(* Lengths and counts: what fits an int, as every length in C# does.        *)
Count == {n \in Nat : n <= 2147483647}

(* What a field of a record may be: bytes, a list of them, or null.         *)
Field == {Null} \cup Seq(Byte) \cup Seq(Seq(Byte))

ASSUME NullAssumption == Null \notin Seq(Byte) \cup Seq(Field \cup Seq(Field))

ASSUME ValueAssumption ==
  /\ Numbers \subseteq Int
  /\ \A s \in Texts : s \in Seq(0..127) /\ Len(s) \in Count
  /\ \A s \in Blobs : s \in Seq(Byte) /\ Len(s) \in Count

-------------------------------------------------------------------------------
(* Numbers and fields.                                                      *)
Width(t) ==
  CASE t \in {"u8", "bool", "flag"}          -> 1
    [] t = "u16"                             -> 2
    [] t \in {"u32", "i32", "f32"}           -> 4
    [] t \in {"i64", "u64"}                  -> 8

LittleEndian(n, w) == [i \in 1..w |-> IF i > 4 THEN (IF n < 0 THEN 255 ELSE 0)
                                      ELSE (n \div 256^(i - 1)) % 256]
U32(n) == LittleEndian(n, 4)
I64(n) == LittleEndian(n, 8)

(* The number in some bytes; negative when the top bit is set: of a length  *)
(* or a count, more than there is to read, either way.                      *)
Number(bytes) ==
  FoldRight(LAMBDA b, acc : acc * 256 + b, bytes,
            IF Last(bytes) > 127 THEN -1 ELSE 0)

(* WriteString and put_string; the shim writes a null string as "".         *)
Text(s) == IF s = Null THEN U32(0) ELSE U32(Len(s)) \o s

PutOption(v) == IF v = Null THEN <<0>> ELSE <<1>> \o v

PutList(Put(_), s) ==
  U32(Len(s)) \o FlattenSeq([i \in DOMAIN s |-> Put(s[i])])

PutWord(n) == n

(* One field of type t.  A "flag" is a boolean that the reader checks.      *)
PutField(t, v) ==
  CASE t \in {"str", "bytes"} -> Text(v)
    [] t = "strs"             -> PutList(Text, v)
    [] t = "u32s"             -> PutList(PutWord, v)
    [] t = "option"           -> PutOption(v)
    [] OTHER                  -> v

PutFields(layout, v) ==
  FlattenSeq([i \in DOMAIN layout |-> PutField(layout[i], v[i])])

-------------------------------------------------------------------------------
(* The Cursor: the bytes not read yet and the value read last.  A refused   *)
(* cursor stays refused, as "?" returns from every caller.                  *)
Refused == [ok |-> FALSE, rest |-> <<>>, got |-> <<>>]

Cursor(bytes) == [ok |-> TRUE, rest |-> bytes, got |-> <<>>]

Read(c, v) == IF c.ok THEN [c EXCEPT !.got = v] ELSE Refused

(* The "?" operator: go on with what was read, unless it was refused.       *)
Then(c, F(_)) == IF c.ok THEN F(c) ELSE Refused

(* The elements read so far, and one more.                                  *)
Collect(c, next) == Read(next, Append(c.got, next.got))

Take(c, n) ==
  IF c.ok /\ n \in 0..Len(c.rest)
  THEN [ok |-> TRUE, rest |-> SubSeq(c.rest, n + 1, Len(c.rest)),
        got |-> SubSeq(c.rest, 1, n)]
  ELSE Refused

Bytes(c) == Then(Take(c, 4), LAMBDA n : Take(n, Number(n.got)))

(* from_utf8: no byte of an ASCII text has its top bit set.                 *)
Str(c) ==
  Then(Bytes(c), LAMBDA s : IF \A i \in DOMAIN s.got : s.got[i] < 128 THEN s ELSE Refused)

(* A count, then that many elements.  Every element takes a byte at least,  *)
(* so a count beyond what is left is refused one way or the other.  (Space  *)
(* is reserved for the count first, api.rs 355: one so large that there is  *)
(* no such space ends the process there, which is outside this model.)      *)
ReadList(c, Element(_)) ==
  Then(Take(c, 4), LAMBDA n :
    IF Number(n.got) \notin 0..Len(n.rest) THEN Refused
    ELSE FoldLeft(LAMBDA d, i : Collect(d, Element(d)), Read(n, <<>>),
                  [i \in 1..Number(n.got) |-> i]))

ReadWord(c) == Take(c, 4)

(* option_u32 and the checked match of CheckedChanged: 0 or 1, or refused.  *)
ReadFlag(c) ==
  Then(Take(c, 1), LAMBDA b : IF b.got \in {<<0>>, <<1>>} THEN b ELSE Refused)

ReadOption(c) ==
  Then(ReadFlag(c), LAMBDA b : IF b.got = <<1>> THEN Take(b, 4) ELSE Read(b, Null))

ReadBool(c) ==
  Then(Take(c, 1), LAMBDA b : Read(b, IF b.got = <<0>> THEN <<0>> ELSE <<1>>))

ReadField(c, t) ==
  CASE t = "str"    -> Str(c)
    [] t = "bytes"  -> Bytes(c)
    [] t = "strs"   -> ReadList(c, Str)
    [] t = "u32s"   -> ReadList(c, ReadWord)
    [] t = "option" -> ReadOption(c)
    [] t = "flag"   -> ReadFlag(c)
    [] t = "bool"   -> ReadBool(c)
    [] OTHER        -> Take(c, Width(t))

ReadFields(c, layout) ==
  FoldLeft(LAMBDA d, t : Collect(d, ReadField(d, t)), Read(c, <<>>), layout)

(* A record that may be null: a byte, then the fields unless it is 0.       *)
ReadNullable(c, Fields(_)) ==
  Then(Take(c, 1), LAMBDA b : IF b.got = <<0>> THEN Read(b, Null) ELSE Fields(b))

-------------------------------------------------------------------------------
(* Records of the SDK: the order of Shim.cs, and the order of api.rs.        *)
ShimPlayer == [i \in 1..17 |-> IF i < 17 THEN "u32" ELSE "u64"]

ShimCombatant ==
  <<"u32", "u32", "u8", "i32", "i32", "str", "u32", "u32", "u32", "u32", "u32",
    "u32", "u32", "u32", "bool", "u32", "u32", "f32", "f32", "f32", "f32",
    "f32", "f32", "u32", "u32", "str", "u32", "u32", "u32", "u8", "i32", "i64",
    "i32">>

ShimBuff == <<"u16", "u16", "i64", "f32", "u32", "str", "u32", "str">>

PutBuff(v) == IF v = Null THEN <<0>> ELSE <<1>> \o PutFields(ShimBuff, v)

PutPlayer(v) == IF v = Null THEN <<0>> ELSE <<1>> \o PutFields(ShimPlayer, v)

PutCombatant(v) ==
  IF v = Null THEN <<0>>
  ELSE <<1>> \o PutFields(ShimCombatant, SubSeq(v, 1, 33)) \o PutList(PutBuff, v[34])

Player(c) ==
  ReadNullable(c, LAMBDA d :
    ReadFields(d, [i \in 1..17 |-> IF i = 17 THEN "u64" ELSE "u32"]))

Buff(c) ==
  ReadNullable(c, LAMBDA d :
    ReadFields(d, <<"u16", "u16", "i64", "f32", "u32", "str", "u32", "str">>))

Buffs(c) == ReadList(c, Buff)

CombatantLayout ==
  <<"u32", "u32", "u8", "i32", "i32", "str",
    "u32", "u32", "u32", "u32", "u32", "u32", "u32", "u32",
    "bool", "u32", "u32", "f32", "f32", "f32", "f32", "f32", "f32",
    "u32", "u32", "str", "u32", "u32", "u32", "u8", "i32", "i64", "i32">>

Combatant(c) ==
  ReadNullable(c, LAMBDA d :
    Then(ReadFields(d, CombatantLayout), LAMBDA r : Collect(r, Buffs(r))))

-------------------------------------------------------------------------------
(* Events.  An event is its kind and its fields in the order of the wire;    *)
(* an event of the tab (kind 11) has its tag as first field.                *)
ShimEvent(kind) ==
  CASE kind \in {0, 1} -> <<"i64", "str", "bytes">>
    [] kind = 4        -> <<>>
    [] kind = 5        -> <<"u32", "str">>
    [] kind = 7        -> <<"i32", "u32s">>
    [] kind \in {8, 9} -> <<"u32", "u32", "str">>
    [] kind = 10       -> <<"u32">>

BridgeEvent(tag) ==
  << <<"u32">>, <<"u32", "flag">>, <<"u32", "str">>, <<"u32", "option">>,
     <<"u32", "i64">>, <<"option", "str">> >>[tag + 1]

WriteEvent(e) ==
  CASE e.kind \in {2, 3} -> PutCombatant(e.value)
    [] e.kind = 6        -> PutPlayer(e.value)
    [] e.kind = 11       -> e.value[1] \o PutFields(BridgeEvent(e.value[1][1]), Tail(e.value))
    [] OTHER             -> PutFields(ShimEvent(e.kind), e.value)

UiEventLayout(tag) ==
  << <<"u32">>, <<"u32", "flag">>, <<"u32", "str">>,
     <<"u32", "option">>, <<"u32", "i64">>, <<"option", "str">> >>[tag + 1]

(* Variant: the check that nothing follows the event is missing.            *)
UiEventOpenEnded(c) ==
  Then(Take(c, 1), LAMBDA tag :
    IF tag.got \notin {<<k>> : k \in 0..5} THEN Refused
    ELSE Then(ReadFields(tag, UiEventLayout(tag.got[1])), LAMBDA r :
      Read(r, <<tag.got>> \o r.got)))

UiEvent(c) ==
  Then(Take(c, 1), LAMBDA tag :
    IF tag.got \notin {<<k>> : k \in 0..5} THEN Refused
    ELSE Then(ReadFields(tag, UiEventLayout(tag.got[1])), LAMBDA r :
      IF r.rest # <<>> THEN Refused ELSE Read(r, <<tag.got>> \o r.got)))

(* Variant: the connection is read before the timestamp.                    *)
NetworkEventSwapped(c) == ReadFields(c, <<"str", "i64", "bytes">>)

NetworkEvent(c) == ReadFields(c, <<"i64", "str", "bytes">>)

EventKind == 0..11

(* What a reader returns: the value it read, or an error.                   *)
Result(c) == IF c.ok THEN [ok |-> TRUE, value |-> c.got] ELSE [ok |-> FALSE]

NotNull(c) == IF c.got = Null THEN Refused ELSE c

Decode(kind, payload) ==
  LET c == Cursor(payload)
  IN  CASE kind \notin EventKind -> Result(Refused)
        [] kind \in {0, 1} -> Result(NetworkEvent(c))
        [] kind \in {2, 3} -> Result(NotNull(Combatant(c)))
        [] kind = 4        -> Result(c)
        [] kind = 5        -> Result(ReadFields(c, <<"u32", "str">>))
        [] kind = 6        -> Result(NotNull(Player(c)))
        [] kind = 7        -> Result(ReadFields(c, <<"i32", "u32s">>))
        [] kind = 8        -> Result(ReadFields(c, <<"u32", "u32", "str">>))
        [] kind = 9        -> Result(ReadFields(c, <<"u32", "i32", "str">>))
        [] kind = 10       -> Result(ReadFields(c, <<"u32">>))
        [] kind = 11       -> Result(UiEvent(c))

-------------------------------------------------------------------------------
(* Repository queries: what QueryCore writes for the value v of the SDK, and *)
(* what the typed helper of api.rs makes of the bytes.                      *)
PutEntry(p) == p[1] \o Text(p[2])

WriteAnswer(q, v) ==
  CASE q = 4  -> Text(v)
    [] q = 6  -> PutList(PutCombatant, v)
    [] q = 7  -> PutPlayer(v)
    [] q = 8  -> PutList(PutEntry, v)
    [] q = 11 -> PutList(Text, IF v = Null THEN <<>> ELSE v)
    [] OTHER  -> v

Combatants(c) ==
  Then(ReadList(c, Combatant), LAMBDA r : IF Contains(r.got, Null) THEN Refused ELSE r)

Entry(c) == ReadFields(c, <<"u32", "str">>)

ResourceDictionary(c) == Then(ReadList(c, Entry), LAMBDA r : Read(r, ToSet(r.got)))

Helper(q, bytes) ==
  LET c == Cursor(bytes)
  IN  CASE q \in {1, 2, 3, 9} -> Result(Take(c, 4))
        [] q = 4              -> Result(Str(c))
        [] q = 5              -> Result(ReadField(c, "bool"))
        [] q = 6              -> Result(Combatants(c))
        [] q = 7              -> Result(Player(c))
        [] q = 8              -> Result(ResourceDictionary(c))
        [] q = 10             -> Result(Take(c, 8))
        [] q = 11             -> Result(ReadList(c, Str))
        [] q = 12             -> Result(Take(c, 1))

-------------------------------------------------------------------------------
(* UI commands: the tag, then the fields; in Add the tag of the control is a *)
(* field of its own, before the control's id.                               *)
ControlLayout(kind) ==
  << <<>>, <<>>, <<"str">>, <<"str">>, <<"str", "flag">>, <<"str">>,
     <<"strs", "option">>, <<"i64", "i64", "i64", "i64">>, <<"u32">> >>[kind + 1]

CommandLayout(v) ==
  IF v[1] = <<0>> THEN <<"option", "u8", "u32">> \o ControlLayout(v[3][1])
  ELSE << <<"u32">>, <<>>, <<"u32", "str">>, <<"u32", "flag">>, <<"u32", "flag">>,
          <<"u32", "strs", "option">>, <<"u32", "option">>, <<"u32", "i64">>,
          <<"u32", "str">>, <<"u32">> >>[v[1][1]]

Within(bytes) ==
  IF Len(bytes) > MaxUiPayload THEN [ok |-> FALSE] ELSE [ok |-> TRUE, value |-> bytes]

Encode(v) == Within(v[1] \o PutFields(CommandLayout(v), Tail(v)))

(* Reader.Strings reads at most MaxItems strings.                           *)
BridgeStrings(c) ==
  Then(Take(c, 4), LAMBDA n :
    IF Number(n.got) > MaxItems THEN Refused ELSE ReadList(c, Str))

BridgeFields(c, layout) ==
  FoldLeft(LAMBDA d, t : Collect(d, IF t = "strs" THEN BridgeStrings(d) ELSE ReadField(d, t)),
           Read(c, <<>>), layout)

BridgeControl(kind) ==
  CASE kind \in {2, 3, 5} -> <<"str">>
    [] kind = 4           -> <<"str", "flag">>
    [] kind = 6           -> <<"strs", "option">>
    [] kind = 7           -> <<"i64", "i64", "i64", "i64">>
    [] kind = 8           -> <<"u32">>
    [] OTHER              -> <<>>

BridgeCommand(kind) ==
  CASE kind \in {1, 10} -> <<"u32">>
    [] kind = 2         -> <<>>
    [] kind \in {3, 9}  -> <<"u32", "str">>
    [] kind \in {4, 5}  -> <<"u32", "flag">>
    [] kind = 6         -> <<"u32", "strs", "option">>
    [] kind = 7         -> <<"u32", "option">>
    [] kind = 8         -> <<"u32", "i64">>

SelectionValid(items, selected) ==
  selected = Null \/ Number(selected) \in 0..(Len(items) - 1)

NumberValid(min, max, step, value) ==
  min <= max /\ step > 0 /\ min <= value /\ value <= max

(* What Command.Decode checks beyond the shape: v is tag, fields.           *)
CommandValid(v) ==
  /\ v[1] = <<6>> => SelectionValid(v[3], v[4])
  /\ v[1] = <<0>> /\ v[3] = <<6>> => SelectionValid(v[5], v[6])
  /\ v[1] = <<0>> /\ v[3] = <<7>> =>
       NumberValid(Number(v[5]), Number(v[6]), Number(v[7]), Number(v[8]))
  /\ v[1] = <<0>> /\ v[3] = <<8>> => Number(v[5]) \in 1..MaxLogRows

BridgeAdd(c) ==
  Then(ReadFields(c, <<"option", "u8", "u32">>), LAMBDA head :
    IF head.got[2][1] \notin 0..8 THEN Refused
    ELSE Then(BridgeFields(head, BridgeControl(head.got[2][1])), LAMBDA r :
      Read(r, head.got \o r.got)))

(* Command.Decode: the fields of the tag, nothing after them, and the checks.*)
CommandDecode(payload) ==
  Result(Then(Take(Cursor(payload), 1), LAMBDA tag :
    IF tag.got \notin {<<k>> : k \in 0..10} THEN Refused
    ELSE Then(IF tag.got = <<0>> THEN BridgeAdd(tag)
              ELSE BridgeFields(tag, BridgeCommand(tag.got[1])), LAMBDA r :
      IF r.rest # <<>> \/ ~CommandValid(<<tag.got>> \o r.got) THEN Refused
      ELSE Read(r, <<tag.got>> \o r.got))))

-------------------------------------------------------------------------------
(* The values that cross.  Every field of a record has its own value, so     *)
(* that two fields read in the wrong order differ.                          *)
U32s    == {U32(n) : n \in Numbers}
I64s    == {I64(n) : n \in Numbers}
Flags   == {<<0>>, <<1>>}
Options == U32s \cup {Null}
Lists(S) == UNION {[1..n -> S] : n \in 0..2}

Record(layout) ==
  [i \in DOMAIN layout |->
     CASE layout[i] = "str"  -> <<64 + i>>
       [] layout[i] = "bool" -> <<1>>
       [] OTHER              -> LittleEndian(i, Width(layout[i]))]

NetworkBuff == Record(ShimBuff)

CombatantValues ==
  {Append(Record(CombatantLayout), buffs) : buffs \in {<<>>, <<Null, NetworkBuff>>}}

PlayerValue == Record(ShimPlayer)

UiEvents ==
  {<<<<0>>, id>> : id \in U32s}
  \cup {<<<<1>>, id, b>> : id \in U32s, b \in Flags}
  \cup {<<<<2>>, id, s>> : id \in U32s, s \in Texts}
  \cup {<<<<3>>, id, o>> : id \in U32s, o \in Options}
  \cup {<<<<4>>, id, n>> : id \in U32s, n \in I64s}
  \cup {<<<<5>>, o, s>> : o \in Options, s \in Texts}

Events ==
  LET Strings == Texts \cup {Null}
      Values(kind) ==
        CASE kind \in {0, 1} -> I64s \X Strings \X (Blobs \cup {Null})
          [] kind \in {2, 3} -> CombatantValues \cup {Null}
          [] kind = 4        -> {<<>>}
          [] kind = 5        -> U32s \X Strings
          [] kind = 6        -> {PlayerValue, Null}
          [] kind = 7        -> U32s \X Lists(U32s)
          [] kind \in {8, 9} -> U32s \X U32s \X Strings
          [] kind = 10       -> {<<n>> : n \in U32s}
          [] kind = 11       -> UiEvents
  IN  UNION {[kind : {k}, value : Values(k)] : k \in EventKind}

ControlFields(kind) ==
  CASE kind \in {0, 1}    -> {<<>>}
    [] kind \in {2, 3, 5} -> {<<s>> : s \in Texts}
    [] kind = 4           -> Texts \X Flags
    [] kind = 6           -> Lists(Texts) \X Options
    [] kind = 7           -> I64s \X I64s \X I64s \X I64s
    [] kind = 8           -> {<<n>> : n \in U32s}

(* A head, and the fields that follow it.                                   *)
Behind(head, v) == head \o v

Controls(kind) == {Behind(<<<<kind>>, id>>, f) : id \in U32s, f \in ControlFields(kind)}

ControlValues == UNION {Controls(kind) : kind \in 0..8}

UiCommands ==
  {Behind(<<<<0>>, parent>>, control) : parent \in Options, control \in ControlValues}
  \cup {<<<<2>>>>}
  \cup {<<<<k>>, id>> : k \in {1, 10}, id \in U32s}
  \cup {<<<<k>>, id, s>> : k \in {3, 9}, id \in U32s, s \in Texts}
  \cup {<<<<k>>, id, b>> : k \in {4, 5}, id \in U32s, b \in Flags}
  \cup {<<<<6>>, id, items, o>> : id \in U32s, items \in Lists(Texts), o \in Options}
  \cup {<<<<7>>, id, o>> : id \in U32s, o \in Options}
  \cup {<<<<8>>, id, n>> : id \in U32s, n \in I64s}

(* What the SDK may answer to each query, null references included.         *)
Answers(q) ==
  CASE q \in {1, 2, 3, 9} -> U32s
    [] q = 4              -> Texts \cup {Null}
    [] q = 5              -> Flags
    [] q = 6              -> {<<>>} \cup {<<c>> : c \in CombatantValues}
                             \cup {<<c, Null>> : c \in CombatantValues}
    [] q = 7              -> {PlayerValue, Null}
    [] q = 8              -> {<<>>} \cup {<<<<n, s>>>> : n \in U32s, s \in Texts \cup {Null}}
    [] q = 10             -> I64s
    [] q = 11             -> Lists(Texts) \cup {Null}
    [] q = 12             -> {<<n % 256>> : n \in Numbers}

Filled(s) == IF s = Null THEN <<>> ELSE s

(* What the plugin is to get: null strings become empty, a null record in   *)
(* an event or in the combatant list is an error.                           *)
Delivered(e) ==
  IF e.value = Null THEN [ok |-> FALSE]
  ELSE [ok |-> TRUE,
        value |-> IF e.kind \in {2, 3, 6, 11} THEN e.value
                  ELSE [i \in DOMAIN e.value |-> Filled(e.value[i])]]

Answered(q, v) ==
  CASE q = 6 /\ Contains(v, Null) -> [ok |-> FALSE]
    [] q \in {4, 11} -> [ok |-> TRUE, value |-> Filled(v)]
    [] q = 8  -> [ok |-> TRUE, value |-> {<<p[1], Filled(p[2])>> : p \in ToSet(v)}]
    [] OTHER  -> [ok |-> TRUE, value |-> v]

===============================================================================

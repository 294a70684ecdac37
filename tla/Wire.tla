-------------------------------- MODULE Wire --------------------------------
(***************************************************************************)
(* What the generated classes of Messaging.pb.cc use of the protobuf       *)
(* runtime, which is not in the repository.  The bytes of a message are a  *)
(* sequence of items, each one tag byte and what it announces: a number, a *)
(* string, packed numbers, or the bytes of another message.  Tags are the  *)
(* ones the generated code compares with.                                  *)
(*                                                                         *)
(* A message is a record of its fields.  A singular message field is a     *)
(* sequence of at most one message, a map a function on its keys, and      *)
(* "unknown" holds the items nobody recognised.                            *)
(***************************************************************************)
EXTENDS Naturals, Sequences, SequencesExt

CONSTANTS Utf8, NotUtf8,  \* strings that are valid UTF-8 and strings that are not
          TextSize,       \* bytes of each of them
          Numbers         \* the values numbers take, as naturals; 0 is the default

ASSUME WireAssumption == /\ TextSize \in Nat \ {0}
                         /\ "" \notin Utf8 \cup NotUtf8
                         /\ Numbers \subseteq Nat

Text == Utf8 \cup NotUtf8

NoEntries == [key \in {} |-> 0]

(* map[key] = x *)
With(map, key, x) == [k \in DOMAIN map \cup {key} |-> IF k = key THEN x ELSE map[k]]
------------------------------------------------------------------------------
(* Writing. *)
VarintSize(n) == IF n < 128 THEN 1 ELSE IF n < 16384 THEN 2 ELSE 3

LengthDelimitedSize(n) == VarintSize(n) + n

StringSize(s) == LengthDelimitedSize(IF s = "" THEN 0 ELSE TextSize)

Sum(Size(_), s) == FoldLeft(LAMBDA n, x : n + Size(x), 0, s)

Bytes(items) == Sum(LAMBDA it : it.size, items)

(* An item the bytes of which do not all arrive is not "whole". *)
Item(tag, num, str, sub, size) ==
  [tag |-> tag, num |-> num, str |-> str, sub |-> sub, size |-> 1 + size, whole |-> TRUE]

WriteDouble(tag, x)      == Item(tag, <<x>>, "", <<>>, 8)
WriteVarint(tag, n)      == Item(tag, <<n>>, "", <<>>, VarintSize(n))
WriteString(tag, s)      == Item(tag, <<>>, s, <<>>, StringSize(s))
WriteSub(tag, items) == Item(tag, <<>>, "", items, LengthDelimitedSize(Bytes(items)))

If(condition, item) == IF condition THEN <<item>> ELSE <<>>

PackedBytes(xs, Size(_)) == Sum(Size, xs)

WritePacked(tag, xs, Size(_)) ==
  If(xs # <<>>, Item(tag, xs, "", <<>>, LengthDelimitedSize(PackedBytes(xs, Size))))

WriteStrings(tag, ss) == [i \in DOMAIN ss |-> WriteString(tag, ss[i])]

(* Maps are written in whatever order their hash table has: two of them.   *)
Orders == {"forth", "back"}

Ordered(S, order) == IF order = "forth" THEN SetToSeq(S) ELSE Reverse(SetToSeq(S))

WriteMap(tag, map, order, Value(_)) ==
  LET keys == Ordered(DOMAIN map, order)
  IN  [i \in DOMAIN keys |->
         WriteSub(tag, <<WriteString(10, keys[i]), Value(map[keys[i]])>>)]

EightBytes(x) == 8

SizeIf(condition, size) == IF condition THEN 1 + size ELSE 0

SizePacked(xs, Size(_)) == SizeIf(xs # <<>>, LengthDelimitedSize(PackedBytes(xs, Size)))

SizeStrings(ss) == Sum(LAMBDA s : 1 + StringSize(s), ss)

SizeMap(map, Size(_)) ==
  MapThenSumSet(LAMBDA k : 1 + LengthDelimitedSize(1 + StringSize(k) + 1 + Size(map[k])),
                DOMAIN map)
------------------------------------------------------------------------------
(* Reading.  A parser gives the message as far as it got, and whether it   *)
(* got to the end.                                                         *)
Parsed(m, ok) == [msg |-> m, ok |-> ok]

(* A zero tag or the end of a group, neither of which anybody writes, ends *)
(* the message before its bytes end, which is a failure too.               *)
EndsMessage(it) == it.tag = 0 \/ it.tag % 8 = 4

(* Step(m, it) is one turn of a class's loop. *)
ParseItems(Step(_, _), m, items) ==
  FoldLeft(LAMBDA r, it : IF ~r.ok THEN r
                          ELSE IF EndsMessage(it) THEN Parsed(r.msg, FALSE)
                          ELSE Step(r.msg, it),
           Parsed(m, TRUE), items)

SetNumber(m, f, it) == Parsed([m EXCEPT ![f] = it.num[1]], it.whole)

AddNumbers(m, f, it) == Parsed([m EXCEPT ![f] = @ \o it.num], it.whole)

SetString(m, f, it) == Parsed([m EXCEPT ![f] = it.str], it.whole /\ it.str \notin NotUtf8)

AddString(m, f, it) == Parsed([m EXCEPT ![f] = Append(@, it.str)], it.whole /\ it.str \notin NotUtf8)

Mutable(field, new) == IF field = <<>> THEN new ELSE field[1]

SetMessage(m, f, new, Step(_, _), it) ==
  LET r == ParseItems(Step, Mutable(m[f], new), it.sub)
  IN  Parsed([m EXCEPT ![f] = <<r.msg>>], r.ok /\ it.whole)

AddMessage(m, f, new, Step(_, _), it) ==
  LET r == ParseItems(Step, new, it.sub)
  IN  Parsed([m EXCEPT ![f] = Append(@, r.msg)], r.ok /\ it.whole)

(* Mutant: a value that cannot be read stays in the map. *)
EntryKept(m, f, r, whole) ==
  Parsed([m EXCEPT ![f] = With(@, r.msg.key, r.msg.value)], r.ok /\ whole)

(* An entry is in the map as soon as its parts could be read, with the      *)
(* default for a part that is not there, also when the bytes end before    *)
(* the entry does.  A message that cannot be read takes its entry with it; *)
(* a number that is cut short does not.                                    *)
Entry(m, f, r, whole) ==
  Parsed(IF r.ok THEN [m EXCEPT ![f] = With(@, r.msg.key, r.msg.value)] ELSE m, r.ok /\ whole)

ParseEntry(m, f, new, Value(_, _), it) ==
  LET r == ParseItems(LAMBDA e, x : IF x.tag = 10 THEN SetString(e, "key", x) ELSE Value(e, x),
                      [key |-> "", value |-> new], it.sub)
  IN  Entry(m, f, r, it.whole)

NumberValue(e, x) ==
  IF x.tag = 16 THEN Parsed([e EXCEPT !.value = x.num[1]], TRUE) ELSE Parsed(e, x.whole)

MessageValue(Step(_, _), e, x) ==
  IF x.tag = 18 THEN LET r == ParseItems(Step, e.value, x.sub)
                     IN  Parsed([e EXCEPT !.value = r.msg], r.ok /\ x.whole)
  ELSE Parsed(e, x.whole)

Unknown(m, it) == IF it.whole THEN Parsed([m EXCEPT !.unknown = Append(@, it)], TRUE)
                  ELSE Parsed(m, FALSE)
------------------------------------------------------------------------------
(* Merging. *)
MergeNumber(to, from) == IF from # 0 THEN from ELSE to

MergeMap(to, from) ==
  [k \in DOMAIN from \cup DOMAIN to |-> IF k \in DOMAIN from THEN from[k] ELSE to[k]]

MergeSub(to, from, new, Merge(_, _)) ==
  IF from = <<>> THEN to ELSE <<Merge(Mutable(to, new), from[1])>>
------------------------------------------------------------------------------
(* What one call of a field's accessors makes of a message. *)
SetTo(m, f, values) == {[m EXCEPT ![f] = x] : x \in values}

Add(m, f, values) == {[m EXCEPT ![f] = Append(@, x)] : x \in values}

(* Assignment to mutable_f()[key]. *)
SetEntry(m, f, values) == {[m EXCEPT ![f] = With(@, k, x)] : k \in Text, x \in values}

(* mutable_f() or mutable_f()[key], and perhaps a call on what it gives. *)
EditMessage(m, f, new, Edits(_)) ==
  LET x == Mutable(m[f], new) IN {[m EXCEPT ![f] = <<y>>] : y \in {x} \cup Edits(x)}

EditEntry(m, f, new, Edits(_)) ==
  UNION {LET x == IF k \in DOMAIN m[f] THEN m[f][k] ELSE new
         IN  {[m EXCEPT ![f] = With(@, k, y)] : y \in {x} \cup Edits(x)} : k \in Text}
------------------------------------------------------------------------------
(* Bytes that end too soon: behind an item, or inside one.  What is then   *)
(* read of a number is whatever the parser's buffer holds behind the end,  *)
(* and of a string some other string, for which "" stands.  Two levels are *)
(* enough: an item inside an entry's value takes the value with it.        *)
Prefixes0(s) == {SubSeq(s, 1, n) : n \in 0..(Len(s) - 1)}

Cut(it, num, sub) ==
  [tag |-> it.tag, num |-> num, str |-> "", sub |-> sub, size |-> it.size, whole |-> FALSE]

CutShort(it, subs, garbage) ==
  LET nums == IF it.tag % 8 \in {0, 1} THEN {<<g>> : g \in garbage} ELSE {<<>>}
  IN  {Cut(it, num, sub) : num \in nums, sub \in subs}

CutBetween(items, Inside(_)) ==
  Prefixes0(items) \cup
  UNION {{Append(SubSeq(items, 1, n - 1), cut) : cut \in Inside(items[n])} : n \in DOMAIN items}

CutInside(items, garbage) ==
  CutBetween(items, LAMBDA it : CutShort(it, {<<>>} \cup Prefixes0(it.sub), garbage))

Cuts(items, garbage) ==
  CutBetween(items, LAMBDA it : CutShort(it, {<<>>} \cup CutInside(it.sub, garbage), garbage))

(* Bytes with zeros behind them. *)
Padded(items) == Append(items, Item(0, <<>>, "", <<>>, 0))
==============================================================================

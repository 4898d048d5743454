------------------------------- MODULE LuaBytes -------------------------------
(***************************************************************************)
(* The bytes and asn1 libraries of Lua (lua_bytes.c, lua_asn1.c) over the  *)
(* buffers of Bytestring: a script makes byte strings, changes them in     *)
(* place, and derives new ones from them.                                  *)
(*                                                                         *)
(* Every variable has a string of its own or none: that two variables may  *)
(* name one string adds nothing to what a call does to it.                 *)
(***************************************************************************)
EXTENDS Bytestring, Asn1, BytePromise

CONSTANTS
  Vars,         \* the variables of a script
  Nil,
  Texts,        \* texts given where a string is expected: digits and others
  Elements,     \* numbers given where an element is expected
  Blocks,       \* block lengths to pad to
  Tags,         \* tag numbers
  MaxLen,       \* bound on the length of a string, unless it was padded
  MaxCalls      \* bound on the calls of the script

ASSUME BytesAssumption ==
  /\ MaxLen \in Nat /\ MaxCalls \in Nat
  /\ Elements \subseteq 0 .. 255
  /\ Texts \subseteq Seq(Nat)
  /\ Tags \subseteq Signed32
  /\ Blocks \subseteq Nat \ {0}
  /\ Nil \notin Buffers \cup Int

VARIABLES
  held,         \* the string each variable holds
  single,       \* FORCE_SINGLE_BYTE_LENGTH
  calls         \* the calls made so far (auxiliary)

vars == <<held, single, calls>>

Init == held = [v \in Vars |-> Nil] /\ single = FALSE /\ calls = 0

Holders == {v \in Vars : held[v] # Nil}

Gets(v, b) == held' = [held EXCEPT ![v] = b] /\ UNCHANGED single

-------------------------------------------------------------------------------

\* What bytes.new(), bytes.concat() and ".." take: byte strings, whose
\* elements are masked to the width, texts of digits and numbers.
Operands ==
  [kind : {"bytes"}, of : Holders] \cup [kind : {"text"}, of : Texts]
    \cup [kind : {"number"}, of : Elements]

AppendOperand(b, a) ==
  CASE a.kind = "text" -> AppendData(b, Content(AssignDigits(New(b.width), a.of)))
    [] a.kind = "number" -> Pushback(b, a.of)
    [] a.kind = "bytes" -> AppendData(b, Content(held[a.of]))

\* x_bytes_create()
Create(width, operands) ==
  LET made[n \in 0 .. Len(operands)] ==
        IF n = 0 THEN New(width) ELSE AppendOperand(made[n - 1], operands[n])
  IN  made[Len(operands)]

OperandLists == UNION {[1 .. n -> Operands] : n \in 0 .. 2}

\* A text alone may be given at any length, as bytes.
IsText(width, operands) == width = 8 /\ Len(operands) = 1 /\ operands[1].kind = "text"

\* bytes.new()
NewBytes(v, width, operands) ==
  /\ IsText(width, operands) \/ Create(width, operands).len <= MaxLen
  /\ Gets(v, Create(width, operands))

\* bytes.concat() and "..": the width of the first byte string among the
\* operands, or 8.
Concat(v, operands) ==
  LET strings == {i \in DOMAIN operands : operands[i].kind = "bytes"}
      width == IF strings = {} THEN 8 ELSE held[operands[FirstOf(strings)].of].width
  IN  /\ operands # <<>>
      /\ Create(width, operands).len <= MaxLen
      /\ Gets(v, Create(width, operands))

\* Mistake: an element is never added.
PutElementInside(b, i, x) == SetElement(b, i, x)

\* bytes.set(): elements are written one by one, at the end they are added,
\* and behind the end the call is an error.  A negative index writes nothing.
PutElement(b, i, x) ==
  IF i < b.len THEN SetElement(b, i, x) ELSE IF i = b.len THEN Pushback(b, x) ELSE b

Put(b, i, elems) ==
  LET after[n \in 0 .. Len(elems)] ==
        IF n = 0 THEN b ELSE PutElement(after[n - 1], i + n - 1, elems[n])
  IN  IF i < 0 THEN b ELSE after[Len(elems)]

Set(v, i, elems) ==
  /\ held[v].len <= MaxLen
  /\ i + Len(elems) <= MaxLen
  /\ Gets(v, Put(held[v], i, elems))

\* bytes.get(), from i, or from the start if i is Nil, to j, or i alone if j is
\* Nil.  When there is a j, i is read again in its place (and may not be Nil).
\* One index alone gives an element behind the end, which is 0.
Get(b, i, j) ==
  LET from == IF i = Nil \/ i < 0 THEN 0 ELSE i
      last == IF j = Nil THEN from ELSE IF i >= b.len THEN b.len - 1 ELSE i
  IN  IF last < from THEN <<Nil>>
      ELSE [k \in 1 .. last - from + 1 |-> GetElement(b, from + k - 1)]

\* bytes.ipairs(): what the loop gives as long as there is one more element.
Pairs(b) ==
  LET given[k \in 0 .. b.len] ==
        IF k = 0 THEN <<>> ELSE Append(given[k - 1], <<k - 1, GetElement(b, k - 1)>>)
  IN  given[b.len]

\* bytes.pad_left(), pad_right(), reverse() and clone().  It is a
\* single element that is padded to a long string (a block of 0 divides by 0).
Pads(v, u, block, x) ==
  /\ block <= MaxLen \/ held[u].len = 1
  /\ \/ Gets(v, PadLeft(Duplicate(held[u]), block, x))
     \/ Gets(v, PadRight(Duplicate(held[u]), block, x))

Reverses(v, u) == Gets(v, Invert(Duplicate(held[u])))
Clones(v, u) == Gets(v, Duplicate(held[u]))

\* Mistake: the last element is left out, as in a loop to "less than".
SubOpen(b, start, end) ==
  LET from == IF start < 0 THEN b.len + start ELSE start
      to == IF end < 0 THEN b.len + end ELSE end
  IN  IF from > to \/ from < 0 \/ from > b.len THEN Nil ELSE Substr(from, to - from, b)

\* bytes.sub(): an index that is still negative, as an unsigned integer, is
\* past the end of every string.
Sub(b, start, end) ==
  LET from == IF start < 0 THEN b.len + start ELSE start
      to == IF end < 0 THEN b.len + end ELSE end
  IN  IF from > to \/ from < 0 \/ from > b.len THEN Nil ELSE Substr(from, to - from + 1, b)

Subs(v, u, start, end) == Gets(v, Sub(held[u], start, end))

Converts(v, u, width) ==
  /\ held[u].len * held[u].width <= MaxLen * width
  /\ Gets(v, Convert(held[u], width))

\* asn1.join(), with a value of any width, and with or without a tail.
JoinBytes(tag, value, tail) ==
  AppendData(AppendData(New(8), EncodeTag(tag) \o EncodeLength(Len(value))), value \o tail)

Joins(v, u, tag, tail) ==
  /\ held[u].len + Len(tail) <= MaxLen \/ tail = <<>>
  /\ Gets(v, JoinBytes(tag, Content(held[u]), tail))

Tails == {<<>>} \cup {Content(held[u]) : u \in Holders}

\* asn1.split() gives nil for each result when it fails, and a nil tail when
\* nothing is left.  The script keeps the value or the tail.
AsBytes(s) == AssignData(New(8), s)
AsTail(s) == IF s = <<>> THEN Nil ELSE AsBytes(s)

Splits(v, u) ==
  LET parts == Split(Content(held[u]), single)
  IN  IF held[u].width = 8 /\ parts.ok
        THEN Gets(v, AsBytes(parts.value)) \/ Gets(v, AsTail(parts.tail))
        ELSE Gets(v, Nil)

\* asn1.split_tag() and asn1.split_length(): the tail is the only string.
SplitsFront(t, u) ==
  \E parts \in {SplitTag(Content(held[u])), SplitLength(Content(held[u]), single)} :
    Gets(t, IF held[u].width = 8 /\ parts.ok THEN AsTail(parts.tail) ELSE Nil)

EnablesSingle(enable) == single' = enable /\ UNCHANGED held

Indexes == -(MaxLen + 1) .. MaxLen + 1

Call ==
  \/ \E v \in Vars, ops \in OperandLists :
       \/ \E w \in Widths : NewBytes(v, w, ops)
       \/ Concat(v, ops)
  \/ \E v \in Holders, i \in Indexes, x, y \in Elements :
       Set(v, i, <<x>>) \/ Set(v, i, <<x, y>>)
  \/ \E v \in Vars, u \in Holders :
       \/ \E n \in Blocks, x \in Elements : Pads(v, u, n, x)
       \/ Reverses(v, u)
       \/ Clones(v, u)
       \/ \E i, j \in Indexes : Subs(v, u, i, j)
       \/ \E w \in Widths : Converts(v, u, w)
       \/ \E tag \in Tags, tail \in Tails : Joins(v, u, tag, tail)
       \/ Splits(v, u)
       \/ SplitsFront(v, u)
  \/ \E enable \in BOOLEAN : EnablesSingle(enable)

Next == calls < MaxCalls /\ calls' = calls + 1 /\ Call

Spec == Init /\ [][Next]_vars

-------------------------------------------------------------------------------

IsBytestring(b) ==
  /\ b.width \in Widths
  /\ b.len <= Len(b.data)
  /\ \A i \in 1 .. b.len : b.data[i] \in 0 .. (2 ^ b.width) - 1

\* Every string has as many elements as its length says, and each is a number
\* of its width: no byte that nobody wrote is ever part of a string.
BytesTypeOK ==
  /\ held \in [Vars -> Buffers \cup {Nil}]
  /\ single \in BOOLEAN
  /\ calls \in 0 .. MaxCalls
  /\ \A v \in Holders : IsBytestring(held[v])

PadsAsPromised(b) ==
  \A n \in Blocks, x \in Elements :
    LET fill == Filler(Content(b), n, x, b.width)
    IN  /\ Content(PadLeft(Duplicate(b), n, x)) = fill \o Content(b)
        /\ Content(PadRight(Duplicate(b), n, x)) = Content(b) \o fill

PutsAsPromised(b) ==
  \A i \in 0 .. b.len, x, y \in Elements :
    Content(Put(b, i, <<x, y>>)) = Replaced(Content(b), i, <<x, y>>, b.width)

TakesAsPromised(b) ==
  \A i, j \in Indexes :
    LET part == Sub(b, i, j)
    IN  (IF part = Nil THEN Nil ELSE Content(part)) = Between(Content(b), i, j, Nil)

\* An element that there is can be read, in turn, by its index, and as the first
\* of a range; equal are strings of the same width and elements, however long
\* their buffers.
ReadsAsPromised(b) ==
  /\ Pairs(b) = [k \in 1 .. b.len |-> <<k - 1, Content(b)[k]>>]
  /\ \A i \in 0 .. b.len - 1 :
       /\ Get(b, i, Nil) = <<Content(b)[i + 1]>>
       /\ \A j \in i .. b.len - 1 : Head(Get(b, i, j)) = Content(b)[i + 1]
  /\ \A v \in Holders :
       IsEqual(b, held[v]) <=> b.width = held[v].width /\ Content(b) = Content(held[v])

\* Whatever a script did to a string before, with whatever lies in the buffer
\* behind its end: padding, reversing, cutting, replacing and reading it gives
\* the elements that are promised of its own elements.
CallsKeepPromises ==
  \A v \in Holders :
    LET b == held[v]
    IN  /\ Content(Invert(Duplicate(b))) = Reversed(Content(b))
        /\ PadsAsPromised(b)
        /\ PutsAsPromised(b)
        /\ TakesAsPromised(b)
        /\ ReadsAsPromised(b)

\* A number of more than 53 bits the script may be given rounded.
KeepsNumber(b) ==
  LET n == NumberOf(Content(b), b.width)
  IN  /\ \A w \in Widths :
           (b.len * b.width) % w = 0 => Content(Convert(b, w)) = Converted(Content(b), b.width, w)
      /\ b.len * b.width <= 53 => ToNumber(b) = n
      /\ b.len > 0 => Format("I", b) = InDecimal(n, 3 * b.len)

\* TLC counts with 32 bits.
IsSmall(b) == b.len * b.width <= 24

\* A conversion to a width that the bits of a string can be divided in keeps the
\* number it stands for and loses none of its elements; that number is the one a
\* script is given, and "%I" writes it, exactly.
NumbersAreKept == \A v \in Holders : IsSmall(held[v]) => KeepsNumber(held[v])

\* The text of a string, as it is kept in the card tree, is read back as that
\* string, and so are its digits alone; and what bytes.is_printable() says is
\* printable, "%P" prints as it is.
TextsAreExact ==
  \A v \in Holders :
    LET b == held[v]
    IN  /\ IsEqual(NewFromString(Format("S", b), Nil), b)
        /\ Content(AssignDigits(New(b.width), Format("D", b))) = Content(b)
        /\ IsPrintable(b) <=> b.len > 0 /\ Format("P", b) = Format("C", b)

\* What asn1.join() puts together asn1.split() takes apart, for tags in their
\* shortest form and values below 2^31 bytes that are not 128 bytes long.
JoinInvertsSplit ==
  \A tag \in Tags, v \in Holders, tail \in Tails :
    ProperTag(tag) /\ held[v].len \in Length32 \ {128}
      => SplitsBack(tag, Content(held[v]), tail)

\* The length that stands behind the tag is below 2^31.
LengthIsShort(s) ==
  LET l == DecodeLength(s, DecodeTag(s, 0).pos, single) IN l.ok => l.len >= 0

\* A split takes a tag and a length off a string, and the value and the tail
\* are what follows: a loop that splits the tail again comes to an end.
SplitAdvances ==
  \A v \in Holders :
    LET s == Content(held[v])
        parts == Split(s, single)
    IN  parts.ok /\ LengthIsShort(s) =>
          /\ Len(parts.value) + Len(parts.tail) \in 0 .. Len(s) - 2
          /\ parts.value \o parts.tail
               = SubSeq(s, Len(s) - Len(parts.value \o parts.tail) + 1, Len(s))
===============================================================================

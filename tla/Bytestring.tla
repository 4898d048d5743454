------------------------------ MODULE Bytestring ------------------------------
(***************************************************************************)
(* The byte strings of bytestring.c as they lie in memory: a length, and   *)
(* an allocated buffer that may be longer, whose bytes behind the length   *)
(* are what the allocator or an earlier use left there.  An element has    *)
(* the width of its string: 8, 4 or 1 bits.                                *)
(*                                                                         *)
(* Positions count from 0, as in the code; an allocation never fails.      *)
(***************************************************************************)
EXTENDS Integers, Sequences, SequencesExt

CONSTANTS
  MinAlloc,     \* the size of the first allocation of a short string: 8
  Stale         \* a byte of a buffer that was not written

ASSUME AllocAssumption == MinAlloc \in Nat \ {0}

Widths == {1, 4, 8}
Mask(width, x) == x % (2 ^ width)

\* A byte of a buffer, and a byte string as it lies in memory.
Cells == (0 .. 255) \cup {Stale}
Buffers == [width : Widths, len : Nat, data : Seq(Cells)]

\* bytestring_new()
New(width) == [width |-> width, len |-> 0, data |-> <<>>]

Content(b) == SubSeq(b.data, 1, b.len)

\* data with s copied to it from position pos on, as far as the buffer goes.
Written(data, pos, s) ==
  [i \in DOMAIN data |-> IF i - pos \in DOMAIN s THEN s[i - pos] ELSE data[i]]

Masked(width, s) == [i \in DOMAIN s |-> Mask(width, s[i])]
Repeated(x, n) == [i \in 1 .. n |-> x]

-------------------------------------------------------------------------------

\* The buffer is doubled until it is long enough.
Doubled(alloc, len) ==
  LET size[a \in Nat \ {0}] == IF a >= len THEN a ELSE size[2 * a]
  IN  size[alloc]

Capacity(alloc, len) ==
  IF alloc > 0 THEN Doubled(alloc, len)
  ELSE IF len < MinAlloc THEN MinAlloc ELSE len

Resize(b, len) ==
  [b EXCEPT !.len = len,
            !.data = IF len <= Len(@) THEN @
                     ELSE @ \o Repeated(Stale, Capacity(Len(@), len) - Len(@))]

AssignData(b, s) ==
  LET r == Resize(b, Len(s))
  IN  [r EXCEPT !.data = Written(@, 0, Masked(b.width, s))]

AppendData(b, s) ==
  LET r == Resize(b, b.len + Len(s))
  IN  [r EXCEPT !.data = Written(@, b.len, Masked(b.width, s))]

Pushback(b, x) == AppendData(b, <<x>>)

Duplicate(b) == AssignData(New(b.width), Content(b))

\* Mistake: the length to be moved is that of the string after the insertion,
\* so the move starts n elements too early in the source.
InsertElementShifted(b, pos, n, x) ==
  LET r == Resize(b, b.len + n)
      moved == Written(r.data, pos + n, SubSeq(r.data, pos + 1 + n, r.len))
  IN  IF pos >= b.len THEN AppendData(b, Repeated(x, n))
      ELSE [r EXCEPT !.data = Written(moved, pos, Masked(b.width, Repeated(x, n)))]

\* What stood behind pos is moved first, then the gap is filled.
InsertElement(b, pos, n, x) ==
  LET r == Resize(b, b.len + n)
      moved == Written(r.data, pos + n, SubSeq(b.data, pos + 1, b.len))
  IN  IF pos >= b.len THEN AppendData(b, Repeated(x, n))
      ELSE [r EXCEPT !.data = Written(moved, pos, Masked(b.width, Repeated(x, n)))]

Padding(b, block) == block - (b.len % block)

PadLeft(b, block, x) ==
  IF Padding(b, block) = block THEN b ELSE InsertElement(b, 0, Padding(b, block), x)

PadRight(b, block, x) ==
  IF Padding(b, block) = block THEN b ELSE AppendData(b, Repeated(x, Padding(b, block)))

SetElement(b, pos, x) ==
  IF pos \in 0 .. b.len - 1
    THEN [b EXCEPT !.data = Written(@, pos, <<Mask(b.width, x)>>)]
    ELSE b

\* bytestring_get_element(): where there is no element, 0.
GetElement(b, pos) ==
  LET at == IF pos < 0 THEN b.len + pos ELSE pos
  IN  IF at \in 0 .. b.len - 1 THEN b.data[at + 1] ELSE 0

IsEqual(a, b) ==
  /\ a.width = b.width
  /\ a.len = b.len
  /\ \A i \in 1 .. a.len : a.data[i] = b.data[i]

IsPrint(x) == x \in 32 .. 126
IsPrintable(b) == b.len > 0 /\ \A i \in 1 .. b.len : IsPrint(b.data[i])

\* Elements are exchanged in pairs, from the ends to the middle.
Invert(b) ==
  LET half == b.len \div 2
      mirror(i) == b.len + 1 - i
  IN  [b EXCEPT !.data = [i \in DOMAIN @ |->
         IF i \in 1 .. half \/ (i <= b.len /\ mirror(i) <= half) THEN @[mirror(i)] ELSE @[i]]]

\* No element: the position is past the end.  Else len elements from pos on,
\* or as many as there are.
Substr(pos, len, b) ==
  LET taken == IF pos + len > b.len THEN b.len - pos ELSE len
  IN  AssignData(New(b.width), SubSeq(b.data, pos + 1, pos + taken))

-------------------------------------------------------------------------------

\* The character of an ASCII code: a digit is its value, 0 to 15, and the codes
\* of other characters follow.
Character(code) ==
  IF code \in 48 .. 57 THEN code - 48 ELSE IF code \in 65 .. 70 THEN code - 55 ELSE 16 + code

IsDigit(c) == c \in 0 .. 15
Colon == Character(58)
Percent == Character(37)
Backslash == Character(92)

\* The characters of a string that are not digits are passed over.  Two
\* digits make a byte, an odd one at the end is its upper half.
DigitsOf(str) ==
  LET digits[n \in 0 .. Len(str)] ==
        IF n = 0 THEN <<>>
        ELSE IF IsDigit(str[n]) THEN Append(digits[n - 1], str[n]) ELSE digits[n - 1]
  IN  digits[Len(str)]

AssignDigits(b, str) ==
  LET d == DigitsOf(str)
      low(k) == IF 2 * k <= Len(d) THEN d[2 * k] ELSE 0
      bytes == [k \in 1 .. (Len(d) + 1) \div 2 |-> d[2 * k - 1] * 16 + low(k)]
  IN  AppendData([b EXCEPT !.len = 0], IF b.width = 8 THEN bytes ELSE d)

\* Mistake: an element of 4 bits is written as two digits as well.
FormatDigitsWide(b) ==
  [k \in 1 .. 2 * b.len |-> IF k % 2 = 1 THEN b.data[(k + 1) \div 2] \div 16 ELSE b.data[k \div 2] % 16]

\* The digits of "%D" and, after the width and a colon, of "%S".
FormatDigits(b) ==
  IF b.width = 8
    THEN [k \in 1 .. 2 * b.len |->
            IF k % 2 = 1 THEN b.data[(k + 1) \div 2] \div 16 ELSE b.data[k \div 2] % 16]
    ELSE Content(b)

\* A decimal number under construction, its last digit first: r is added at
\* digit i, and what a digit is in excess of 9 goes to the next.
AddFrom(d, i, r) ==
  LET digit(k) == IF k < Len(d) THEN d[k + 1] ELSE 0
      carry[k \in 0 .. Len(d) + 4] ==
        IF k <= i THEN IF k = i THEN r ELSE 0
        ELSE LET c == carry[k - 1] IN IF c = 0 THEN 0 ELSE (c + digit(k - 1)) \div 10
      carried == {k \in 0 .. Len(d) + 3 : carry[k] > 0}
      size == CHOOSE n \in Len(d) .. Len(d) + 4 :
                /\ \A k \in carried : k < n
                /\ n = Len(d) \/ n - 1 \in carried
  IN  SubSeq([k \in 1 .. Len(d) + 4 |-> (digit(k - 1) + carry[k - 1]) % 10], 1, size)

\* Mistake: the digits are multiplied from the last on, and what is carried
\* is multiplied with the digit it was added to.
MulAddUpward(d, mul, add) ==
  LET after[n \in 0 .. Len(d)] ==
        IF n = 0 THEN d
        ELSE LET before == after[n - 1]
                 product == before[n] * mul
             IN  AddFrom([before EXCEPT ![n] = product % 10], n, product \div 10)
  IN  AddFrom(after[Len(d)], 0, add)

\* The digits are multiplied from the first, the last in the list, on, so
\* that what is carried meets digits that were multiplied already.
MulAdd(d, mul, add) ==
  LET after[n \in 0 .. Len(d)] ==
        IF n = 0 THEN d
        ELSE LET before == after[n - 1]
                 k == Len(d) - n + 1
                 product == before[k] * mul
             IN  AddFrom([before EXCEPT ![k] = product % 10], k, product \div 10)
  IN  AddFrom(after[Len(d)], 0, add)

\* The digits of "%I": none for an empty string.
FormatInteger(b) ==
  LET digits[n \in 0 .. b.len] ==
        IF n = 0 THEN <<0>> ELSE MulAdd(digits[n - 1], 2 ^ b.width, b.data[n])
      d == digits[b.len]
  IN  IF b.len = 0 THEN <<>> ELSE [i \in 1 .. Len(d) |-> d[Len(d) + 1 - i]]

\* The unsigned number that elements of some width are the digits of.
Number(s, width) ==
  LET sum[k \in 0 .. Len(s)] == IF k = 0 THEN 0 ELSE sum[k - 1] * (2 ^ width) + s[k]
  IN  sum[Len(s)]

\* The digits of an element in the base 8, after a backslash.
Octal(x) == <<Backslash, x \div 64, (x \div 8) % 8, x % 8>>

\* "%P": a backslash that is an element is not escaped.
FormatPrintable(b) ==
  FlattenSeq([i \in 1 .. b.len |->
    IF IsPrint(b.data[i]) THEN <<Character(b.data[i])>> ELSE Octal(b.data[i])])

\* "%C": the elements as characters, up to the first 0.
FormatChars(b) ==
  LET ends == SelectInSubSeq(b.data, 1, b.len, LAMBDA x : x = 0)
      chars == SubSeq(b.data, 1, IF ends = 0 THEN b.len ELSE ends - 1)
  IN  [i \in DOMAIN chars |-> Character(chars[i])]

Decimal[n \in Nat] == IF n < 10 THEN <<n>> ELSE Append(Decimal[n \div 10], n % 10)

\* bytestring_to_format(), for the letter after a percent sign.
Format(letter, b) ==
  CASE letter = "%" -> <<Percent>>
    [] letter = "I" -> FormatInteger(b)
    [] letter = "D" -> FormatDigits(b)
    [] letter = "S" -> <<b.width, Colon>> \o FormatDigits(b)
    [] letter = "w" -> <<b.width>>
    [] letter = "P" -> FormatPrintable(b)
    [] letter = "C" -> FormatChars(b)
    [] letter = "l" -> Decimal[b.len]

\* bytestring_new_from_string() reads what "%S" writes; Nothing is NULL.
NewFromString(str, Nothing) ==
  IF Len(str) >= 2 /\ str[1] \in Widths /\ str[2] = Colon
    THEN AssignDigits(New(str[1]), SubSeq(str, 3, Len(str)))
    ELSE Nothing

\* bytestring_to_number(), as long as a floating-point number is exact.
ToNumber(b) ==
  LET sum[k \in 0 .. b.len] == IF k = 0 THEN 0 ELSE sum[k - 1] * (2 ^ b.width) + b.data[k]
  IN  sum[b.len]

\* An element is cut into parts, the most significant first.
Cut(s, parts, width) ==
  [k \in 1 .. parts * Len(s) |->
     (s[(k - 1) \div parts + 1] \div (2 ^ (width * (parts - 1 - ((k - 1) % parts))))) % (2 ^ width)]

\* Mistake: the elements in excess make up the last group.
GroupFromLeft(s, size, width) ==
  [k \in 1 .. (Len(s) + size - 1) \div size |->
     Number(SubSeq(s, (k - 1) * size + 1, IF k * size < Len(s) THEN k * size ELSE Len(s)), width)]

\* Elements are put together in groups; the elements in excess of a multiple
\* of the group make up the first.
Group(s, size, width) ==
  LET first == Len(s) % size
      groups == (Len(s) + size - 1) \div size
      upTo(k) == IF first = 0 THEN k * size ELSE first + (k - 1) * size
      from(k) == IF upTo(k) <= size THEN 1 ELSE upTo(k) - size + 1
  IN  [k \in 1 .. groups |-> Number(SubSeq(s, from(k), upTo(k)), width)]

Convert(b, width) ==
  LET s == Content(b)
  IN  AssignData(New(width),
        IF width < b.width THEN Cut(s, b.width \div width, width)
        ELSE IF width > b.width THEN Group(s, width \div b.width, b.width)
        ELSE s)
===============================================================================

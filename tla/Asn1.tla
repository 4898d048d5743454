--------------------------------- MODULE Asn1 ---------------------------------
(***************************************************************************)
(* The tag-length-value codec of asn1.c, as asn1.split() and asn1.join()   *)
(* of lua_asn1.c use it: strings are sequences of bytes, a position counts *)
(* the bytes in front of it, as in the code, and a decoder returns the     *)
(* position behind what it read, or Failed.                                *)
(*                                                                         *)
(* Tags, lengths and positions are 32-bit unsigned integers of the code.   *)
(* A number here is the signed integer with the same bits: those from      *)
(* 2^31 on are negative.                                                   *)
(***************************************************************************)
EXTENDS Integers, Sequences

Byte == 0 .. 255
Signed32 == {n \in Int : -2147483647 - 1 <= n /\ n <= 2147483647}
Length32 == {n \in Signed32 : n >= 0}

Failed == [ok |-> FALSE]

\* The byte of n that stands for 256^k, and the integer that up to four
\* bytes, or the last four of more, are the representation of.
ByteAt(n, weight) == (n \div weight) % 256

FromEnd(s, k) == IF k < Len(s) THEN s[Len(s) - k] ELSE 0

Word(s) ==
  (IF FromEnd(s, 3) > 127 THEN FromEnd(s, 3) - 256 ELSE FromEnd(s, 3)) * 16777216
    + FromEnd(s, 2) * 65536 + FromEnd(s, 1) * 256 + FromEnd(s, 0)

-------------------------------------------------------------------------------

\* A tag whose first byte ends in five ones goes on, to the first byte that
\* is not above 80h.  The byte that follows the first is read even when the
\* string has ended: it is then 0, and the position is one too far.
TagEnds(s, pos) == {i \in pos + 2 .. Len(s) : s[i] <= 128}
FirstOf(S) == CHOOSE i \in S : \A j \in S : i <= j

DecodeTag(s, pos) ==
  IF Len(s) < pos + 1 THEN Failed
  ELSE IF s[pos + 1] % 32 # 31 THEN [ok |-> TRUE, tag |-> s[pos + 1], pos |-> pos + 1]
  ELSE IF Len(s) = pos + 1 THEN [ok |-> TRUE, tag |-> 256 * s[pos + 1], pos |-> pos + 2]
  ELSE IF TagEnds(s, pos) = {} THEN Failed
  ELSE LET last == FirstOf(TagEnds(s, pos))
       IN  [ok |-> TRUE, tag |-> Word(SubSeq(s, pos + 1, last)), pos |-> last]

\* single: FORCE_SINGLE_BYTE_LENGTH, set by asn1.enable_single_byte_length().
DecodeLength(s, pos, single) ==
  LET count == s[pos + 1] - 128
  IN  IF Len(s) < pos + 1 THEN Failed
      ELSE IF s[pos + 1] < 128 \/ single
             THEN [ok |-> TRUE, len |-> s[pos + 1], pos |-> pos + 1]
      ELSE IF Len(s) - pos <= count \/ count > 4 THEN Failed
      ELSE [ok |-> TRUE, len |-> Word(SubSeq(s, pos + 2, pos + 1 + count)),
            pos |-> pos + 1 + count]

\* pos + len > size, where the sum of unsigned integers may wrap around 2^32.
PastEnd(pos, len, size) == IF len < 0 THEN pos + len < 0 ELSE len > size - pos

\* Mistake: the position is left in front of the value.
DecodeValueStays(s, pos, single) ==
  LET l == DecodeLength(s, pos, single)
  IN  IF ~l.ok THEN Failed
      ELSE IF PastEnd(l.pos, l.len, Len(s)) THEN Failed
      ELSE [ok |-> TRUE, value |-> SubSeq(s, l.pos + 1, l.pos + l.len), pos |-> l.pos]

\* bytestring_substr() takes what there is when it is asked for more.
DecodeValue(s, pos, single) ==
  LET l == DecodeLength(s, pos, single)
      taken == IF l.len < 0 THEN Len(s) - l.pos ELSE l.len
  IN  IF ~l.ok THEN Failed
      ELSE IF PastEnd(l.pos, l.len, Len(s)) THEN Failed
      ELSE [ok |-> TRUE, value |-> SubSeq(s, l.pos + 1, l.pos + taken), pos |-> l.pos + l.len]

\* The leading bytes that are zero are left out, all but the last.
EncodeTag(tag) ==
  IF tag < 0 \/ tag > 16777215
    THEN <<ByteAt(tag, 16777216), ByteAt(tag, 65536), ByteAt(tag, 256), ByteAt(tag, 1)>>
  ELSE IF tag > 65535 THEN <<ByteAt(tag, 65536), ByteAt(tag, 256), ByteAt(tag, 1)>>
  ELSE IF tag > 255 THEN <<ByteAt(tag, 256), ByteAt(tag, 1)>>
  ELSE <<ByteAt(tag, 1)>>

\* Mistake: the long form begins one byte too late.
EncodeLengthShort(n) ==
  IF n > 255 THEN <<130, ByteAt(n, 256), ByteAt(n, 1)>> ELSE <<ByteAt(n, 1)>>

\* The length byte 80h is that of the length 128.
EncodeLength(n) ==
  IF n > 16777215 THEN <<132, ByteAt(n, 16777216), ByteAt(n, 65536), ByteAt(n, 256), ByteAt(n, 1)>>
  ELSE IF n > 65535 THEN <<131, ByteAt(n, 65536), ByteAt(n, 256), ByteAt(n, 1)>>
  ELSE IF n > 255 THEN <<130, ByteAt(n, 256), ByteAt(n, 1)>>
  ELSE IF n > 128 THEN <<129, ByteAt(n, 1)>>
  ELSE <<ByteAt(n, 1)>>

-------------------------------------------------------------------------------

\* asn1.split(): a tag, its value, and the rest of the string, which is nil
\* (here empty) when nothing is left.
Split(s, single) ==
  LET t == DecodeTag(s, 0)
      v == DecodeValue(s, t.pos, single)
  IN  IF ~t.ok THEN Failed
      ELSE IF ~v.ok THEN Failed
      ELSE [ok |-> TRUE, tag |-> t.tag, value |-> v.value,
            tail |-> SubSeq(s, v.pos + 1, Len(s))]

\* asn1.split_tag() and asn1.split_length().
SplitTag(s) ==
  LET t == DecodeTag(s, 0)
  IN  IF t.ok THEN [ok |-> TRUE, tag |-> t.tag, tail |-> SubSeq(s, t.pos + 1, Len(s))]
      ELSE Failed

SplitLength(s, single) ==
  LET l == DecodeLength(s, 0, single)
  IN  IF l.ok THEN [ok |-> TRUE, len |-> l.len, tail |-> SubSeq(s, l.pos + 1, Len(s))]
      ELSE Failed

\* asn1.join().
Join(tag, value, tail) == EncodeTag(tag) \o EncodeLength(Len(value)) \o value \o tail

-------------------------------------------------------------------------------

\* The tags whose bytes are read as one tag.
ProperTag(tag) ==
  LET d == DecodeTag(EncodeTag(tag), 0)
  IN  d.ok /\ d.pos = Len(EncodeTag(tag))

\* What was put together is taken apart again.
SplitsBack(tag, value, tail) ==
  Split(Join(tag, value, tail), FALSE)
    = [ok |-> TRUE, tag |-> tag, value |-> value, tail |-> tail]
===============================================================================

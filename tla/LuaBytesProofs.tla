---------------------------- MODULE LuaBytesProofs ----------------------------
(***************************************************************************)
(* Whatever a script does, a byte string is the sequence of elements it    *)
(* stands for, wherever its buffer ends and whatever lay in it: Holds      *)
(* relates a buffer to its elements, and one lemma for each operation of   *)
(* Bytestring says what its result holds.  From these follow that every    *)
(* string of a script is well formed (BytesTyped), that the calls give     *)
(* what is promised of them (CallsKeep), and, with the codec of Asn1, that *)
(* asn1.split() is the inverse of asn1.join() (SplitInvertsJoin) and takes *)
(* a string to pieces in order (SplitsAdvance).  The last part is about    *)
(* numbers: conversions, bytestring_to_number() and "%I" keep the number   *)
(* of a string of any length (NumbersOfAnySize).                           *)
(***************************************************************************)
EXTENDS LuaBytes, SequenceTheorems, FiniteSetTheorems, WellFoundedInduction, TLAPS

-------------------------------------------------------------------------------
(***************************************************************************)
(* asn1.split() is the inverse of asn1.join(), for every tag that is read  *)
(* as one, every tail, and every value but those 128 bytes long, whose     *)
(* length is written as the byte 80h and read as a length in no bytes.     *)
(***************************************************************************)
\* A byte of a number is a byte, and the four bytes of a number make it up.
LEMMA ByteAtIsByte ==
  ASSUME NEW n \in Int, NEW w \in {1, 256, 65536, 16777216}
  PROVE  ByteAt(n, w) \in Byte
  BY SMT DEF ByteAt, Byte

\* One digit of a number in the base 256.
LEMMA OneByte ==
  ASSUME NEW n \in Int
  PROVE  n = 256 * (n \div 256) + (n % 256)
  BY SMT

LEMMA Quotients ==
  ASSUME NEW n \in Signed32
  PROVE  /\ n \div 65536 = (n \div 256) \div 256
         /\ n \div 16777216 = (n \div 65536) \div 256
         /\ n \div 16777216 \in -128 .. 127
         /\ n < 0 <=> n \div 16777216 < 0
<1>1. n \in Int /\ n >= -2147483648 /\ n <= 2147483647
  BY SMT DEF Signed32
<1>2. n \div 65536 = (n \div 256) \div 256
  BY <1>1, SMT
<1>3. n \div 16777216 = (n \div 65536) \div 256
  BY <1>1, SMT
<1>4. n \div 16777216 \in -128 .. 127 /\ (n < 0 <=> n \div 16777216 < 0)
  BY <1>1, SMT
<1> QED
  BY <1>2, <1>3, <1>4, SMT

LEMMA FourBytes ==
  ASSUME NEW n \in Signed32
  PROVE  /\ ByteAt(n, 16777216) > 127 <=> n < 0
         /\ n >= 0 => n = ByteAt(n, 16777216) * 16777216 + ByteAt(n, 65536) * 65536
                            + ByteAt(n, 256) * 256 + ByteAt(n, 1)
         /\ n < 0 => n = (ByteAt(n, 16777216) - 256) * 16777216 + ByteAt(n, 65536) * 65536
                            + ByteAt(n, 256) * 256 + ByteAt(n, 1)
<1> DEFINE q1 == n \div 256  q2 == n \div 65536  q3 == n \div 16777216
<1>1. n \in Int /\ q1 \in Int /\ q2 \in Int /\ q3 \in Int
  BY SMT DEF Signed32
<1>2. n = 256 * q1 + ByteAt(n, 1)
  BY <1>1, SMT DEF ByteAt
<1>3. q1 = 256 * q2 + ByteAt(n, 256)
  <2>1. q2 = q1 \div 256
    BY Quotients, SMT
  <2> QED
    BY <2>1, <1>1, SMT DEF ByteAt
<1>4. q2 = 256 * q3 + ByteAt(n, 65536)
  <2>1. q3 = q2 \div 256
    BY Quotients, SMT
  <2> QED
    BY <2>1, <1>1, SMT DEF ByteAt
<1>5. q3 \in -128 .. 127 /\ (n < 0 <=> q3 < 0)
  BY Quotients, SMT
<1>6. ByteAt(n, 16777216) = IF q3 < 0 THEN q3 + 256 ELSE q3
  BY <1>1, <1>5, SMT DEF ByteAt
<1>7. ByteAt(n, 1) \in Int /\ ByteAt(n, 256) \in Int /\ ByteAt(n, 65536) \in Int
  BY <1>1, SMT DEF ByteAt
<1> HIDE DEF q1, q2, q3
<1> QED
  BY <1>1, <1>2, <1>3, <1>4, <1>5, <1>6, <1>7, SMT

-------------------------------------------------------------------------------

\* The number that up to four bytes stand for.
LEMMA WordIs ==
  ASSUME NEW t \in Seq(Byte)
  PROVE  /\ Len(t) = 1 => Word(t) = t[1]
         /\ Len(t) = 2 => Word(t) = t[1] * 256 + t[2]
         /\ Len(t) = 3 => Word(t) = t[1] * 65536 + t[2] * 256 + t[3]
         /\ Len(t) = 4 => Word(t) = (IF t[1] > 127 THEN t[1] - 256 ELSE t[1]) * 16777216
                                       + t[2] * 65536 + t[3] * 256 + t[4]
<1>1. Len(t) \in Nat /\ \A i \in 1 .. Len(t) : t[i] \in Int /\ 0 <= t[i]
  <2>1. Len(t) \in Nat /\ \A i \in 1 .. Len(t) : t[i] \in Byte
    OBVIOUS
  <2>2. \A b \in Byte : b \in Int /\ 0 <= b
    BY SMT DEF Byte
  <2> QED
    BY <2>1, <2>2
<1>2. ASSUME Len(t) = 1 PROVE Word(t) = t[1]
  <2>1. FromEnd(t, 0) = t[1] /\ FromEnd(t, 1) = 0 /\ FromEnd(t, 2) = 0 /\ FromEnd(t, 3) = 0
    BY <1>1, <1>2, SMT DEF FromEnd
  <2> QED
    BY <1>1, <1>2, <2>1, SMT DEF Word
<1>3. ASSUME Len(t) = 2 PROVE Word(t) = t[1] * 256 + t[2]
  <2>1. FromEnd(t, 0) = t[2] /\ FromEnd(t, 1) = t[1] /\ FromEnd(t, 2) = 0 /\ FromEnd(t, 3) = 0
    BY <1>1, <1>3, SMT DEF FromEnd
  <2> QED
    BY <1>1, <1>3, <2>1, SMT DEF Word
<1>4. ASSUME Len(t) = 3 PROVE Word(t) = t[1] * 65536 + t[2] * 256 + t[3]
  <2>1. FromEnd(t, 0) = t[3] /\ FromEnd(t, 1) = t[2] /\ FromEnd(t, 2) = t[1] /\ FromEnd(t, 3) = 0
    BY <1>1, <1>4, SMT DEF FromEnd
  <2> QED
    BY <1>1, <1>4, <2>1, SMT DEF Word
<1>5. ASSUME Len(t) = 4
      PROVE  Word(t) = (IF t[1] > 127 THEN t[1] - 256 ELSE t[1]) * 16777216
                          + t[2] * 65536 + t[3] * 256 + t[4]
  <2>1. FromEnd(t, 0) = t[4] /\ FromEnd(t, 1) = t[3] /\ FromEnd(t, 2) = t[2] /\ FromEnd(t, 3) = t[1]
    BY <1>1, <1>5, SMT DEF FromEnd
  <2> QED
    BY <1>1, <1>5, <2>1, SMT DEF Word
<1> QED
  BY <1>2, <1>3, <1>4, <1>5, SMT

\* The bytes of a tag are those of the number it is.
LEMMA TagIsItsWord ==
  ASSUME NEW tag \in Signed32
  PROVE  /\ EncodeTag(tag) \in Seq(Byte)
         /\ Len(EncodeTag(tag)) \in 1 .. 4
         /\ Word(EncodeTag(tag)) = tag
<1> DEFINE b3 == ByteAt(tag, 16777216)  b2 == ByteAt(tag, 65536)
           b1 == ByteAt(tag, 256)       b0 == ByteAt(tag, 1)
<1>1. tag \in Int
  BY SMT DEF Signed32
<1>2. b3 \in Byte /\ b2 \in Byte /\ b1 \in Byte /\ b0 \in Byte
  BY <1>1, ByteAtIsByte, SMT
<1>3. CASE tag < 0 \/ tag > 16777215
  <2>1. EncodeTag(tag) = <<b3, b2, b1, b0>>
    BY <1>1, <1>3, SMT DEF EncodeTag
  <2>2. tag = (IF b3 > 127 THEN b3 - 256 ELSE b3) * 16777216 + b2 * 65536 + b1 * 256 + b0
    BY <1>1, FourBytes, SMT
  <2> HIDE DEF b3, b2, b1, b0
  <2> DEFINE t == <<b3, b2, b1, b0>>
  <2>3. t \in Seq(Byte) /\ Len(t) = 4 /\ t[1] = b3 /\ t[2] = b2 /\ t[3] = b1 /\ t[4] = b0
    BY <1>2, SMT
  <2> HIDE DEF t
  <2>4. Word(t) = tag
    BY <2>2, <2>3, WordIs, SMT
  <2> QED
    BY <2>1, <2>3, <2>4, SMT DEF t
<1>4. CASE 65536 <= tag /\ tag <= 16777215
  <2>1. EncodeTag(tag) = <<b2, b1, b0>>
    BY <1>1, <1>4, SMT DEF EncodeTag
  <2>2. tag = b2 * 65536 + b1 * 256 + b0
    <3>1. b3 = 0
      BY <1>1, <1>4, SMT DEF ByteAt
    <3> QED
      BY <1>1, <1>2, <1>4, <3>1, FourBytes, SMT DEF Byte
  <2> HIDE DEF b2, b1, b0
  <2> DEFINE t == <<b2, b1, b0>>
  <2>3. t \in Seq(Byte) /\ Len(t) = 3 /\ t[1] = b2 /\ t[2] = b1 /\ t[3] = b0
    BY <1>2, SMT
  <2> HIDE DEF t
  <2>4. Word(t) = tag
    BY <2>2, <2>3, WordIs, SMT
  <2> QED
    BY <2>1, <2>3, <2>4, SMT DEF t
<1>5. CASE 256 <= tag /\ tag <= 65535
  <2>1. EncodeTag(tag) = <<b1, b0>>
    BY <1>1, <1>5, SMT DEF EncodeTag
  <2>2. tag = b1 * 256 + b0
    BY <1>1, <1>5, SMT DEF ByteAt
  <2> HIDE DEF b1, b0
  <2> DEFINE t == <<b1, b0>>
  <2>3. t \in Seq(Byte) /\ Len(t) = 2 /\ t[1] = b1 /\ t[2] = b0
    BY <1>2, SMT
  <2> HIDE DEF t
  <2>4. Word(t) = tag
    BY <2>2, <2>3, WordIs, SMT
  <2> QED
    BY <2>1, <2>3, <2>4, SMT DEF t
<1>6. CASE 0 <= tag /\ tag <= 255
  <2>1. EncodeTag(tag) = <<b0>>
    BY <1>1, <1>6, SMT DEF EncodeTag
  <2>2. tag = b0
    BY <1>1, <1>6, SMT DEF ByteAt
  <2> HIDE DEF b0
  <2> DEFINE t == <<b0>>
  <2>3. t \in Seq(Byte) /\ Len(t) = 1 /\ t[1] = b0
    BY <1>2, SMT
  <2> HIDE DEF t
  <2>4. Word(t) = tag
    BY <2>2, <2>3, WordIs, SMT
  <2> QED
    BY <2>1, <2>3, <2>4, SMT DEF t
<1>7. tag < 0 \/ tag > 16777215 \/ (65536 <= tag /\ tag <= 16777215)
        \/ (256 <= tag /\ tag <= 65535) \/ (0 <= tag /\ tag <= 255)
  BY <1>1, SMT
<1> HIDE DEF b3, b2, b1, b0
<1> QED
  BY <1>3, <1>4, <1>5, <1>6, <1>7, SMT

-------------------------------------------------------------------------------

\* Where the parts of two strings end up.
LEMMA Parts ==
  ASSUME NEW a \in Seq(Byte), NEW b \in Seq(Byte)
  PROVE  /\ a \o b \in Seq(Byte)
         /\ Len(a) \in Nat /\ Len(b) \in Nat /\ Len(a \o b) = Len(a) + Len(b)
         /\ \A i \in 1 .. Len(a) : (a \o b)[i] = a[i]
         /\ \A i \in 1 .. Len(b) : (a \o b)[Len(a) + i] = b[i]
<1>1. /\ a \o b \in Seq(Byte) /\ Len(a \o b) = Len(a) + Len(b)
      /\ \A i \in 1 .. Len(a) + Len(b) :
           (a \o b)[i] = IF i <= Len(a) THEN a[i] ELSE b[i - Len(a)]
  BY ConcatProperties
<1>2. PICK m \in Nat, n \in Nat : m = Len(a) /\ n = Len(b)
  OBVIOUS
<1>3. ASSUME NEW i \in 1 .. m PROVE (a \o b)[i] = a[i]
  <2>1. i \in 1 .. m + n /\ i <= m
    OBVIOUS
  <2> QED
    BY <1>1, <1>2, <2>1
<1>4. ASSUME NEW i \in 1 .. n PROVE (a \o b)[m + i] = b[i]
  <2>1. m + i \in 1 .. m + n /\ ~(m + i <= m) /\ m + i - m = i
    OBVIOUS
  <2> QED
    BY <1>1, <1>2, <2>1
<1> QED
  BY <1>1, <1>2, <1>3, <1>4

\* The middle one of three strings, which may be empty.
LEMMA Middle ==
  ASSUME NEW a \in Seq(Byte), NEW b \in Seq(Byte), NEW c \in Seq(Byte)
  PROVE  SubSeq(a \o (b \o c), Len(a) + 1, Len(a) + Len(b)) = b
<1> DEFINE i == Len(a) + 1  j == Len(a) + Len(b)  back == b \o c
<1>1. /\ Len(a) \in Nat /\ Len(b) \in Nat /\ Len(c) \in Nat
      /\ back \in Seq(Byte) /\ Len(back) = Len(b) + Len(c)
  BY Parts
<1>2. CASE Len(b) > 0
  <2>1. /\ i \in Len(a) + 1 .. Len(a) + Len(back) /\ j \in Len(a) + 1 .. Len(a) + Len(back)
        /\ i - Len(a) = 1 /\ j - Len(a) = Len(b)
    BY <1>1, <1>2
  <2> HIDE DEF i, j
  <2> HIDE DEF back
  <2>2. \A S : a \in Seq(S) /\ back \in Seq(S)
               => SubSeq(a \o back, i, j) = SubSeq(back, i - Len(a), j - Len(a))
    BY <2>1, SubSeqOfConcat2
  <2>3. SubSeq(a \o back, i, j) = SubSeq(back, 1, Len(b))
    BY <1>1, <2>1, <2>2
  <2>4. 1 \in 1 .. Len(b) /\ Len(b) \in 1 .. Len(b)
    BY <1>1, <1>2
  <2>5. SubSeq(b \o c, 1, Len(b)) = SubSeq(b, 1, Len(b))
    BY <2>4, SubSeqOfConcat1
  <2>6. SubSeq(b, 1, Len(b)) = b
    BY SubSeqFull
  <2> QED
    BY <2>3, <2>5, <2>6 DEF back, i, j
<1>3. CASE Len(b) = 0
  <2>1. b = << >>
    BY <1>3
  <2>2. i \in Int /\ j \in Int /\ j < i
    BY <1>1, <1>3
  <2> HIDE DEF i, j
  <2>3. SubSeq(a \o back, i, j) = << >>
    BY <2>2, SubSeqEmpty
  <2> QED
    BY <2>1, <2>3 DEF i, j
<1> QED
  BY <1>1, <1>2, <1>3

LEMMA TailIsLast ==
  ASSUME NEW a \in Seq(Byte), NEW b \in Seq(Byte)
  PROVE  SubSeq(a \o b, Len(a) + 1, Len(a) + Len(b)) = b
<1>1. << >> \in Seq(Byte) /\ b \o << >> = b
  BY ConcatEmptySeq
<1>2. SubSeq(a \o (b \o << >>), Len(a) + 1, Len(a) + Len(b)) = b
  BY <1>1, Middle
<1> QED
  BY <1>1, <1>2

\* What follows a tag does not change how it is read.
LEMMA TagIsRead ==
  ASSUME NEW tag \in Signed32, ProperTag(tag), NEW rest \in Seq(Byte)
  PROVE  DecodeTag(EncodeTag(tag) \o rest, 0) = [ok |-> TRUE, tag |-> tag, pos |-> Len(EncodeTag(tag))]
<1> DEFINE e == EncodeTag(tag)  all == e \o rest
<1>1. e \in Seq(Byte) /\ Len(e) \in 1 .. 4 /\ Word(e) = tag
  BY TagIsItsWord, SMT
<1>2. DecodeTag(e, 0).ok /\ DecodeTag(e, 0).pos = Len(e)
  BY SMT DEF ProperTag
<1> HIDE DEF e
<1>3. /\ all \in Seq(Byte) /\ Len(rest) \in Nat /\ Len(all) = Len(e) + Len(rest)
      /\ \A i \in 1 .. Len(e) : all[i] = e[i]
  BY <1>1, Parts
<1>4. \A i \in 1 .. Len(e) : e[i] \in Nat
  <2>1. \A i \in 1 .. Len(e) : e[i] \in Byte
    BY <1>1
  <2>2. \A b \in Byte : b \in Nat
    BY DEF Byte
  <2> QED
    BY <2>1, <2>2
<1>5. all[1] = e[1]
  BY <1>1, <1>3
<1>8. all \in Seq(Byte) /\ Len(all) \in Nat /\ Len(all) >= 1 /\ Len(all) >= Len(e)
  <2>1. Len(all) \in Nat /\ Len(all) >= 1 /\ Len(all) >= Len(e)
    BY <1>1, <1>3, SMTT(30)
  <2> QED
    BY <1>3, <2>1
<1> HIDE DEF all
<1>6. CASE e[1] % 32 # 31
  <2>1. DecodeTag(e, 0) = [ok |-> TRUE, tag |-> e[1], pos |-> 1]
    BY <1>1, <1>6, SMT DEF DecodeTag
  <2>2. Len(e) = 1
    BY <1>2, <2>1, SMT
  <2>3. e[1] = tag
    BY <1>1, <2>2, WordIs, SMT
  <2>4. DecodeTag(all, 0) = [ok |-> TRUE, tag |-> all[1], pos |-> 1]
    <3>1. all[1] % 32 # 31
      BY <1>5, <1>6
    <3> QED
      BY <1>8, <3>1, SMT DEF DecodeTag
  <2> QED
    BY <1>5, <2>2, <2>3, <2>4, SMT DEF e, all
<1>7. CASE e[1] % 32 = 31
  <2>1. Len(e) # 1
    <3>1. SUFFICES ASSUME Len(e) = 1 PROVE FALSE
      OBVIOUS
    <3>2. DecodeTag(e, 0) = [ok |-> TRUE, tag |-> 256 * e[1], pos |-> 2]
      BY <1>7, <3>1, SMT DEF DecodeTag
    <3> QED
      BY <1>2, <3>1, <3>2, SMT
  <2>2. TagEnds(e, 0) # {}
    <3>1. SUFFICES ASSUME TagEnds(e, 0) = {} PROVE FALSE
      OBVIOUS
    <3>2. DecodeTag(e, 0) = Failed
      BY <1>1, <1>7, <2>1, <3>1, SMT DEF DecodeTag
    <3> QED
      BY <1>2, <3>2, SMT DEF Failed
  <2>3. FirstOf(TagEnds(e, 0)) = Len(e)
    <3>1. DecodeTag(e, 0) = [ok |-> TRUE, tag |-> Word(SubSeq(e, 1, FirstOf(TagEnds(e, 0)))),
                             pos |-> FirstOf(TagEnds(e, 0))]
      BY <1>1, <1>7, <2>1, <2>2, SMT DEF DecodeTag
    <3> QED
      BY <1>2, <3>1, SMT
  <2>4. Len(e) \in TagEnds(e, 0) /\ \A j \in TagEnds(e, 0) : Len(e) <= j
    <3>1. TagEnds(e, 0) \subseteq 2 .. 4
      BY <1>1, SMT DEF TagEnds
    <3>2. \E i \in TagEnds(e, 0) : \A j \in TagEnds(e, 0) : i <= j
      <4>1. CASE 2 \in TagEnds(e, 0)
        BY <3>1, <4>1
      <4>2. CASE 2 \notin TagEnds(e, 0) /\ 3 \in TagEnds(e, 0)
        BY <3>1, <4>2
      <4>3. CASE 2 \notin TagEnds(e, 0) /\ 3 \notin TagEnds(e, 0)
        BY <3>1, <2>2, <4>3
      <4> QED
        BY <4>1, <4>2, <4>3
    <3> QED
      BY <2>3, <3>2 DEF FirstOf
  <2>5. Len(e) \in TagEnds(all, 0) /\ \A j \in TagEnds(all, 0) : Len(e) <= j
    <3>1. Len(e) \in 2 .. Len(e) /\ e[Len(e)] <= 128
      BY <2>4 DEF TagEnds
    <3>2. Len(e) \in TagEnds(all, 0)
      BY <1>1, <1>3, <3>1 DEF TagEnds
    <3>3. ASSUME NEW j \in TagEnds(all, 0), j < Len(e) PROVE FALSE
      <4>1. j \in 2 .. Len(all) /\ all[j] <= 128
        BY DEF TagEnds
      <4>2. j \in TagEnds(e, 0)
        BY <1>1, <1>3, <3>3, <4>1 DEF TagEnds
      <4> QED
        BY <1>1, <2>4, <3>3, <4>1, <4>2
    <3> QED
      BY <1>1, <1>3, <3>2, <3>3 DEF TagEnds
  <2>6. FirstOf(TagEnds(all, 0)) = Len(e)
    <3>1. \A i \in TagEnds(all, 0) : i \in Int
      BY DEF TagEnds
    <3>2. \A i \in TagEnds(all, 0) : (\A j \in TagEnds(all, 0) : i <= j) => i = Len(e)
      BY <1>1, <2>5, <3>1
    <3> QED
      BY <2>5, <3>2 DEF FirstOf
  <2>7. SubSeq(all, 1, Len(e)) = e
    <3>1. all = e \o rest
      BY DEF all
    <3> QED
      BY <1>1, <3>1, SubSeqOfConcat1, SubSeqFull
  <2>8. DecodeTag(all, 0) = [ok |-> TRUE, tag |-> Word(SubSeq(all, 1, FirstOf(TagEnds(all, 0)))),
                           pos |-> FirstOf(TagEnds(all, 0))]
    <3>1. Len(all) # 1
      BY <1>1, <1>8, <2>1, SMT
    <3>2. TagEnds(all, 0) # {}
      BY <2>5
    <3> QED
      BY <1>5, <1>7, <1>8, <3>1, <3>2, SMT DEF DecodeTag
  <2> QED
    <3>1. DecodeTag(all, 0) = [ok |-> TRUE, tag |-> Word(e), pos |-> Len(e)]
      BY <2>6, <2>7, <2>8
    <3> QED
      BY <1>1, <3>1 DEF e, all
<1> QED
  BY <1>1, <1>6, <1>7, SMT

-------------------------------------------------------------------------------

\* The long form of a length: how many bytes there are, and those bytes.
LongFormOf(d) == <<128 + Len(d)>> \o d

LEMMA LongForm ==
  ASSUME NEW d \in Seq(Byte), 1 <= Len(d), Len(d) <= 4
  PROVE  /\ LongFormOf(d) \in Seq(Byte)
         /\ 2 <= Len(LongFormOf(d)) /\ Len(LongFormOf(d)) <= 5
         /\ LongFormOf(d)[1] = 127 + Len(LongFormOf(d))
         /\ SubSeq(LongFormOf(d), 2, Len(LongFormOf(d))) = d
<1> DEFINE h == <<128 + Len(d)>>  l == LongFormOf(d)
<1>1. Len(d) \in Int /\ 1 <= Len(d) /\ Len(d) <= 4
  OBVIOUS
<1>2. h \in Seq(Byte) /\ Len(h) = 1 /\ h[1] = 128 + Len(d)
  <2>1. \A k \in Int : 1 <= k /\ k <= 4 => 128 + k \in Byte
    BY SMT DEF Byte
  <2>2. 128 + Len(d) \in Byte
    BY <1>1, <2>1
  <2> QED
    BY <2>2
<1>3. l = h \o d
  BY DEF LongFormOf
<1> HIDE DEF h
<1>4. l \in Seq(Byte) /\ Len(l) = 1 + Len(d) /\ l[1] = h[1]
  <2>1. h \o d \in Seq(Byte) /\ Len(h \o d) = Len(h) + Len(d)
        /\ \A i \in 1 .. Len(h) : (h \o d)[i] = h[i]
    BY <1>2, Parts
  <2>2. 1 \in 1 .. Len(h)
    BY <1>2
  <2> QED
    BY <1>1, <1>2, <1>3, <2>1, <2>2
<1>5. SubSeq(l, 2, Len(l)) = d
  <2> DEFINE m == 2  k == Len(l)
  <2>1. m \in Len(h) + 1 .. Len(h) + Len(d) /\ k \in Len(h) + 1 .. Len(h) + Len(d)
    BY <1>1, <1>2, <1>4
  <2>2. m - Len(h) = 1 /\ k - Len(h) = Len(d)
    BY <1>1, <1>2, <1>4
  <2>3. SubSeq(d, 1, Len(d)) = d
    BY SubSeqFull
  <2> HIDE DEF m, k
  <2>4. \A S : h \in Seq(S) /\ d \in Seq(S)
                => SubSeq(h \o d, m, k) = SubSeq(d, m - Len(h), k - Len(h))
    BY <2>1, SubSeqOfConcat2
  <2>5. SubSeq(l, m, k) = d
    BY <1>2, <1>3, <2>2, <2>3, <2>4
  <2> QED
    BY <2>5 DEF m, k
<1>6. 2 <= Len(l) /\ Len(l) <= 5 /\ l[1] = 127 + Len(l)
  BY <1>1, <1>2, <1>4
<1> QED
  BY <1>4, <1>5, <1>6

LEMMA LengthBytes ==
  ASSUME NEW n \in Length32, n # 128
  PROVE  /\ EncodeLength(n) \in Seq(Byte)
         /\ 1 <= Len(EncodeLength(n)) /\ Len(EncodeLength(n)) <= 5
         /\ n < 128 => Len(EncodeLength(n)) = 1 /\ EncodeLength(n)[1] = n
         /\ n > 128 => /\ Len(EncodeLength(n)) > 1
                       /\ EncodeLength(n)[1] = 127 + Len(EncodeLength(n))
                       /\ Word(SubSeq(EncodeLength(n), 2, Len(EncodeLength(n)))) = n
<1> DEFINE b3 == ByteAt(n, 16777216)  b2 == ByteAt(n, 65536)
           b1 == ByteAt(n, 256)       b0 == ByteAt(n, 1)
<1>1. n \in Int /\ n >= 0 /\ n <= 2147483647 /\ n \in Signed32
  BY SMT DEF Length32, Signed32
<1>2. b3 \in Byte /\ b2 \in Byte /\ b1 \in Byte /\ b0 \in Byte
  BY <1>1, ByteAtIsByte, SMT
<1>3. n = b3 * 16777216 + b2 * 65536 + b1 * 256 + b0 /\ ~(b3 > 127)
  BY <1>1, FourBytes, SMT
<1>4. CASE n > 16777215
  <2> DEFINE d == <<b3, b2, b1, b0>>
  <2>1. EncodeLength(n) = <<132, b3, b2, b1, b0>>
    BY <1>1, <1>4, SMT DEF EncodeLength
  <2> HIDE DEF b3, b2, b1, b0
  <2>2. d \in Seq(Byte) /\ Len(d) = 4 /\ d[1] = b3 /\ d[2] = b2 /\ d[3] = b1 /\ d[4] = b0
    BY <1>2, SMT
  <2>3. EncodeLength(n) = LongFormOf(d)
    BY <2>1, <2>2, SMT DEF LongFormOf
  <2> HIDE DEF d
  <2>4. Word(d) = n
    BY <1>3, <2>2, WordIs, SMT
  <2>6. /\ EncodeLength(n) \in Seq(Byte)
        /\ 2 <= Len(EncodeLength(n)) /\ Len(EncodeLength(n)) <= 5
        /\ EncodeLength(n)[1] = 127 + Len(EncodeLength(n))
        /\ Word(SubSeq(EncodeLength(n), 2, Len(EncodeLength(n)))) = n
    <3>1. d \in Seq(Byte) /\ 1 <= Len(d) /\ Len(d) <= 4
      BY <2>2
    <3> QED
      BY <3>1, <2>3, <2>4, LongForm
  <2>7. Len(EncodeLength(n)) \in Nat /\ ~(n < 128)
    BY <1>1, <1>4, <2>6
  <2> QED
    BY <2>6, <2>7
<1>5. CASE 65535 < n /\ n <= 16777215
  <2> DEFINE d == <<b2, b1, b0>>
  <2>1. EncodeLength(n) = <<131, b2, b1, b0>>
    BY <1>1, <1>5, SMT DEF EncodeLength
  <2>2. n = b2 * 65536 + b1 * 256 + b0
    <3>1. b3 = 0
      BY <1>1, <1>5, SMT DEF ByteAt
    <3> QED
      BY <1>1, <1>2, <1>3, <3>1, SMT DEF Byte
  <2> HIDE DEF b3, b2, b1, b0
  <2>3. d \in Seq(Byte) /\ Len(d) = 3 /\ d[1] = b2 /\ d[2] = b1 /\ d[3] = b0
    BY <1>2, SMT
  <2>4. EncodeLength(n) = LongFormOf(d)
    BY <2>1, <2>3, SMT DEF LongFormOf
  <2> HIDE DEF d
  <2>5. Word(d) = n
    BY <2>2, <2>3, WordIs, SMT
  <2>6. /\ EncodeLength(n) \in Seq(Byte)
        /\ 2 <= Len(EncodeLength(n)) /\ Len(EncodeLength(n)) <= 5
        /\ EncodeLength(n)[1] = 127 + Len(EncodeLength(n))
        /\ Word(SubSeq(EncodeLength(n), 2, Len(EncodeLength(n)))) = n
    <3>1. d \in Seq(Byte) /\ 1 <= Len(d) /\ Len(d) <= 4
      BY <2>3
    <3> QED
      BY <3>1, <2>4, <2>5, LongForm
  <2>7. Len(EncodeLength(n)) \in Nat /\ ~(n < 128)
    BY <1>1, <1>5, <2>6
  <2> QED
    BY <2>6, <2>7
<1>6. CASE 255 < n /\ n <= 65535
  <2> DEFINE d == <<b1, b0>>
  <2>1. EncodeLength(n) = <<130, b1, b0>>
    BY <1>1, <1>6, SMT DEF EncodeLength
  <2>2. n = b1 * 256 + b0
    BY <1>1, <1>6, SMT DEF ByteAt
  <2> HIDE DEF b3, b2, b1, b0
  <2>3. d \in Seq(Byte) /\ Len(d) = 2 /\ d[1] = b1 /\ d[2] = b0
    BY <1>2, SMT
  <2>4. EncodeLength(n) = LongFormOf(d)
    BY <2>1, <2>3, SMT DEF LongFormOf
  <2> HIDE DEF d
  <2>5. Word(d) = n
    BY <2>2, <2>3, WordIs, SMT
  <2>6. /\ EncodeLength(n) \in Seq(Byte)
        /\ 2 <= Len(EncodeLength(n)) /\ Len(EncodeLength(n)) <= 5
        /\ EncodeLength(n)[1] = 127 + Len(EncodeLength(n))
        /\ Word(SubSeq(EncodeLength(n), 2, Len(EncodeLength(n)))) = n
    <3>1. d \in Seq(Byte) /\ 1 <= Len(d) /\ Len(d) <= 4
      BY <2>3
    <3> QED
      BY <3>1, <2>4, <2>5, LongForm
  <2>7. Len(EncodeLength(n)) \in Nat /\ ~(n < 128)
    BY <1>1, <1>6, <2>6
  <2> QED
    BY <2>6, <2>7
<1>7. CASE 128 < n /\ n <= 255
  <2> DEFINE d == <<b0>>
  <2>1. EncodeLength(n) = <<129, b0>>
    BY <1>1, <1>7, SMT DEF EncodeLength
  <2>2. n = b0
    BY <1>1, <1>7, SMT DEF ByteAt
  <2> HIDE DEF b3, b2, b1, b0
  <2>3. d \in Seq(Byte) /\ Len(d) = 1 /\ d[1] = b0
    BY <1>2, SMT
  <2>4. EncodeLength(n) = LongFormOf(d)
    BY <2>1, <2>3, SMT DEF LongFormOf
  <2> HIDE DEF d
  <2>5. Word(d) = n
    BY <2>2, <2>3, WordIs, SMT
  <2>6. /\ EncodeLength(n) \in Seq(Byte)
        /\ 2 <= Len(EncodeLength(n)) /\ Len(EncodeLength(n)) <= 5
        /\ EncodeLength(n)[1] = 127 + Len(EncodeLength(n))
        /\ Word(SubSeq(EncodeLength(n), 2, Len(EncodeLength(n)))) = n
    <3>1. d \in Seq(Byte) /\ 1 <= Len(d) /\ Len(d) <= 4
      BY <2>3
    <3> QED
      BY <3>1, <2>4, <2>5, LongForm
  <2>7. Len(EncodeLength(n)) \in Nat /\ ~(n < 128)
    BY <1>1, <1>7, <2>6
  <2> QED
    BY <2>6, <2>7
<1>8. CASE n < 128
  <2>1. EncodeLength(n) = <<b0>>
    BY <1>1, <1>8, SMT DEF EncodeLength
  <2>2. n = b0
    BY <1>1, <1>8, SMT DEF ByteAt
  <2> HIDE DEF b3, b2, b1, b0
  <2>3. /\ EncodeLength(n) \in Seq(Byte) /\ Len(EncodeLength(n)) = 1
        /\ EncodeLength(n)[1] = b0
    BY <1>2, <2>1
  <2> QED
    BY <1>1, <1>8, <2>2, <2>3, SMT
<1>9. n > 16777215 \/ (65535 < n /\ n <= 16777215) \/ (255 < n /\ n <= 65535)
        \/ (128 < n /\ n <= 255) \/ n < 128
  BY <1>1, SMT
<1> QED
  BY <1>4, <1>5, <1>6, <1>7, <1>8, <1>9, SMT

-------------------------------------------------------------------------------

\* The length that follows a tag is read as it was written.
LEMMA LengthIsRead ==
  ASSUME NEW front \in Seq(Byte), NEW n \in Length32, n # 128, NEW rest \in Seq(Byte)
  PROVE  DecodeLength(front \o (EncodeLength(n) \o rest), Len(front), FALSE)
           = [ok |-> TRUE, len |-> n, pos |-> Len(front) + Len(EncodeLength(n))]
<1> DEFINE e == EncodeLength(n)  back == e \o rest  all == front \o back
           p == Len(front)
<1>1. /\ e \in Seq(Byte) /\ Len(e) \in Int /\ 1 <= Len(e) /\ Len(e) <= 5
      /\ n < 128 => Len(e) = 1 /\ e[1] = n
      /\ n > 128 => /\ Len(e) > 1 /\ e[1] = 127 + Len(e)
                    /\ Word(SubSeq(e, 2, Len(e))) = n
  BY LengthBytes
<1>2. n \in Int /\ (n < 128 \/ n > 128)
  BY SMT DEF Length32, Signed32
<1> HIDE DEF e
<1>3. /\ back \in Seq(Byte) /\ Len(rest) \in Nat /\ Len(back) = Len(e) + Len(rest)
      /\ \A i \in 1 .. Len(e) : back[i] = e[i]
  BY <1>1, Parts
<1> HIDE DEF back
<1>4. /\ all \in Seq(Byte) /\ p \in Nat /\ Len(back) \in Nat /\ Len(all) = p + Len(back)
      /\ \A i \in 1 .. Len(back) : all[p + i] = back[i]
  BY <1>3, Parts, ZenonT(60)
<1>5. all[p + 1] = e[1]
  <2>1. 1 \in 1 .. Len(e) /\ 1 \in 1 .. Len(back)
    BY <1>1, <1>3
  <2> QED
    BY <1>3, <1>4, <2>1
<1>6. p + 1 <= Len(all) /\ Len(all) \in Nat
  BY <1>1, <1>3, <1>4
<1>7. SubSeq(all, p + 2, p + Len(e)) = SubSeq(e, 2, Len(e)) \/ Len(e) = 1
  <2>1. CASE Len(e) > 1
    <3> DEFINE i == p + 2  j == p + Len(e)
    <3>1. /\ i \in Len(front) + 1 .. Len(front) + Len(back)
          /\ j \in Len(front) + 1 .. Len(front) + Len(back)
          /\ i - Len(front) = 2 /\ j - Len(front) = Len(e)
      BY <1>1, <1>3, <1>4, <2>1
    <3> HIDE DEF i, j
    <3>2. \A S : front \in Seq(S) /\ back \in Seq(S)
                 => SubSeq(front \o back, i, j) = SubSeq(back, i - Len(front), j - Len(front))
      BY <3>1, SubSeqOfConcat2
    <3>3. SubSeq(all, i, j) = SubSeq(back, 2, Len(e))
      BY <1>3, <3>1, <3>2
    <3>4. 2 \in 1 .. Len(e) + 1 /\ Len(e) \in 2 - 1 .. Len(e)
      BY <1>1, <2>1
    <3>5. SubSeq(e \o rest, 2, Len(e)) = SubSeq(e, 2, Len(e))
      BY <1>1, <3>4, SubSeqOfConcat1
    <3> QED
      BY <3>3, <3>5 DEF back, i, j
  <2>2. Len(e) > 1 \/ Len(e) = 1
    <3>1. \A k \in Int : 1 <= k => k > 1 \/ k = 1
      OBVIOUS
    <3>2. Len(e) \in Int /\ 1 <= Len(e)
      BY <1>1
    <3> QED
      BY <3>1, <3>2
  <2> QED
    BY <2>1, <2>2
<1> HIDE DEF all, p
<1>8. CASE n < 128
  <2>1. all[p + 1] = n /\ Len(e) = 1
    BY <1>1, <1>5, <1>8
  <2>2. DecodeLength(all, p, FALSE) = [ok |-> TRUE, len |-> all[p + 1], pos |-> p + 1]
    BY <1>2, <1>4, <1>6, <1>8, <2>1, SMT DEF DecodeLength
  <2> QED
    BY <2>1, <2>2 DEF all, back, e, p
<1>9. CASE n > 128
  <2>1. all[p + 1] = 127 + Len(e) /\ Len(e) > 1 /\ Word(SubSeq(e, 2, Len(e))) = n
    BY <1>1, <1>5, <1>9
  <2>2. /\ all[p + 1] - 128 = Len(e) - 1 /\ ~(all[p + 1] < 128)
        /\ ~(Len(all) < p + 1) /\ ~(Len(all) - p <= Len(e) - 1) /\ ~(Len(e) - 1 > 4)
        /\ p + 1 + (Len(e) - 1) = p + Len(e)
    BY <1>1, <1>3, <1>4, <1>6, <2>1, SMT
  <2>3. DecodeLength(all, p, FALSE)
          = [ok |-> TRUE, len |-> Word(SubSeq(all, p + 2, p + Len(e))), pos |-> p + Len(e)]
    <3> DEFINE c == all[p + 1] - 128
    <3>1. /\ c = Len(e) - 1 /\ ~(all[p + 1] < 128) /\ ~(Len(all) < p + 1)
          /\ ~(Len(all) - p <= c) /\ ~(c > 4) /\ p + 1 + c = p + Len(e)
      BY <2>2
    <3>2. DecodeLength(all, p, FALSE)
            = [ok |-> TRUE, len |-> Word(SubSeq(all, p + 2, p + 1 + c)), pos |-> p + 1 + c]
      BY <3>1 DEF DecodeLength
    <3> QED
      BY <3>1, <3>2
  <2>4. SubSeq(all, p + 2, p + Len(e)) = SubSeq(e, 2, Len(e))
    <3>1. Len(e) # 1
      <4>1. \A k \in Int : k > 1 => k # 1
        OBVIOUS
      <4>2. Len(e) \in Int /\ Len(e) > 1
        BY <1>1, <2>1
      <4> QED
        BY <4>1, <4>2
    <3> QED
      BY <1>7, <3>1
  <2> QED
    BY <2>1, <2>3, <2>4 DEF all, back, e, p
<1> QED
  BY <1>2, <1>8, <1>9

-------------------------------------------------------------------------------

\* asn1.split() gives back what asn1.join() was given.
THEOREM JoinSplit ==
  ASSUME NEW tag \in Signed32, ProperTag(tag), NEW value \in Seq(Byte),
         NEW tail \in Seq(Byte), Len(value) \in Length32, Len(value) # 128
  PROVE  SplitsBack(tag, value, tail)
<1> DEFINE t == EncodeTag(tag)  l == EncodeLength(Len(value))
           front == t \o l      body == value \o tail
           all == Join(tag, value, tail)
<1>1. t \in Seq(Byte) /\ Len(t) \in Nat
  BY TagIsItsWord
<1>2. Len(value) \in Length32 /\ Len(value) # 128 /\ Len(value) \in Nat
  OBVIOUS
<1>3. l \in Seq(Byte) /\ Len(l) \in Nat
  <2>1. l \in Seq(Byte)
    BY <1>2, LengthBytes
  <2> QED
    BY <2>1
<1>4. body \in Seq(Byte) /\ Len(body) = Len(value) + Len(tail) /\ Len(tail) \in Nat
  BY <1>2, Parts
<1> HIDE DEF t, l, body
<1>5. l \o body \in Seq(Byte)
  BY <1>3, <1>4, Parts
<1>6. all = t \o (l \o body)
  <2>1. all = ((t \o l) \o value) \o tail
    BY DEF Join, t, l
  <2>2. (t \o l) \in Seq(Byte)
    BY <1>1, <1>3, Parts
  <2>3. ((t \o l) \o value) \o tail = (t \o l) \o body
    BY <2>2, ConcatAssociative DEF body
  <2>4. (t \o l) \o body = t \o (l \o body)
    BY <1>1, <1>3, <1>4, ConcatAssociative, SMTT(30)
  <2> QED
    BY <2>1, <2>3, <2>4
<1>7. DecodeTag(all, 0) = [ok |-> TRUE, tag |-> tag, pos |-> Len(t)]
  BY <1>5, <1>6, TagIsRead DEF t
<1>8. DecodeLength(all, Len(t), FALSE)
        = [ok |-> TRUE, len |-> Len(value), pos |-> Len(t) + Len(l)]
  BY <1>1, <1>2, <1>4, <1>6, LengthIsRead DEF l
<1>9. /\ front \in Seq(Byte) /\ Len(front) = Len(t) + Len(l) /\ all = front \o body
      /\ Len(all) = Len(front) + Len(body) /\ all \in Seq(Byte)
  <2>1. front \in Seq(Byte) /\ Len(front) = Len(t) + Len(l)
    BY <1>1, <1>3, Parts
  <2>2. front \o body = t \o (l \o body)
    BY <1>1, <1>3, <1>4, ConcatAssociative, SMTT(30)
  <2>3. all = front \o body
    BY <1>6, <2>2
  <2>4. front \o body \in Seq(Byte) /\ Len(front \o body) = Len(front) + Len(body)
    <3> HIDE DEF front
    <3> QED
      BY <1>4, <2>1, Parts
  <2> QED
    BY <2>1, <2>3, <2>4
<1>10. SubSeq(all, Len(front) + 1, Len(front) + Len(value)) = value
  BY <1>9, Middle DEF body
<1>11. SubSeq(all, Len(front) + Len(value) + 1, Len(all)) = tail
  <2>1. front \o value \in Seq(Byte) /\ Len(front \o value) = Len(front) + Len(value)
    BY <1>9, Parts
  <2>2. all = (front \o value) \o tail
    BY <1>9, ConcatAssociative, SMTT(30) DEF body
  <2>3. SubSeq((front \o value) \o tail, Len(front \o value) + 1, Len(front \o value) + Len(tail)) = tail
    BY <2>1, TailIsLast
  <2>4. Len(all) = Len(front \o value) + Len(tail)
    BY <2>1, <2>2, Parts
  <2> QED
    BY <2>1, <2>2, <2>3, <2>4
<1> HIDE DEF all, front
<1>12. /\ Len(value) >= 0 /\ Len(front) \in Int
       /\ ~(Len(value) > Len(all) - Len(front)) /\ ~(Len(value) < 0)
  <2>1. Len(all) = Len(front) + (Len(value) + Len(tail))
    BY <1>4, <1>9
  <2> QED
    BY <1>1, <1>2, <1>3, <1>4, <1>9, <2>1
<1>13. DecodeValue(all, Len(t), FALSE)
         = [ok |-> TRUE, value |-> value, pos |-> Len(front) + Len(value)]
  <2> DEFINE d == DecodeLength(all, Len(t), FALSE)
  <2>1. d.ok /\ d.len = Len(value) /\ d.pos = Len(front)
    <3>1. d = [ok |-> TRUE, len |-> Len(value), pos |-> Len(front)]
      BY <1>8, <1>9
    <3> HIDE DEF d
    <3> QED
      BY <3>1
  <2> HIDE DEF d
  <2>2. ~PastEnd(d.pos, d.len, Len(all))
    BY <1>12, <2>1 DEF PastEnd
  <2>3. DecodeValue(all, Len(t), FALSE)
          = [ok |-> TRUE, value |-> SubSeq(all, d.pos + 1, d.pos + d.len), pos |-> d.pos + d.len]
    BY <1>12, <2>1, <2>2 DEF DecodeValue, d
  <2> QED
    BY <1>10, <2>1, <2>3
<1>14. Split(all, FALSE) = [ok |-> TRUE, tag |-> tag, value |-> value, tail |-> tail]
  <2>1. Split(all, FALSE)
          = [ok |-> TRUE, tag |-> tag, value |-> value,
             tail |-> SubSeq(all, Len(front) + Len(value) + 1, Len(all))]
    <3> DEFINE u == DecodeTag(all, 0)  v == DecodeValue(all, u.pos, FALSE)
    <3>1. u.ok /\ u.tag = tag /\ u.pos = Len(t)
      BY <1>7
    <3>2. v = [ok |-> TRUE, value |-> value, pos |-> Len(front) + Len(value)]
      BY <1>13, <3>1
    <3> HIDE DEF v
    <3>3. v.ok /\ v.value = value /\ v.pos = Len(front) + Len(value)
      BY <3>2
    <3> HIDE DEF u
    <3>4. Split(all, FALSE)
            = [ok |-> TRUE, tag |-> u.tag, value |-> v.value, tail |-> SubSeq(all, v.pos + 1, Len(all))]
      BY <3>1, <3>3 DEF Split, u, v
    <3> QED
      BY <3>1, <3>3, <3>4
  <2> QED
    BY <1>11, <2>1
<1> QED
  BY <1>14 DEF SplitsBack, all

-------------------------------------------------------------------------------
(***************************************************************************)
(* Byte strings: what each operation leaves in the buffer, of whatever was *)
(* in it before.                                                           *)
(***************************************************************************)
\* The string b has the width w and the elements s.
Holds(b, w, s) ==
  /\ b \in Buffers /\ b.width = w
  /\ s \in Seq(0 .. (2 ^ w) - 1)
  /\ b.len = Len(s) /\ b.len <= Len(b.data)
  /\ \A i \in 1 .. Len(s) : b.data[i] = s[i]

LEMMA Bases ==
  ASSUME NEW w \in Widths
  PROVE  (w = 1 /\ 2 ^ w = 2) \/ (w = 4 /\ 2 ^ w = 16) \/ (w = 8 /\ 2 ^ w = 256)
<1>1. 2 ^ 1 = 2 /\ 2 ^ 4 = 16 /\ 2 ^ 8 = 256
  BY SMT
<1>2. w = 1 \/ w = 4 \/ w = 8
  BY DEF Widths
<1>3. CASE w = 1
  <2>1. 2 ^ w = 2
    BY <1>1, <1>3, Zenon
  <2> QED
    BY <1>3, <2>1, Zenon
<1>4. CASE w = 4
  <2>1. 2 ^ w = 16
    BY <1>1, <1>4, Zenon
  <2> QED
    BY <1>4, <2>1, Zenon
<1>5. CASE w = 8
  <2>1. 2 ^ w = 256
    BY <1>1, <1>5, Zenon
  <2> QED
    BY <1>5, <2>1, Zenon
<1> QED
  BY <1>2, <1>3, <1>4, <1>5, Zenon

\* An element of any width is a byte, and a number is cut to an element.
LEMMA ElementsAreBytes ==
  ASSUME NEW w \in Widths
  PROVE  /\ 0 .. (2 ^ w) - 1 \subseteq Byte
         /\ 0 .. (2 ^ w) - 1 \subseteq Int
         /\ \A n \in Int : Mask(w, n) \in 0 .. (2 ^ w) - 1
         /\ \A n \in 0 .. (2 ^ w) - 1 : Mask(w, n) = n
<1> DEFINE base == 2 ^ w
<1>1. base = 2 \/ base = 16 \/ base = 256
  BY Bases
<1>2. \A n : Mask(w, n) = n % base
  BY DEF Mask
<1> HIDE DEF base
<1>3. /\ 0 .. base - 1 \subseteq Byte
      /\ 0 .. base - 1 \subseteq Int
      /\ \A n \in Int : n % base \in 0 .. base - 1
      /\ \A n \in 0 .. base - 1 : n % base = n
  BY <1>1 DEF Byte
<1> QED
  BY <1>2, <1>3 DEF base

LEMMA MaskedIs ==
  ASSUME NEW w \in Widths, NEW s \in Seq(Int)
  PROVE  /\ Masked(w, s) \in Seq(0 .. (2 ^ w) - 1)
         /\ Masked(w, s) \in Seq(Cells)
         /\ Len(Masked(w, s)) = Len(s)
         /\ \A i \in 1 .. Len(s) : Masked(w, s)[i] = Mask(w, s[i])
<1> DEFINE D == 0 .. (2 ^ w) - 1
<1>1. D \subseteq Byte /\ \A n \in Int : Mask(w, n) \in D
  BY ElementsAreBytes
<1> HIDE DEF D
<1>2. Masked(w, s) = [i \in 1 .. Len(s) |-> Mask(w, s[i])]
  BY DEF Masked
<1>3. \A i \in 1 .. Len(s) : Mask(w, s[i]) \in D
  BY <1>1
<1>4. Masked(w, s) \in Seq(D) /\ Len(Masked(w, s)) = Len(s)
  BY <1>2, <1>3
<1>5. D \subseteq Cells
  BY <1>1 DEF Cells, Byte
<1>6. Masked(w, s) \in Seq(Cells)
  BY <1>4, <1>5, SeqMonotonic
<1> QED
  BY <1>2, <1>4, <1>6 DEF D

LEMMA RepeatedIs ==
  ASSUME NEW S, NEW x \in S, NEW n \in Nat
  PROVE  /\ Repeated(x, n) \in Seq(S) /\ Len(Repeated(x, n)) = n
         /\ \A i \in 1 .. n : Repeated(x, n)[i] = x
  BY DEF Repeated

LEMMA WrittenIs ==
  ASSUME NEW d \in Seq(Cells), NEW s \in Seq(Cells), NEW pos \in Nat
  PROVE  /\ Written(d, pos, s) \in Seq(Cells)
         /\ Len(Written(d, pos, s)) = Len(d)
         /\ \A i \in 1 .. Len(d) : Written(d, pos, s)[i]
              = IF i > pos /\ i <= pos + Len(s) THEN s[i - pos] ELSE d[i]
<1> DEFINE cell(i) == IF i - pos \in DOMAIN s THEN s[i - pos] ELSE d[i]
<1>1. Written(d, pos, s) = [i \in 1 .. Len(d) |-> cell(i)]
  BY DEF Written
<1>2. \A i \in 1 .. Len(d) :
        cell(i) = IF i > pos /\ i <= pos + Len(s) THEN s[i - pos] ELSE d[i]
  OBVIOUS
<1>3. \A i \in 1 .. Len(d) : cell(i) \in Cells
  OBVIOUS
<1> HIDE DEF cell
<1> QED
  BY <1>1, <1>2, <1>3

-------------------------------------------------------------------------------
(***************************************************************************)
(* The least of a set of naturals, and induction over them, for a set.     *)
(***************************************************************************)
LEMMA LeastOf ==
  ASSUME NEW S \in SUBSET Nat, S # {}
  PROVE  \E x \in S : \A y \in S : x <= y
<1> DEFINE R == OpToRel(<, Nat)
<1>1. IsWellFoundedOn(R, Nat)
  BY NatLessThanWellFounded
<1>2. PICK x \in S : \A y \in S : ~ (<<y, x>> \in R)
  <2> HIDE DEF R
  <2> QED
    BY <1>1, WFMin
<1>3. \A y \in S : y < x => <<y, x>> \in R
  BY DEF OpToRel
<1>4. \A y \in S : x <= y
  <2> HIDE DEF R
  <2>1. \A y \in S : ~(y < x)
    BY <1>2, <1>3
  <2> QED
    BY <2>1
<1> QED
  BY <1>4

LEMMA NatSetInduction ==
  ASSUME NEW S, 0 \in S, \A n \in Nat : n \in S => n + 1 \in S
  PROVE  \A n \in Nat : n \in S
<1> DEFINE T == {n \in Nat : n \notin S}
<1> SUFFICES ASSUME T # {} PROVE FALSE
  OBVIOUS
<1>1. PICK x \in T : \A y \in T : x <= y
  <2>1. T \in SUBSET Nat
    OBVIOUS
  <2> HIDE DEF T
  <2> QED
    BY <2>1, LeastOf
<1>2. x # 0 /\ x \in Nat /\ x - 1 \in Nat /\ x - 1 + 1 = x
  BY <1>1
<1>3. x - 1 \in T
  BY <1>2
<1> QED
  BY <1>1, <1>2, <1>3

-------------------------------------------------------------------------------
(***************************************************************************)
(* A buffer is never shorter than the string in it.                        *)
(***************************************************************************)

\* The sizes that a is doubled to.
Sizes(a) ==
  {x \in Nat : \A S \in SUBSET Nat : a \in S /\ (\A y \in S : 2 * y \in S) => x \in S}

LEMMA SizesAre ==
  ASSUME NEW a \in Nat \ {0}
  PROVE  /\ a \in Sizes(a)
         /\ \A x \in Sizes(a) : x >= a /\ 2 * x \in Sizes(a)
         /\ Sizes(a) = {a} \cup Sizes(2 * a)
         /\ \A l \in Nat : \E x \in Sizes(a) : x >= l
<1>1. ASSUME NEW b \in Nat \ {0}
      PROVE  b \in Sizes(b) /\ \A x \in Sizes(b) : x \in Nat /\ x >= b /\ 2 * x \in Sizes(b)
  <2>1. b \in Sizes(b)
    BY DEF Sizes
  <2>2. \A x \in Sizes(b) : x \in Nat /\ 2 * x \in Sizes(b)
    BY DEF Sizes
  <2>3. ASSUME NEW x \in Sizes(b) PROVE x >= b
    <3> DEFINE S == {y \in Nat : y >= b}
    <3>1. S \in SUBSET Nat /\ b \in S /\ \A y \in S : 2 * y \in S
      OBVIOUS
    <3>2. x \in S
      <4> HIDE DEF S
      <4> QED
        BY <3>1 DEF Sizes
    <3> QED
      BY <3>2
  <2> QED
    BY <2>1, <2>2, <2>3
<1>2. 2 * a \in Nat \ {0}
  OBVIOUS
<1>3. Sizes(a) \subseteq {a} \cup Sizes(2 * a)
  <2> DEFINE S == {a} \cup Sizes(2 * a)
  <2>1. a \in S /\ \A y \in S : 2 * y \in S
    BY <1>1, <1>2
  <2>2. S \in SUBSET Nat
    BY DEF Sizes
  <2>3. ASSUME NEW x \in Sizes(a) PROVE x \in S
    <3> HIDE DEF S
    <3> QED
      BY <2>1, <2>2 DEF Sizes
  <2> QED
    BY <2>3
<1>4. Sizes(2 * a) \subseteq Sizes(a)
  BY DEF Sizes
<1>5. \A l \in Nat : \E x \in Sizes(a) : x >= l
  <2> DEFINE S == {l \in Nat : \E x \in Sizes(a) : x >= l}
  <2>1. 0 \in S
    BY <1>1
  <2>2. ASSUME NEW l \in Nat, l \in S PROVE l + 1 \in S
    <3>1. PICK x \in Sizes(a) : x >= l
      BY <2>2
    <3>2. x \in Nat /\ x >= a /\ 2 * x \in Sizes(a)
      BY <1>1
    <3>3. 2 * x >= l + 1
      BY <3>1, <3>2
    <3> QED
      BY <3>2, <3>3
  <2>3. \A l \in Nat : l \in S
    <3> HIDE DEF S
    <3> QED
      BY <2>1, <2>2, NatSetInduction
  <2> QED
    BY <2>3
<1> QED
  BY <1>1, <1>3, <1>4, <1>5

\* The doubling of a size ends, and not before it is long enough.
LEMMA DoubledIs ==
  ASSUME NEW alloc \in Nat \ {0}, NEW len \in Nat
  PROVE  Doubled(alloc, len) \in Nat /\ Doubled(alloc, len) >= len
<1> DEFINE P == Nat \ {0}
           big(a) == {x \in Sizes(a) : x >= len}
           f == [a \in P |-> CHOOSE x \in big(a) : \A y \in big(a) : x <= y]
           Body(g) == [a \in P |-> IF a >= len THEN a ELSE g[2 * a]]
           size == CHOOSE g : g = Body(g)
<1>1. \A a \in P : f[a] \in big(a) /\ \A y \in big(a) : f[a] <= y
  <2> TAKE a \in P
  <2> DEFINE B == big(a)
  <2>1. B # {} /\ B \in SUBSET Nat
    <3>1. B # {}
      BY SizesAre
    <3>2. B \in SUBSET Nat
      BY DEF Sizes
    <3> QED
      BY <3>1, <3>2
  <2>2. f[a] = CHOOSE x \in B : \A y \in B : x <= y
    OBVIOUS
  <2> HIDE DEF B, f
  <2>3. \E x \in B : \A y \in B : x <= y
    BY <2>1, LeastOf
  <2>4. f[a] \in B /\ \A y \in B : f[a] <= y
    BY <2>2, <2>3
  <2> QED
    BY <2>4 DEF B
<1>2. \A a \in P : f[a] = IF a >= len THEN a ELSE f[2 * a]
  <2> TAKE a \in P
  <2>1. 2 * a \in P
    OBVIOUS
  <2> HIDE DEF f
  <2>2. CASE a >= len
    <3>1. a \in big(a) /\ \A y \in big(a) : y >= a /\ y \in Nat
      BY <2>2, SizesAre DEF Sizes
    <3> HIDE DEF big
    <3>2. f[a] <= a /\ f[a] >= a /\ f[a] \in Nat
      BY <1>1, <3>1
    <3> QED
      BY <2>2, <3>2
  <2>3. CASE ~(a >= len)
    <3>1. big(a) = big(2 * a)
      BY <2>3, SizesAre
    <3>2. \A y \in big(a) : y \in Nat
      BY DEF Sizes
    <3> HIDE DEF big
    <3>3. /\ f[a] \in big(a) /\ f[2 * a] \in big(a)
          /\ f[a] <= f[2 * a] /\ f[2 * a] <= f[a]
      BY <1>1, <2>1, <3>1
    <3>4. f[a] = f[2 * a]
      BY <3>2, <3>3
    <3> QED
      BY <2>3, <3>4
  <2> QED
    BY <2>2, <2>3
<1>3. f = Body(f)
  <2>1. f = [a \in P |-> f[a]]
    OBVIOUS
  <2> HIDE DEF f
  <2>2. [a \in P |-> f[a]] = Body(f)
    BY <1>2
  <2> QED
    BY <2>1, <2>2, Zenon
<1>4. size = Body(size)
  <2> HIDE DEF Body, f
  <2> QED
    BY <1>3, Zenon
<1>5. Doubled(alloc, len) = size[alloc]
  BY DEF Doubled
<1> HIDE DEF size
<1>6. \A a \in P : size[a] = IF a >= len THEN a ELSE size[2 * a]
  BY <1>4
<1>7. \A n \in Nat : \A a \in P : len - a <= n => size[a] \in Nat /\ size[a] >= len
  <2> DEFINE Enough(n) == \A a \in P : len - a <= n => size[a] \in Nat /\ size[a] >= len
             S == {n \in Nat : Enough(n)}
  <2>1. 0 \in S
    BY <1>6
  <2>2. ASSUME NEW n \in Nat, Enough(n) PROVE Enough(n + 1)
    <3> SUFFICES ASSUME NEW a \in P, len - a <= n + 1
                 PROVE  size[a] \in Nat /\ size[a] >= len
      OBVIOUS
    <3>1. CASE a >= len
      BY <1>6, <3>1
    <3>2. CASE ~(a >= len)
      <4>1. 2 * a \in P /\ len - 2 * a <= n
        OBVIOUS
      <4> QED
        BY <1>6, <2>2, <3>2, <4>1
    <3> QED
      BY <3>1, <3>2
  <2>3. \A n \in Nat : n \in S => n + 1 \in S
    <3> HIDE DEF Enough
    <3> QED
      BY <2>2
  <2>4. \A n \in Nat : n \in S
    <3> HIDE DEF S
    <3> QED
      BY <2>1, <2>3, NatSetInduction
  <2> QED
    BY <2>4
<1>8. len - alloc <= len /\ len \in Nat
  OBVIOUS
<1> QED
  BY <1>5, <1>7, <1>8

LEMMA CapacityIs ==
  ASSUME NEW alloc \in Nat, NEW len \in Nat
  PROVE  Capacity(alloc, len) \in Nat /\ Capacity(alloc, len) >= len
<1>1. CASE alloc > 0
  <2>1. alloc \in Nat \ {0}
    BY <1>1
  <2> QED
    BY <1>1, <2>1, DoubledIs DEF Capacity
<1>2. CASE ~(alloc > 0)
  BY <1>2, AllocAssumption DEF Capacity
<1> QED
  BY <1>1, <1>2

\* A change of the length leaves what is in the buffer in its place.
LEMMA ResizeIs ==
  ASSUME NEW b \in Buffers, NEW n \in Nat
  PROVE  /\ Resize(b, n) \in Buffers
         /\ Resize(b, n).width = b.width /\ Resize(b, n).len = n
         /\ Len(Resize(b, n).data) >= n /\ Len(Resize(b, n).data) >= Len(b.data)
         /\ \A i \in 1 .. Len(b.data) : Resize(b, n).data[i] = b.data[i]
<1> DEFINE more == Repeated(Stale, Capacity(Len(b.data), n) - Len(b.data))
           room == IF n <= Len(b.data) THEN b.data ELSE b.data \o more
<1>1. b.data \in Seq(Cells) /\ Len(b.data) \in Nat /\ b.width \in Widths
  BY DEF Buffers
<1>2. Resize(b, n) = [b EXCEPT !.len = n, !.data = room]
  BY DEF Resize
<1>3. Resize(b, n) = [width |-> b.width, len |-> n, data |-> room]
  BY <1>2 DEF Buffers
<1>4. /\ room \in Seq(Cells) /\ Len(room) >= n /\ Len(room) >= Len(b.data)
      /\ \A i \in 1 .. Len(b.data) : room[i] = b.data[i]
  <2>1. CASE n <= Len(b.data)
    BY <1>1, <2>1
  <2>2. CASE ~(n <= Len(b.data))
    <3> DEFINE c == Capacity(Len(b.data), n)
    <3>1. c \in Nat /\ c >= n
      BY <1>1, CapacityIs
    <3> HIDE DEF c
    <3>2. c - Len(b.data) \in Nat
      BY <1>1, <2>2, <3>1
    <3>3. more \in Seq(Cells) /\ Len(more) = c - Len(b.data)
      BY <3>2, RepeatedIs DEF Cells, c
    <3> HIDE DEF more
    <3>4. /\ b.data \o more \in Seq(Cells)
          /\ Len(b.data \o more) = Len(b.data) + Len(more)
          /\ \A i \in 1 .. Len(b.data) + Len(more) :
               (b.data \o more)[i] = IF i <= Len(b.data) THEN b.data[i] ELSE more[i - Len(b.data)]
      BY <1>1, <3>3, ConcatProperties
    <3>5. room = b.data \o more
      BY <2>2
    <3> HIDE DEF room
    <3> QED
      BY <1>1, <3>1, <3>3, <3>4, <3>5
  <2> QED
    BY <2>1, <2>2
<1> HIDE DEF room
<1> QED
  BY <1>1, <1>3, <1>4 DEF Buffers

\* What is assigned or appended is cut to the width of the string.
LEMMA NewIs ==
  ASSUME NEW w \in Widths
  PROVE  New(w) \in Buffers /\ Holds(New(w), w, <<>>)
  BY DEF New, Buffers, Holds

LEMMA AssignDataIs ==
  ASSUME NEW b \in Buffers, NEW s \in Seq(Int)
  PROVE  Holds(AssignData(b, s), b.width, Masked(b.width, s))
<1> DEFINE w == b.width
           m == Masked(w, s)
           r == Resize(b, Len(s))
           d == Written(r.data, 0, m)
<1>1. w \in Widths
  BY DEF Buffers
<1>2. m \in Seq(0 .. (2 ^ w) - 1) /\ m \in Seq(Cells) /\ Len(m) = Len(s) /\ Len(s) \in Nat
  BY <1>1, MaskedIs
<1>3. r \in Buffers /\ r.width = w /\ r.len = Len(s) /\ Len(r.data) >= Len(s)
  BY <1>2, ResizeIs
<1>4. AssignData(b, s) = [r EXCEPT !.data = d]
  BY DEF AssignData
<1> HIDE DEF r, m, w
<1>5. r.data \in Seq(Cells) /\ Len(r.data) \in Nat
  BY <1>3 DEF Buffers
<1>6. /\ d \in Seq(Cells) /\ Len(d) = Len(r.data)
      /\ \A i \in 1 .. Len(r.data) : d[i]
           = IF i > 0 /\ i <= 0 + Len(m) THEN m[i - 0] ELSE r.data[i]
  BY <1>2, <1>5, WrittenIs
<1>7. \A i \in 1 .. Len(m) : d[i] = m[i]
  BY <1>2, <1>3, <1>5, <1>6
<1> HIDE DEF d
<1>8. AssignData(b, s) = [width |-> w, len |-> Len(s), data |-> d]
  BY <1>3, <1>4 DEF Buffers
<1>9. Holds(AssignData(b, s), w, m)
  BY <1>1, <1>2, <1>3, <1>6, <1>7, <1>8 DEF Holds, Buffers
<1> QED
  BY <1>9 DEF w, m

LEMMA AppendDataIs ==
  ASSUME NEW b, NEW w \in Widths, NEW c, Holds(b, w, c), NEW s \in Seq(Int)
  PROVE  Holds(AppendData(b, s), w, c \o Masked(w, s))
<1> DEFINE m == Masked(w, s)
           r == Resize(b, b.len + Len(s))
           d == Written(r.data, b.len, m)
           D == 0 .. (2 ^ w) - 1
<1>1. /\ b \in Buffers /\ b.width = w /\ c \in Seq(D) /\ b.len = Len(c) /\ b.len <= Len(b.data)
      /\ \A i \in 1 .. Len(c) : b.data[i] = c[i]
  BY DEF Holds
<1> HIDE DEF D
<1>2. m \in Seq(D) /\ m \in Seq(Cells) /\ Len(m) = Len(s) /\ Len(s) \in Nat /\ Len(c) \in Nat
  BY <1>1, MaskedIs DEF D
<1>3. b.len + Len(s) \in Nat /\ Len(b.data) \in Nat /\ b.len \in Nat
  BY <1>1, <1>2 DEF Buffers
<1>4. /\ r \in Buffers /\ r.width = w /\ r.len = b.len + Len(s)
      /\ Len(r.data) >= b.len + Len(s)
      /\ \A i \in 1 .. Len(b.data) : r.data[i] = b.data[i]
  BY <1>1, <1>3, ResizeIs
<1>5. AppendData(b, s) = [r EXCEPT !.data = d]
  BY <1>1 DEF AppendData
<1> HIDE DEF r, m
<1>6. r.data \in Seq(Cells) /\ Len(r.data) \in Nat
  BY <1>4 DEF Buffers
<1>7. /\ d \in Seq(Cells) /\ Len(d) = Len(r.data)
      /\ \A i \in 1 .. Len(r.data) : d[i]
           = IF i > b.len /\ i <= b.len + Len(m) THEN m[i - b.len] ELSE r.data[i]
  <2>1. m \in Seq(Cells) /\ r.data \in Seq(Cells) /\ b.len \in Nat
    BY <1>2, <1>3, <1>6
  <2> QED
    BY <2>1, WrittenIs
<1> HIDE DEF d
<1>8. /\ c \o m \in Seq(D) /\ Len(c \o m) = Len(c) + Len(m)
      /\ \A i \in 1 .. Len(c) + Len(m) : (c \o m)[i] = IF i <= Len(c) THEN c[i] ELSE m[i - Len(c)]
  <2>1. c \in Seq(D) /\ m \in Seq(D)
    BY <1>1, <1>2
  <2> QED
    BY <2>1, ConcatProperties
<1>9. \A i \in 1 .. Len(c \o m) : d[i] = (c \o m)[i]
  <2> TAKE i \in 1 .. Len(c \o m)
  <2>1. i \in 1 .. Len(r.data)
    BY <1>1, <1>2, <1>4, <1>6, <1>8
  <2>2. CASE i <= Len(c)
    <3>1. d[i] = r.data[i]
      BY <1>1, <1>2, <1>7, <2>1, <2>2
    <3>2. i \in 1 .. Len(b.data) /\ i \in 1 .. Len(c)
      BY <1>1, <1>2, <1>3, <2>1, <2>2
    <3> QED
      BY <1>1, <1>2, <1>4, <1>8, <2>2, <3>1, <3>2
  <2>3. CASE ~(i <= Len(c))
    BY <1>1, <1>2, <1>7, <1>8, <2>1, <2>3
  <2> QED
    BY <2>2, <2>3
<1>10. AppendData(b, s) = [width |-> w, len |-> b.len + Len(s), data |-> d]
  BY <1>4, <1>5 DEF Buffers
<1>11. Holds(AppendData(b, s), w, c \o m)
  BY <1>1, <1>2, <1>4, <1>6, <1>7, <1>8, <1>9, <1>10 DEF Holds, Buffers, D
<1> QED
  BY <1>11 DEF m

\* The elements of a string are its content.
LEMMA ContentIs ==
  ASSUME NEW b, NEW w \in Widths, NEW c, Holds(b, w, c)
  PROVE  Content(b) = c
<1>1. /\ b.data \in Seq(Cells) /\ Len(b.data) \in Nat /\ c \in Seq(0 .. (2 ^ w) - 1)
      /\ b.len = Len(c) /\ b.len <= Len(b.data)
      /\ \A i \in 1 .. Len(c) : b.data[i] = c[i]
  BY DEF Holds, Buffers
<1>2. /\ Len(c) \in Nat /\ c = [i \in 1 .. Len(c) |-> c[i]]
  BY <1>1
<1>3. Content(b) = [i \in 1 .. Len(c) |-> b.data[i]]
  BY <1>1, <1>2 DEF Content
<1> QED
  BY <1>1, <1>2, <1>3

\* What is in a string fits its width already.
LEMMA MaskedSame ==
  ASSUME NEW w \in Widths, NEW c \in Seq(0 .. (2 ^ w) - 1)
  PROVE  c \in Seq(Int) /\ Masked(w, c) = c
<1> DEFINE D == 0 .. (2 ^ w) - 1
<1>1. D \subseteq Int /\ \A n \in D : Mask(w, n) = n
  BY ElementsAreBytes
<1> HIDE DEF D
<1>2. c \in Seq(D)
  BY DEF D
<1>3. c = [i \in 1 .. Len(c) |-> c[i]] /\ \A i \in 1 .. Len(c) : c[i] \in D
  BY <1>2
<1>4. Masked(w, c) = [i \in 1 .. Len(c) |-> Mask(w, c[i])]
  BY <1>2 DEF Masked
<1>5. \A i \in 1 .. Len(c) : Mask(w, c[i]) = c[i]
  BY <1>1, <1>3
<1>6. c \in Seq(Int)
  BY <1>1, <1>2, SeqMonotonic
<1> QED
  BY <1>3, <1>4, <1>5, <1>6

LEMMA DuplicateIs ==
  ASSUME NEW b, NEW w \in Widths, NEW c, Holds(b, w, c)
  PROVE  Holds(Duplicate(b), w, c)
<1>1. Content(b) = c /\ b.width = w /\ c \in Seq(0 .. (2 ^ w) - 1)
  BY ContentIs DEF Holds
<1>2. c \in Seq(Int) /\ Masked(w, c) = c
  BY <1>1, MaskedSame
<1>3. New(w) \in Buffers /\ New(w).width = w
  BY NewIs DEF New
<1>4. Holds(AssignData(New(w), c), w, Masked(w, c))
  BY <1>2, <1>3, AssignDataIs
<1> QED
  BY <1>1, <1>2, <1>4 DEF Duplicate

\* Elements inserted in front: the string is moved, then the gap is filled.
LEMMA InsertElementIs ==
  ASSUME NEW b, NEW w \in Widths, NEW c, Holds(b, w, c), NEW n \in Nat, NEW x \in Int
  PROVE  Holds(InsertElement(b, 0, n, x), w, Masked(w, Repeated(x, n)) \o c)
<1> DEFINE D == 0 .. (2 ^ w) - 1
           fill == Repeated(x, n)
           m == Masked(w, fill)
           r == Resize(b, b.len + n)
           moved == Written(r.data, n, Content(b))
           d == Written(moved, 0, m)
<1>1. /\ b \in Buffers /\ b.width = w /\ c \in Seq(D) /\ b.len = Len(c)
      /\ Len(c) \in Nat /\ b.len \in Nat /\ Content(b) = c
  BY ContentIs DEF Holds
<1>2. fill \in Seq(Int) /\ Len(fill) = n
  BY RepeatedIs
<1> HIDE DEF fill
<1>3. m \in Seq(D) /\ m \in Seq(Cells) /\ Len(m) = n
  BY <1>2, MaskedIs
<1> HIDE DEF m
<1>4. D \subseteq Cells
  BY ElementsAreBytes DEF Cells, Byte
<1>5. c \in Seq(Cells)
  BY <1>1, <1>4, SeqMonotonic
<1>6. /\ m \o c \in Seq(D) /\ Len(m \o c) = n + Len(c)
      /\ \A i \in 1 .. n + Len(c) : (m \o c)[i] = IF i <= n THEN m[i] ELSE c[i - n]
  <2>1. m \in Seq(D) /\ c \in Seq(D)
    BY <1>1, <1>3
  <2> QED
    BY <1>3, <2>1, ConcatProperties
<1>7. CASE 0 >= b.len
  <2>1. InsertElement(b, 0, n, x) = AppendData(b, fill)
    BY <1>7 DEF InsertElement, fill
  <2>2. Holds(AppendData(b, fill), w, c \o m)
    BY <1>2, AppendDataIs DEF m
  <2>3. c = <<>>
    BY <1>1, <1>7
  <2>4. c \o m = m /\ m \o c = m
    BY <1>3, <2>3, ConcatEmptySeq
  <2> QED
    BY <2>1, <2>2, <2>4 DEF m, fill
<1>8. CASE ~(0 >= b.len)
  <2>1. /\ r \in Buffers /\ r.width = w /\ r.len = b.len + n /\ Len(r.data) >= b.len + n
        /\ b.len + n \in Nat
    BY <1>1, ResizeIs
  <2>2. InsertElement(b, 0, n, x) = [r EXCEPT !.data = d]
    <3>1. 0 + n = n /\ 0 + 1 = 1
      OBVIOUS
    <3>2. InsertElement(b, 0, n, x)
            = [r EXCEPT !.data = Written(Written(r.data, 0 + n, SubSeq(b.data, 0 + 1, b.len)), 0,
                                         Masked(b.width, Repeated(x, n)))]
      BY <1>8 DEF InsertElement
    <3> QED
      BY <1>1, <3>1, <3>2 DEF Content, m, fill
  <2> HIDE DEF r
  <2>3. r.data \in Seq(Cells) /\ Len(r.data) \in Nat
    BY <2>1 DEF Buffers
  <2>4. /\ moved \in Seq(Cells) /\ Len(moved) = Len(r.data)
        /\ \A i \in 1 .. Len(r.data) : moved[i]
             = IF i > n /\ i <= n + Len(c) THEN c[i - n] ELSE r.data[i]
    BY <1>1, <1>5, <2>3, WrittenIs
  <2> HIDE DEF moved
  <2>5. /\ d \in Seq(Cells) /\ Len(d) = Len(moved)
        /\ \A i \in 1 .. Len(moved) : d[i]
             = IF i > 0 /\ i <= 0 + Len(m) THEN m[i - 0] ELSE moved[i]
    <3>1. moved \in Seq(Cells) /\ m \in Seq(Cells) /\ 0 \in Nat
      BY <1>3, <2>4
    <3> QED
      BY <3>1, WrittenIs
  <2> HIDE DEF d
  <2>6. \A i \in 1 .. n + Len(c) : d[i] = (m \o c)[i]
    <3> TAKE i \in 1 .. n + Len(c)
    <3>1. i \in 1 .. Len(r.data)
      BY <1>1, <2>1, <2>3
    <3>2. moved[i] = IF i > n /\ i <= n + Len(c) THEN c[i - n] ELSE r.data[i]
      BY <2>4, <3>1
    <3>3. d[i] = IF i > 0 /\ i <= 0 + Len(m) THEN m[i - 0] ELSE moved[i]
      BY <2>4, <2>5, <3>1
    <3>4. (m \o c)[i] = IF i <= n THEN m[i] ELSE c[i - n]
      BY <1>6
    <3>5. i - 0 = i /\ 0 + Len(m) = n /\ i > 0 /\ i <= n + Len(c) /\ (i <= n <=> ~(i > n))
      BY <1>1, <1>3
    <3> QED
      BY <3>2, <3>3, <3>4, <3>5
  <2>7. InsertElement(b, 0, n, x) = [width |-> w, len |-> b.len + n, data |-> d]
    BY <2>1, <2>2 DEF Buffers
  <2>8. b.len + n = Len(m \o c) /\ b.len + n <= Len(d)
    BY <1>1, <1>6, <2>1, <2>3, <2>4, <2>5
  <2>9. Holds(InsertElement(b, 0, n, x), w, m \o c)
    BY <1>6, <2>1, <2>5, <2>6, <2>7, <2>8 DEF Holds, Buffers, D
  <2> QED
    BY <2>9 DEF m, fill
<1> QED
  BY <1>7, <1>8

LEMMA PaddingIs ==
  ASSUME NEW len \in Nat, NEW n \in Nat \ {0}
  PROVE  /\ n - (len % n) \in 1 .. n
         /\ n - (len % n) = n => (n - (len % n)) % n = 0
         /\ n - (len % n) # n => (n - (len % n)) % n = n - (len % n)
  BY SMTT(30)

\* A string is filled up to a multiple of the block, on either side.
LEMMA PadsAre ==
  ASSUME NEW b, NEW w \in Widths, NEW c, Holds(b, w, c), NEW n \in Nat \ {0}, NEW x \in Int
  PROVE  /\ Holds(PadLeft(b, n, x), w, Filler(c, n, x, w) \o c)
         /\ Holds(PadRight(b, n, x), w, c \o Filler(c, n, x, w))
<1> DEFINE p == Padding(b, n)
           q == (n - (Len(c) % n)) % n
<1>1. b.len = Len(c) /\ Len(c) \in Nat /\ c \in Seq(0 .. (2 ^ w) - 1) /\ b.width = w
  BY DEF Holds
<1>2. p \in 1 .. n /\ (p = n => q = 0) /\ (p # n => q = p)
  BY <1>1, PaddingIs DEF Padding
<1>3. q \in Nat
  BY <1>2
<1>4. Filler(c, n, x, w) = Masked(w, Repeated(x, q))
  BY DEF Filler, Fitted, Masked, Mask, Repeated
<1> HIDE DEF p, q
<1>5. Repeated(x, q) \in Seq(Int) /\ Repeated(x, p) \in Seq(Int) /\ p \in Nat
  BY <1>2, <1>3, RepeatedIs
<1>6. CASE p = n
  <2>1. Repeated(x, q) = <<>>
    BY <1>2, <1>6 DEF Repeated
  <2>2. Masked(w, Repeated(x, q)) = <<>>
    BY <2>1 DEF Masked
  <2>3. PadLeft(b, n, x) = b /\ PadRight(b, n, x) = b
    BY <1>6 DEF PadLeft, PadRight, p
  <2>4. <<>> \o c = c /\ c \o <<>> = c
    BY <1>1, ConcatEmptySeq
  <2> QED
    BY <1>4, <2>2, <2>3, <2>4
<1>7. CASE p # n
  <2>1. PadLeft(b, n, x) = InsertElement(b, 0, q, x) /\ PadRight(b, n, x) = AppendData(b, Repeated(x, q))
    BY <1>2, <1>7 DEF PadLeft, PadRight, p
  <2> QED
    BY <1>3, <1>4, <1>5, <2>1, InsertElementIs, AppendDataIs
<1> QED
  BY <1>6, <1>7

\* An element written to a place in the string, or added at its end.
Placed(c, i, e) ==
  IF i < Len(c) THEN [c EXCEPT ![i + 1] = e] ELSE IF i = Len(c) THEN Append(c, e) ELSE c

LEMMA PutElementIs ==
  ASSUME NEW b, NEW w \in Widths, NEW c, Holds(b, w, c), NEW i \in Nat, NEW x \in Int
  PROVE  Holds(PutElement(b, i, x), w, Placed(c, i, Mask(w, x)))
<1> DEFINE D == 0 .. (2 ^ w) - 1
           e == Mask(w, x)
           d == Written(b.data, i, <<e>>)
<1>1. /\ b \in Buffers /\ b.width = w /\ c \in Seq(D) /\ b.len = Len(c) /\ Len(c) \in Nat
      /\ b.len <= Len(b.data) /\ \A j \in 1 .. Len(c) : b.data[j] = c[j]
  BY DEF Holds
<1>2. e \in D /\ e \in Cells
  BY ElementsAreBytes DEF Cells, Byte
<1>3. CASE i < Len(c)
  <2>1. PutElement(b, i, x) = [b EXCEPT !.data = d]
    BY <1>1, <1>3 DEF PutElement, SetElement
  <2> HIDE DEF e, D
  <2>2. <<e>> \in Seq(Cells) /\ Len(<<e>>) = 1 /\ <<e>>[1] = e
    BY <1>2
  <2>3. b.data \in Seq(Cells) /\ Len(b.data) \in Nat
    BY <1>1 DEF Buffers
  <2>4. /\ d \in Seq(Cells) /\ Len(d) = Len(b.data)
        /\ \A j \in 1 .. Len(b.data) : d[j]
             = IF j > i /\ j <= i + Len(<<e>>) THEN <<e>>[j - i] ELSE b.data[j]
    BY <2>2, <2>3, WrittenIs
  <2> HIDE DEF d
  <2>5. /\ [c EXCEPT ![i + 1] = e] \in Seq(D) /\ Len([c EXCEPT ![i + 1] = e]) = Len(c)
        /\ \A j \in 1 .. Len(c) : [c EXCEPT ![i + 1] = e][j] = IF j = i + 1 THEN e ELSE c[j]
    <3>1. i + 1 \in 1 .. Len(c)
      BY <1>1, <1>3
    <3> QED
      BY <1>1, <1>2, <3>1, ExceptSeq
  <2>6. \A j \in 1 .. Len(c) : d[j] = [c EXCEPT ![i + 1] = e][j]
    <3> TAKE j \in 1 .. Len(c)
    <3>1. j \in 1 .. Len(b.data)
      BY <1>1, <2>3
    <3>2. CASE j = i + 1
      <4>1. j > i /\ j <= i + Len(<<e>>) /\ j - i = 1
        BY <2>2, <3>2
      <4>2. d[j] = <<e>>[1]
        BY <2>4, <3>1, <4>1
      <4> QED
        BY <2>2, <2>5, <3>2, <4>2
    <3>3. CASE j # i + 1
      <4>1. ~(j > i /\ j <= i + Len(<<e>>))
        BY <2>2, <3>3
      <4> QED
        BY <1>1, <2>4, <2>5, <3>1, <3>3, <4>1
    <3> QED
      BY <3>2, <3>3
  <2>7. PutElement(b, i, x) = [width |-> w, len |-> b.len, data |-> d]
    BY <1>1, <2>1 DEF Buffers
  <2>8. Holds(PutElement(b, i, x), w, [c EXCEPT ![i + 1] = e])
    BY <1>1, <2>4, <2>5, <2>6, <2>7 DEF Holds, Buffers, D
  <2> QED
    BY <1>3, <2>8 DEF Placed, e
<1>4. CASE i = Len(c)
  <2>1. PutElement(b, i, x) = AppendData(b, <<x>>)
    BY <1>1, <1>4 DEF PutElement, Pushback
  <2>2. <<x>> \in Seq(Int)
    OBVIOUS
  <2>3. Holds(AppendData(b, <<x>>), w, c \o Masked(w, <<x>>))
    BY <2>2, AppendDataIs
  <2>4. Masked(w, <<x>>) = <<e>>
    BY DEF Masked
  <2> HIDE DEF e, D
  <2>5. c \o <<e>> = Append(c, e)
    BY <1>1, <1>2, AppendIsConcat
  <2>6. Placed(c, i, e) = Append(c, e)
    BY <1>1, <1>4 DEF Placed
  <2> QED
    BY <2>1, <2>3, <2>4, <2>5, <2>6 DEF e
<1>5. CASE ~(i <= Len(c))
  <2>1. PutElement(b, i, x) = b
    BY <1>1, <1>5 DEF PutElement
  <2>2. Placed(c, i, e) = c
    BY <1>1, <1>5 DEF Placed
  <2> QED
    BY <2>1, <2>2
<1> QED
  BY <1>1, <1>3, <1>4, <1>5

\* Elements are written one after the other.
LEMMA PutsNone ==
  ASSUME NEW b, NEW i \in Int, i < 0, NEW s
  PROVE  Put(b, i, s) = b
  BY DEF Put

LEMMA PutsOne ==
  ASSUME NEW b, NEW i \in Nat, NEW x
  PROVE  Put(b, i, <<x>>) = PutElement(b, i, x)
<1> DEFINE s == <<x>>
           Body(g) == [n \in 0 .. Len(s) |->
                         IF n = 0 THEN b ELSE PutElement(g[n - 1], i + n - 1, s[n])]
           f == [n \in 0 .. Len(s) |-> IF n = 0 THEN b ELSE PutElement(b, i, x)]
           after == CHOOSE g : g = Body(g)
<1>1. Len(s) = 1 /\ s[1] = x /\ i + 1 - 1 = i /\ 1 - 1 = 0
  OBVIOUS
<1>2. f = Body(f)
  BY <1>1
<1>3. after = Body(after)
  <2> HIDE DEF Body, f
  <2> QED
    BY <1>2, Zenon
<1>4. ~(i < 0)
  OBVIOUS
<1>5. Put(b, i, s) = after[Len(s)]
  BY <1>4 DEF Put
<1> HIDE DEF after, s
<1>6. after[0] = b /\ after[1] = PutElement(after[1 - 1], i + 1 - 1, s[1])
  <2>1. 0 \in 0 .. Len(s) /\ 1 \in 0 .. Len(s) /\ 1 # 0
    BY <1>1
  <2> QED
    BY <1>3, <2>1
<1> QED
  BY <1>1, <1>5, <1>6 DEF s

LEMMA PutsTwo ==
  ASSUME NEW b, NEW i \in Nat, NEW x, NEW y
  PROVE  Put(b, i, <<x, y>>) = PutElement(PutElement(b, i, x), i + 1, y)
<1> DEFINE s == <<x, y>>
           Body(g) == [n \in 0 .. Len(s) |->
                         IF n = 0 THEN b ELSE PutElement(g[n - 1], i + n - 1, s[n])]
           one == PutElement(b, i, x)
           f == [n \in 0 .. Len(s) |->
                   IF n = 0 THEN b ELSE IF n = 1 THEN one ELSE PutElement(one, i + 1, y)]
           after == CHOOSE g : g = Body(g)
<1>1. /\ Len(s) = 2 /\ s[1] = x /\ s[2] = y
      /\ i + 1 - 1 = i /\ i + 2 - 1 = i + 1 /\ 1 - 1 = 0 /\ 2 - 1 = 1
  OBVIOUS
<1>2. f = Body(f)
  <2>1. \A n \in 0 .. Len(s) : f[n] = Body(f)[n]
    <3> TAKE n \in 0 .. Len(s)
    <3>1. n = 0 \/ n = 1 \/ n = 2
      BY <1>1
    <3> QED
      BY <1>1, <3>1
  <2>2. f = [n \in 0 .. Len(s) |-> f[n]] /\ Body(f) = [n \in 0 .. Len(s) |-> Body(f)[n]]
    OBVIOUS
  <2> HIDE DEF f, Body
  <2> QED
    BY <2>1, <2>2
<1>3. after = Body(after)
  <2> HIDE DEF Body, f
  <2> QED
    BY <1>2, Zenon
<1>4. ~(i < 0)
  OBVIOUS
<1>5. Put(b, i, s) = after[Len(s)]
  BY <1>4 DEF Put
<1> HIDE DEF after, s
<1>6. /\ after[0] = b
      /\ after[1] = PutElement(after[1 - 1], i + 1 - 1, s[1])
      /\ after[2] = PutElement(after[2 - 1], i + 2 - 1, s[2])
  <2>1. /\ 0 \in 0 .. Len(s) /\ 1 \in 0 .. Len(s) /\ 2 \in 0 .. Len(s)
        /\ 1 # 0 /\ 2 # 0
    BY <1>1
  <2> QED
    BY <1>3, <2>1
<1> QED
  BY <1>1, <1>5, <1>6 DEF s

\* What is promised of it.
LEMMA PutsAre ==
  ASSUME NEW b, NEW w \in Widths, NEW c, Holds(b, w, c),
         NEW i \in 0 .. Len(c), NEW x \in Int, NEW y \in Int
  PROVE  Holds(Put(b, i, <<x, y>>), w, Replaced(c, i, <<x, y>>, w))
<1> DEFINE D == 0 .. (2 ^ w) - 1
           u == Mask(w, x)  v == Mask(w, y)
           one == Placed(c, i, u)
           two == Placed(one, i + 1, v)
           size == IF i + 2 > Len(c) THEN i + 2 ELSE Len(c)
           elem(k) == IF k > i /\ k <= i + 2 THEN <<u, v>>[k - i] ELSE c[k]
<1>1. c \in Seq(D) /\ Len(c) \in Nat /\ i \in Nat /\ i + 1 \in Nat
  BY DEF Holds
<1>2. u \in D /\ v \in D
  BY ElementsAreBytes
<1>3. Holds(Put(b, i, <<x, y>>), w, two)
  <2>1. Put(b, i, <<x, y>>) = PutElement(PutElement(b, i, x), i + 1, y)
    BY <1>1, PutsTwo
  <2>2. Holds(PutElement(b, i, x), w, one)
    BY <1>1, PutElementIs
  <2> HIDE DEF one
  <2> QED
    BY <1>1, <2>1, <2>2, PutElementIs
<1>4. Replaced(c, i, <<x, y>>, w) = [k \in 1 .. size |-> elem(k)]
  <2>1. Fitted(<<x, y>>, w) = <<u, v>>
    BY DEF Fitted, Mask
  <2>2. Len(<<x, y>>) = 2
    OBVIOUS
  <2> HIDE DEF u, v
  <2> QED
    BY <2>1, <2>2 DEF Replaced
<1> HIDE DEF D, u, v
<1>5. /\ one \in Seq(D) /\ Len(one) = IF i = Len(c) THEN i + 1 ELSE Len(c)
      /\ \A k \in 1 .. Len(one) : one[k] = IF k = i + 1 THEN u ELSE c[k]
  <2>1. CASE i < Len(c)
    <3>1. i + 1 \in 1 .. Len(c)
      BY <1>1, <2>1
    <3> QED
      BY <1>1, <1>2, <2>1, <3>1, ExceptSeq DEF Placed
  <2>2. CASE i = Len(c)
    <3>1. one = Append(c, u)
      BY <1>1, <2>2 DEF Placed
    <3> HIDE DEF one
    <3>2. /\ Append(c, u) \in Seq(D) /\ Len(Append(c, u)) = Len(c) + 1
          /\ \A k \in 1 .. Len(c) : Append(c, u)[k] = c[k]
          /\ Append(c, u)[Len(c) + 1] = u
      BY <1>1, <1>2, AppendProperties
    <3> QED
      BY <1>1, <2>2, <3>1, <3>2
  <2> QED
    BY <1>1, <2>1, <2>2
<1> HIDE DEF one
<1>6. /\ two \in Seq(D) /\ Len(two) = size
      /\ \A k \in 1 .. size :
           two[k] = IF k = i + 2 THEN v ELSE IF k = i + 1 THEN u ELSE c[k]
  <2>1. CASE i + 1 < Len(one)
    <3>1. i + 2 \in 1 .. Len(one) /\ (i + 1) + 1 = i + 2 /\ Len(one) = size
      BY <1>1, <1>5, <2>1
    <3>2. two = [one EXCEPT ![i + 2] = v]
      BY <2>1, <3>1 DEF Placed
    <3> HIDE DEF two
    <3>3. /\ [one EXCEPT ![i + 2] = v] \in Seq(D) /\ Len([one EXCEPT ![i + 2] = v]) = Len(one)
          /\ \A k \in 1 .. Len(one) : [one EXCEPT ![i + 2] = v][k] = IF k = i + 2 THEN v ELSE one[k]
      BY <1>2, <1>5, <3>1, ExceptSeq
    <3> QED
      BY <1>5, <3>1, <3>2, <3>3
  <2>2. CASE i + 1 = Len(one)
    <3>1. two = Append(one, v)
      BY <2>2 DEF Placed
    <3> HIDE DEF two
    <3>2. /\ Append(one, v) \in Seq(D) /\ Len(Append(one, v)) = Len(one) + 1
          /\ \A k \in 1 .. Len(one) : Append(one, v)[k] = one[k]
          /\ Append(one, v)[Len(one) + 1] = v
      BY <1>2, <1>5, AppendProperties
    <3>3. size = i + 2 /\ Len(one) + 1 = i + 2
      BY <1>1, <1>5, <2>2
    <3> QED
      BY <1>1, <1>5, <2>2, <3>1, <3>2, <3>3
  <2>3. i + 1 < Len(one) \/ i + 1 = Len(one)
    BY <1>1, <1>5
  <2> QED
    BY <2>1, <2>2, <2>3
<1> HIDE DEF two
<1>7. \A k \in 1 .. size : two[k] = elem(k)
  <2> TAKE k \in 1 .. size
  <2>1. two[k] = IF k = i + 2 THEN v ELSE IF k = i + 1 THEN u ELSE c[k]
    BY <1>6
  <2>2. k \in Int /\ (k > i /\ k <= i + 2 <=> k = i + 1 \/ k = i + 2)
    BY <1>1
  <2>3. k = i + 1 => k - i = 1
    BY <1>1
  <2>4. k = i + 2 => k - i = 2 /\ k # i + 1
    BY <1>1
  <2>5. <<u, v>>[1] = u /\ <<u, v>>[2] = v
    OBVIOUS
  <2> QED
    BY <2>1, <2>2, <2>3, <2>4, <2>5
<1>8. two = [k \in 1 .. size |-> elem(k)]
  <2>1. size \in Nat
    BY <1>1
  <2>2. two = [k \in 1 .. size |-> two[k]]
    BY <1>6, <2>1
  <2> HIDE DEF elem, size
  <2> QED
    BY <1>7, <2>2
<1> QED
  BY <1>3, <1>4, <1>8

LEMMA MadeIsSeq ==
  ASSUME NEW S, NEW m \in Nat, NEW f, f = [i \in 1 .. m |-> f[i]], \A i \in 1 .. m : f[i] \in S
  PROVE  f \in Seq(S) /\ Len(f) = m
  OBVIOUS

\* The exchange of pairs turns a string round, of even and of odd length.
LEMMA InvertIs ==
  ASSUME NEW b, NEW w \in Widths, NEW c, Holds(b, w, c)
  PROVE  Holds(Invert(b), w, Reversed(c))
<1> DEFINE D == 0 .. (2 ^ w) - 1
           half == b.len \div 2
           swaps(i) == i \in 1 .. half \/ (i <= b.len /\ b.len + 1 - i <= half)
           d == [i \in DOMAIN b.data |-> IF swaps(i) THEN b.data[b.len + 1 - i] ELSE b.data[i]]
           n == Len(c)
<1>1. /\ b \in Buffers /\ b.width = w /\ c \in Seq(D) /\ b.len = n /\ n \in Nat
      /\ b.len <= Len(b.data) /\ \A j \in 1 .. n : b.data[j] = c[j]
  BY DEF Holds
<1>2. b.data \in Seq(Cells) /\ Len(b.data) \in Nat /\ DOMAIN b.data = 1 .. Len(b.data)
  BY <1>1 DEF Buffers
<1>3. Invert(b) = [b EXCEPT !.data = d]
  BY DEF Invert
<1> HIDE DEF D
<1>4. \A i \in 1 .. n : swaps(i) \/ i = n + 1 - i
  BY <1>1
<1>5. \A i \in 1 .. Len(b.data) : swaps(i) => i \in 1 .. n
  BY <1>1, <1>2
<1>6. \A i \in 1 .. Len(b.data) : d[i] = IF swaps(i) THEN b.data[n + 1 - i] ELSE b.data[i]
  BY <1>1, <1>2
<1>7. d \in Seq(Cells) /\ Len(d) = Len(b.data)
  <2>1. \A i \in 1 .. Len(b.data) : d[i] \in Cells
    <3> TAKE i \in 1 .. Len(b.data)
    <3> HIDE DEF d
    <3>1. CASE swaps(i)
      <4>1. n + 1 - i \in 1 .. Len(b.data)
        BY <1>1, <1>2, <1>5, <3>1
      <4> QED
        BY <1>2, <1>6, <3>1, <4>1
    <3>2. CASE ~swaps(i)
      <4> HIDE DEF swaps
      <4> QED
        BY <1>2, <1>6, <3>2
    <3> QED
      BY <3>1, <3>2
  <2>2. d = [i \in 1 .. Len(b.data) |-> d[i]]
    BY <1>2
  <2> HIDE DEF d
  <2>3. d \in Seq(Cells) /\ Len(d) = Len(b.data)
    BY <1>2, <2>1, <2>2, MadeIsSeq
  <2> QED
    BY <2>3
<1> HIDE DEF d
<1>8. Reversed(c) = [i \in 1 .. n |-> c[n + 1 - i]]
  <2>1. Reversed(c) = [i \in 1 .. n |-> c[(n - i) + 1]]
    BY DEF Reversed, Reverse
  <2>2. \A i \in 1 .. n : (n - i) + 1 = n + 1 - i
    BY <1>1
  <2> QED
    BY <2>1, <2>2
<1>9. \A i \in 1 .. n : n + 1 - i \in 1 .. n
  BY <1>1
<1>10. /\ Reversed(c) \in Seq(D) /\ Len(Reversed(c)) = n
       /\ \A i \in 1 .. n : Reversed(c)[i] = c[n + 1 - i]
  BY <1>1, <1>8, <1>9
<1>11. \A i \in 1 .. n : d[i] = Reversed(c)[i]
  <2> TAKE i \in 1 .. n
  <2>1. i \in 1 .. Len(b.data)
    BY <1>1, <1>2
  <2>2. d[i] = b.data[n + 1 - i]
    <3> HIDE DEF swaps
    <3> QED
      BY <1>4, <1>6, <2>1
  <2> QED
    BY <1>1, <1>9, <1>10, <2>2
<1>12. Invert(b) = [width |-> w, len |-> n, data |-> d]
  BY <1>1, <1>3 DEF Buffers
<1> QED
  BY <1>1, <1>7, <1>10, <1>11, <1>12 DEF Holds, Buffers, D

\* A part of a string.
LEMMA SubstrIs ==
  ASSUME NEW b, NEW w \in Widths, NEW c, Holds(b, w, c),
         NEW pos \in 0 .. Len(c), NEW m \in Nat
  PROVE  Holds(Substr(pos, m, b), w,
               SubSeq(c, pos + 1, pos + (IF pos + m > Len(c) THEN Len(c) - pos ELSE m)))
<1> DEFINE D == 0 .. (2 ^ w) - 1
           taken == IF pos + m > Len(c) THEN Len(c) - pos ELSE m
           part == SubSeq(c, pos + 1, pos + taken)
<1>1. /\ b \in Buffers /\ b.width = w /\ c \in Seq(D) /\ b.len = Len(c) /\ Len(c) \in Nat
      /\ b.len <= Len(b.data) /\ \A j \in 1 .. Len(c) : b.data[j] = c[j]
  BY DEF Holds
<1>2. b.data \in Seq(Cells) /\ Len(b.data) \in Nat
  BY <1>1 DEF Buffers
<1>3. taken \in Nat /\ pos + taken <= Len(c)
  BY <1>1
<1>4. Substr(pos, m, b) = AssignData(New(w), SubSeq(b.data, pos + 1, pos + taken))
  BY <1>1 DEF Substr
<1> HIDE DEF D, taken
<1>5. SubSeq(b.data, pos + 1, pos + taken) = part
  <2>1. \A i \in 1 .. taken : b.data[pos + 1 + i - 1] = c[pos + 1 + i - 1]
    BY <1>1, <1>3
  <2>2. SubSeq(b.data, pos + 1, pos + taken)
          = [i \in 1 .. pos + taken - (pos + 1) + 1 |-> b.data[pos + 1 + i - 1]]
    BY <1>1, <1>2, <1>3
  <2>3. part = [i \in 1 .. pos + taken - (pos + 1) + 1 |-> c[pos + 1 + i - 1]]
    BY <1>1, <1>3, SMTT(20)
  <2>4. pos + taken - (pos + 1) + 1 = taken
    BY <1>3
  <2> HIDE DEF part
  <2> QED
    BY <2>1, <2>2, <2>3, <2>4
<1>6. part \in Seq(D)
  BY <1>1, <1>3
<1> HIDE DEF part
<1>7. part \in Seq(Int) /\ Masked(w, part) = part
  BY <1>6, MaskedSame DEF D
<1>8. New(w) \in Buffers /\ New(w).width = w
  BY NewIs DEF New
<1>9. Holds(AssignData(New(w), part), w, Masked(w, part))
  BY <1>7, <1>8, AssignDataIs
<1> QED
  BY <1>4, <1>5, <1>7, <1>9 DEF part, taken

\* bytes.sub() takes the elements between two indexes.
LEMMA SubIs ==
  ASSUME NEW b, NEW w \in Widths, NEW c, Holds(b, w, c), NEW i \in Int, NEW j \in Int
  PROVE  \/ Sub(b, i, j) = Nil /\ Between(c, i, j, Nil) = Nil
         \/ Holds(Sub(b, i, j), w, Between(c, i, j, Nil))
<1> DEFINE n == Len(c)
           from == IF i < 0 THEN n + i ELSE i
           to == IF j < 0 THEN n + j ELSE j
           among == {q \in 1 .. n : q - 1 \in from .. to}
<1>1. b.len = n /\ n \in Nat /\ c \in Seq(0 .. (2 ^ w) - 1)
  BY DEF Holds
<1>2. from \in Int /\ to \in Int
  BY <1>1
<1>3. /\ Sub(b, i, j) = IF from > to \/ from < 0 \/ from > n THEN Nil
                        ELSE Substr(from, to - from + 1, b)
      /\ Between(c, i, j, Nil)
           = IF from < 0 \/ from > n \/ from > to THEN Nil
             ELSE [k \in 1 .. Cardinality(among) |-> c[from + k]]
  BY <1>1 DEF Sub, Between
<1> HIDE DEF from, to
<1>4. CASE from > to \/ from < 0 \/ from > n
  BY <1>3, <1>4
<1>5. CASE ~(from > to \/ from < 0 \/ from > n)
  <2> DEFINE m == to - from + 1
             taken == IF from + m > n THEN n - from ELSE m
             part == SubSeq(c, from + 1, from + taken)
  <2>1. from \in 0 .. n /\ m \in Nat
    BY <1>1, <1>2, <1>5
  <2>2. Holds(Substr(from, m, b), w, part)
    <3> HIDE DEF m
    <3> QED
      BY <2>1, SubstrIs
  <2>3. /\ taken \in Nat /\ from + taken <= n
        /\ among = (from + 1) .. (from + taken)
    BY <1>1, <1>2, <1>5
  <2>4. Cardinality(among) = taken
    <3> HIDE DEF taken, among
    <3>1. from + 1 \in Int /\ from + taken \in Int
      BY <1>2, <2>3
    <3>2. Cardinality((from + 1) .. (from + taken))
            = IF from + 1 > from + taken THEN 0 ELSE (from + taken) - (from + 1) + 1
      BY <3>1, FS_Interval
    <3> QED
      BY <1>2, <2>3, <3>2
  <2>5. part = [k \in 1 .. taken |-> c[from + k]]
    <3> HIDE DEF taken
    <3>1. part = [k \in 1 .. from + taken - (from + 1) + 1 |-> c[from + 1 + k - 1]]
      BY <1>1, <1>2, <2>1, <2>3
    <3>2. from + taken - (from + 1) + 1 = taken
      BY <1>2, <2>3
    <3>3. \A k \in 1 .. taken : from + 1 + k - 1 = from + k
      BY <1>2, <2>3
    <3> HIDE DEF part
    <3> QED
      BY <3>1, <3>2, <3>3
  <2>6. Between(c, i, j, Nil) = part /\ Sub(b, i, j) = Substr(from, m, b)
    <3> HIDE DEF part, taken, among
    <3> QED
      BY <1>3, <1>5, <2>4, <2>5
  <2> QED
    BY <2>2, <2>6
<1> QED
  BY <1>4, <1>5

\* An element that there is is read, by its index and in turn.
LEMMA GetIs ==
  ASSUME NEW b, NEW w \in Widths, NEW c, Holds(b, w, c),
         NEW i \in 0 .. Len(c) - 1
  PROVE  /\ GetElement(b, i) = c[i + 1] /\ Get(b, i, Nil) = <<c[i + 1]>>
         /\ \A j \in i .. Len(c) - 1 : Head(Get(b, i, j)) = c[i + 1]
<1>1. /\ b.len = Len(c) /\ Len(c) \in Nat /\ i \in Nat /\ i < Len(c)
      /\ \A j \in 1 .. Len(c) : b.data[j] = c[j]
  BY DEF Holds
<1>2. i + 1 \in 1 .. Len(c)
  BY <1>1
<1>3. GetElement(b, i) = c[i + 1]
  BY <1>1, <1>2 DEF GetElement
<1>4. i # Nil /\ ~(i < 0) /\ ~(i >= b.len)
  BY <1>1, BytesAssumption
<1>5. Get(b, i, Nil) = [k \in 1 .. i - i + 1 |-> GetElement(b, i + k - 1)]
  <2> DEFINE from == IF i = Nil \/ i < 0 THEN 0 ELSE i
             last == from
  <2>1. from = i /\ last = i /\ ~(i < i)
    BY <1>1, <1>4
  <2>2. Get(b, i, Nil) = IF last < from THEN <<Nil>>
          ELSE [k \in 1 .. last - from + 1 |-> GetElement(b, from + k - 1)]
    BY DEF Get
  <2> HIDE DEF from, last
  <2> QED
    BY <2>1, <2>2
<1>6. i - i + 1 = 1 /\ i + 1 - 1 = i
  BY <1>1
<1>7. [k \in 1 .. 1 |-> GetElement(b, i + k - 1)] = <<GetElement(b, i)>>
  BY <1>6
<1>8. ASSUME NEW j \in i .. Len(c) - 1
      PROVE  Get(b, i, j) = [k \in 1 .. i - i + 1 |-> GetElement(b, i + k - 1)]
  <2> DEFINE from == IF i = Nil \/ i < 0 THEN 0 ELSE i
             last == IF j = Nil THEN from ELSE IF i >= b.len THEN b.len - 1 ELSE i
  <2>1. from = i /\ last = i /\ ~(i < i)
    BY <1>1, <1>4
  <2>2. Get(b, i, j) = IF last < from THEN <<Nil>>
          ELSE [k \in 1 .. last - from + 1 |-> GetElement(b, from + k - 1)]
    BY DEF Get
  <2> HIDE DEF from, last
  <2> QED
    BY <2>1, <2>2
<1>9. Head(<<GetElement(b, i)>>) = GetElement(b, i)
  OBVIOUS
<1> QED
  BY <1>3, <1>5, <1>6, <1>7, <1>8, <1>9

LEMMA PairsAre ==
  ASSUME NEW b, NEW w \in Widths, NEW c, Holds(b, w, c)
  PROVE  Pairs(b) = [k \in 1 .. b.len |-> <<k - 1, c[k]>>]
<1> DEFINE n == b.len
           Body(g) == [k \in 0 .. n |->
                         IF k = 0 THEN <<>> ELSE Append(g[k - 1], <<k - 1, GetElement(b, k - 1)>>)]
           Upto(m) == [k \in 1 .. m |-> <<k - 1, c[k]>>]
           f == [m \in 0 .. n |-> Upto(m)]
           given == CHOOSE g : g = Body(g)
<1>1. n = Len(c) /\ n \in Nat
  BY DEF Holds
<1> HIDE DEF n
<1>2. Upto(0) = <<>>
  OBVIOUS
<1>3. \A m \in 1 .. n : Upto(m) = Append(Upto(m - 1), <<m - 1, GetElement(b, m - 1)>>)
  <2> TAKE m \in 1 .. n
  <2>1. GetElement(b, m - 1) = c[m]
    <3>1. m - 1 \in 0 .. Len(c) - 1 /\ (m - 1) + 1 = m
      BY <1>1
    <3> QED
      BY <3>1, GetIs
  <2> DEFINE S == {<<k - 1, c[k]>> : k \in 1 .. n}
             e == <<m - 1, c[m]>>
  <2>2. Upto(m - 1) \in Seq(S) /\ Len(Upto(m - 1)) = m - 1 /\ e \in S
    <3>1. m - 1 \in Nat /\ \A k \in 1 .. m - 1 : k \in 1 .. n
      BY <1>1
    <3>2. e \in S
      BY <1>1
    <3>3. \A k \in 1 .. m - 1 : <<k - 1, c[k]>> \in S
      BY <3>1
    <3> HIDE DEF S
    <3> QED
      BY <3>1, <3>2, <3>3
  <2>3. Upto(m) \in Seq(S) /\ Len(Upto(m)) = m
    <3>1. m \in Nat /\ \A k \in 1 .. m : k \in 1 .. n
      BY <1>1
    <3>2. \A k \in 1 .. m : <<k - 1, c[k]>> \in S
      BY <3>1
    <3> HIDE DEF S
    <3> QED
      BY <3>1, <3>2
  <2>4. \A k \in 1 .. m - 1 : Upto(m)[k] = Upto(m - 1)[k]
    BY <1>1
  <2>5. Upto(m)[m] = e
    BY <1>1
  <2> HIDE DEF S, e, Upto
  <2>6. /\ Append(Upto(m - 1), e) \in Seq(S) /\ Len(Append(Upto(m - 1), e)) = (m - 1) + 1
        /\ \A k \in 1 .. m - 1 : Append(Upto(m - 1), e)[k] = Upto(m - 1)[k]
        /\ Append(Upto(m - 1), e)[(m - 1) + 1] = e
    BY <2>2, AppendProperties
  <2>7. (m - 1) + 1 = m /\ \A k \in 1 .. m : k \in 1 .. m - 1 \/ k = m
    BY <1>1
  <2>8. \A k \in 1 .. m : Upto(m)[k] = Append(Upto(m - 1), e)[k]
    BY <2>4, <2>5, <2>6, <2>7
  <2>9. Upto(m) = Append(Upto(m - 1), e)
    BY <2>3, <2>6, <2>7, <2>8, SeqEqual
  <2> QED
    BY <2>1, <2>9 DEF e
<1> HIDE DEF Upto
<1>4. f = Body(f)
  <2>1. \A k \in 0 .. n : f[k] = Body(f)[k]
    <3> TAKE k \in 0 .. n
    <3>1. CASE k = 0
      BY <1>2, <3>1
    <3>2. CASE k # 0
      <4>1. k \in 1 .. n /\ k - 1 \in 0 .. n
        BY <1>1, <3>2
      <4> QED
        BY <1>3, <3>2, <4>1
    <3> QED
      BY <3>1, <3>2
  <2>2. f = [k \in 0 .. n |-> f[k]] /\ Body(f) = [k \in 0 .. n |-> Body(f)[k]]
    OBVIOUS
  <2> HIDE DEF f, Body
  <2> QED
    BY <2>1, <2>2
<1>5. given = Body(given)
  <2> HIDE DEF Body, f
  <2> QED
    BY <1>4, Zenon
<1>6. Pairs(b) = given[n]
  BY DEF Pairs, n
<1> HIDE DEF given
<1>7. \A k \in 0 .. n :
        given[k] = IF k = 0 THEN <<>> ELSE Append(given[k - 1], <<k - 1, GetElement(b, k - 1)>>)
  BY <1>5
<1>8. \A k \in Nat : k <= n => given[k] = Upto(k)
  <2> DEFINE S == {k \in Nat : k <= n => given[k] = Upto(k)}
  <2>1. 0 \in S
    <3>1. 0 \in 0 .. n
      BY <1>1
    <3>2. given[0] = Upto(0)
      BY <1>2, <1>7, <3>1
    <3> QED
      BY <3>2
  <2>2. ASSUME NEW k \in Nat, k \in S PROVE k + 1 \in S
    <3>1. ASSUME k + 1 <= n PROVE given[k + 1] = Upto(k + 1)
      <4>1. k + 1 \in 1 .. n /\ k + 1 \in 0 .. n /\ k + 1 # 0 /\ (k + 1) - 1 = k /\ k <= n
        BY <1>1, <3>1
      <4>2. given[k + 1] = Append(given[k], <<k, GetElement(b, k)>>)
        BY <1>7, <4>1
      <4>3. given[k] = Upto(k)
        BY <2>2, <4>1
      <4>4. Upto(k + 1) = Append(Upto(k), <<k, GetElement(b, k)>>)
        BY <1>3, <4>1
      <4> QED
        BY <4>2, <4>3, <4>4
    <3> QED
      BY <3>1
  <2>3. \A k \in Nat : k \in S
    <3> HIDE DEF S
    <3> QED
      BY <2>1, <2>2, NatSetInduction
  <2> QED
    BY <2>3
<1>9. given[n] = Upto(n)
  BY <1>1, <1>8
<1> QED
  BY <1>6, <1>9 DEF Upto, n

-------------------------------------------------------------------------------
(***************************************************************************)
(* Loops over the elements of a sequence: a function is defined by what a  *)
(* step makes of the value before it.                                      *)
(***************************************************************************)
Runs(g, n, v0, step) ==
  g[0] = v0 /\ \A k \in 1 .. n : g[k] = step[k][g[k - 1]]

LEMMA Recursion ==
  ASSUME NEW V, NEW v0 \in V, NEW n \in Nat, NEW step \in [1 .. n -> [V -> V]]
  PROVE  \E g \in [0 .. n -> V] : Runs(g, n, v0, step)
<1> DEFINE S == {m \in Nat : m <= n => \E g \in [0 .. m -> V] : Runs(g, m, v0, step)}
<1>1. 0 \in S
  <2> DEFINE g == [k \in 0 .. 0 |-> v0]
  <2>1. g \in [0 .. 0 -> V] /\ Runs(g, 0, v0, step)
    BY DEF Runs
  <2> HIDE DEF g
  <2> QED
    BY <2>1
<1>2. ASSUME NEW m \in Nat, m \in S PROVE m + 1 \in S
  <2> SUFFICES ASSUME m + 1 <= n
               PROVE  \E g \in [0 .. m + 1 -> V] : Runs(g, m + 1, v0, step)
    OBVIOUS
  <2>1. m <= n
    OBVIOUS
  <2>2. PICK g \in [0 .. m -> V] : Runs(g, m, v0, step)
    BY <1>2, <2>1
  <2> DEFINE h == [k \in 0 .. m + 1 |-> IF k <= m THEN g[k] ELSE step[m + 1][g[m]]]
  <2>3. m + 1 \in 1 .. n /\ m \in 0 .. m /\ step[m + 1] \in [V -> V] /\ g[m] \in V
    OBVIOUS
  <2>4. h \in [0 .. m + 1 -> V]
    BY <2>3
  <2>5. ASSUME NEW k \in 1 .. m + 1 PROVE h[k] = step[k][h[k - 1]]
    <3>1. k - 1 \in 0 .. m + 1 /\ k \in 0 .. m + 1 /\ k - 1 <= m
      OBVIOUS
    <3>2. h[k - 1] = g[k - 1]
      BY <3>1
    <3>3. CASE k <= m
      <4>1. k \in 1 .. m
        BY <3>3
      <4>2. g[k] = step[k][g[k - 1]]
        BY <2>2, <4>1 DEF Runs
      <4> QED
        BY <3>1, <3>2, <3>3, <4>2
    <3>4. CASE ~(k <= m)
      <4>1. k = m + 1 /\ k - 1 = m
        BY <3>4
      <4> QED
        BY <3>1, <3>2, <3>4, <4>1
    <3> QED
      BY <3>3, <3>4
  <2>6. h[0] = v0
    BY <2>2 DEF Runs
  <2> HIDE DEF h
  <2>7. Runs(h, m + 1, v0, step)
    BY <2>5, <2>6 DEF Runs
  <2> QED
    BY <2>4, <2>7
<1>3. \A m \in Nat : m \in S
  <2> HIDE DEF S
  <2> QED
    BY <1>1, <1>2, NatSetInduction
<1> QED
  BY <1>3

\* Whatever runs through the steps has the values that they give.
LEMMA RunsAre ==
  ASSUME NEW V, NEW v0 \in V, NEW n \in Nat, NEW step \in [1 .. n -> [V -> V]],
         NEW g, g[0] = v0, \A k \in 1 .. n : g[k - 1] \in V => g[k] = step[k][g[k - 1]]
  PROVE  \A k \in 0 .. n : g[k] \in V
<1> DEFINE S == {k \in Nat : k <= n => g[k] \in V}
<1>1. 0 \in S
  OBVIOUS
<1>2. ASSUME NEW k \in Nat, k \in S PROVE k + 1 \in S
  <2> SUFFICES ASSUME k + 1 <= n PROVE g[k + 1] \in V
    OBVIOUS
  <2>1. k + 1 \in 1 .. n /\ (k + 1) - 1 = k /\ g[k] \in V
    BY <1>2
  <2>2. g[k + 1] = step[k + 1][g[k]]
    BY <2>1
  <2>3. step[k + 1] \in [V -> V]
    BY <2>1
  <2> QED
    BY <2>1, <2>2, <2>3
<1>3. \A k \in Nat : k \in S
  <2> HIDE DEF S
  <2> QED
    BY <1>1, <1>2, NatSetInduction
<1> QED
  BY <1>3

\* The digits of a text: one character after the other is taken, or passed over.
LEMMA DigitsRun ==
  ASSUME NEW str \in Seq(Nat)
  PROVE  \E g : /\ DigitsOf(str) = g[Len(str)]
                /\ \A k \in 0 .. Len(str) : g[k] \in Seq(0 .. 15)
                /\ g[0] = <<>>
                /\ \A k \in 1 .. Len(str) :
                     g[k] = IF IsDigit(str[k]) THEN Append(g[k - 1], str[k]) ELSE g[k - 1]
<1> DEFINE V == Seq(0 .. 15)
           n == Len(str)
           Body(g) == [k \in 0 .. n |->
                         IF k = 0 THEN <<>>
                         ELSE IF IsDigit(str[k]) THEN Append(g[k - 1], str[k]) ELSE g[k - 1]]
           step == [k \in 1 .. n |->
                      [d \in V |-> IF IsDigit(str[k]) THEN Append(d, str[k]) ELSE d]]
           digits == CHOOSE g : g = Body(g)
<1>1. n \in Nat /\ <<>> \in V
  OBVIOUS
<1>2. step \in [1 .. n -> [V -> V]]
  <2>1. ASSUME NEW k \in 1 .. n, NEW d \in V
        PROVE  (IF IsDigit(str[k]) THEN Append(d, str[k]) ELSE d) \in V
    <3>1. IsDigit(str[k]) => str[k] \in 0 .. 15
      BY DEF IsDigit
    <3> QED
      BY <3>1
  <2> HIDE DEF V
  <2> QED
    BY <2>1
<1> HIDE DEF V
<1>3. \E g : g = Body(g)
  <2>1. PICK g \in [0 .. n -> V] : Runs(g, n, <<>>, step)
    <3> HIDE DEF step, n
    <3> QED
      BY <1>1, <1>2, Recursion
  <2>2. \A k \in 0 .. n : g[k] = Body(g)[k]
    <3> TAKE k \in 0 .. n
    <3>1. CASE k = 0
      BY <2>1, <3>1 DEF Runs
    <3>2. CASE k # 0
      <4>1. k \in 1 .. n /\ k - 1 \in 0 .. n /\ g[k - 1] \in V
        BY <1>1, <3>2
      <4>2. g[k] = step[k][g[k - 1]]
        BY <2>1, <4>1 DEF Runs
      <4> QED
        BY <3>2, <4>1, <4>2
    <3> QED
      BY <3>1, <3>2
  <2>3. g = [k \in 0 .. n |-> g[k]] /\ Body(g) = [k \in 0 .. n |-> Body(g)[k]]
    OBVIOUS
  <2>4. g = Body(g)
    <3> HIDE DEF Body
    <3> QED
      BY <2>2, <2>3
  <2> QED
    BY <2>4
<1>4. digits = Body(digits)
  <2> HIDE DEF Body
  <2> QED
    BY <1>3, Zenon
<1>5. DigitsOf(str) = digits[n]
  BY DEF DigitsOf
<1> HIDE DEF digits
<1>6. /\ digits[0] = <<>>
      /\ \A k \in 1 .. n : digits[k - 1] \in V => digits[k] = step[k][digits[k - 1]]
  <2>1. digits[0] = <<>>
    <3>1. 0 \in 0 .. n
      BY <1>1
    <3> QED
      BY <1>4, <3>1
  <2>2. ASSUME NEW k \in 1 .. n, digits[k - 1] \in V
        PROVE  digits[k] = step[k][digits[k - 1]]
    <3>1. k \in 0 .. n /\ k # 0
      BY <1>1
    <3>2. digits[k] = IF IsDigit(str[k]) THEN Append(digits[k - 1], str[k]) ELSE digits[k - 1]
      BY <1>4, <3>1
    <3> QED
      BY <2>2, <3>2
  <2> QED
    BY <2>1, <2>2
<1>7. \A k \in 0 .. n : digits[k] \in V
  <2> HIDE DEF step, n
  <2> QED
    BY <1>1, <1>2, <1>6, RunsAre
<1>8. \A k \in 1 .. n :
        digits[k] = IF IsDigit(str[k]) THEN Append(digits[k - 1], str[k]) ELSE digits[k - 1]
  <2> TAKE k \in 1 .. n
  <2>1. k \in 0 .. n /\ k # 0
    BY <1>1
  <2> QED
    BY <1>4, <2>1
<1>9. digits[0] = <<>>
  BY <1>6
<1> HIDE DEF step
<1> QED
  BY <1>5, <1>7, <1>8, <1>9, Zenon DEF V

LEMMA DigitsAre ==
  ASSUME NEW str \in Seq(Nat)
  PROVE  DigitsOf(str) \in Seq(0 .. 15)
<1>1. PICK g : DigitsOf(str) = g[Len(str)] /\ \A k \in 0 .. Len(str) : g[k] \in Seq(0 .. 15)
  BY DigitsRun
<1>2. Len(str) \in 0 .. Len(str)
  OBVIOUS
<1> QED
  BY <1>1, <1>2, Zenon

\* A text of digits alone is its digits.
LEMMA DigitsAlone ==
  ASSUME NEW str \in Seq(0 .. 15)
  PROVE  DigitsOf(str) = str
<1> DEFINE n == Len(str)
<1>1. n \in Nat /\ str \in Seq(Nat)
  <2>1. 0 .. 15 \subseteq Nat
    OBVIOUS
  <2> QED
    BY <2>1, SeqMonotonic
<1>2. PICK g : /\ DigitsOf(str) = g[n] /\ g[0] = <<>>
               /\ \A k \in 1 .. n :
                    g[k] = IF IsDigit(str[k]) THEN Append(g[k - 1], str[k]) ELSE g[k - 1]
  <2>1. \E g : /\ DigitsOf(str) = g[n]
               /\ \A k \in 0 .. n : g[k] \in Seq(0 .. 15)
               /\ g[0] = <<>>
               /\ \A k \in 1 .. n :
                    g[k] = IF IsDigit(str[k]) THEN Append(g[k - 1], str[k]) ELSE g[k - 1]
    BY <1>1, DigitsRun
  <2> QED
    BY <2>1, Zenon
<1>3. \A k \in 1 .. n : g[k] = Append(g[k - 1], str[k])
  <2> TAKE k \in 1 .. n
  <2>1. str[k] \in 0 .. 15
    OBVIOUS
  <2> QED
    BY <1>2, <2>1 DEF IsDigit
<1> DEFINE first(k) == [i \in 1 .. k |-> str[i]]
           S == {k \in Nat : k <= n => g[k] = first(k)}
<1>4. 0 \in S
  <2>1. first(0) = <<>>
    OBVIOUS
  <2> QED
    BY <1>2, <2>1
<1>5. ASSUME NEW k \in Nat, k \in S PROVE k + 1 \in S
  <2> SUFFICES ASSUME k + 1 <= n PROVE g[k + 1] = first(k + 1)
    OBVIOUS
  <2>1. k + 1 \in 1 .. n /\ (k + 1) - 1 = k /\ g[k] = first(k)
    BY <1>1, <1>5
  <2>2. g[k + 1] = Append(first(k), str[k + 1])
    BY <1>3, <2>1
  <2>3. first(k) \in Seq(0 .. 15) /\ Len(first(k)) = k /\ \A i \in 1 .. k : first(k)[i] = str[i]
    BY <1>1, <2>1
  <2>4. first(k + 1) \in Seq(0 .. 15) /\ Len(first(k + 1)) = k + 1
        /\ \A i \in 1 .. k + 1 : first(k + 1)[i] = str[i]
    BY <1>1, <2>1
  <2>5. str[k + 1] \in 0 .. 15
    BY <2>1
  <2> DEFINE a == first(k)  b == first(k + 1)  e == str[k + 1]  D == 0 .. 15
  <2>6. a \in Seq(D) /\ b \in Seq(D) /\ e \in D /\ Len(a) = k /\ Len(b) = k + 1
        /\ (\A i \in 1 .. k : a[i] = str[i]) /\ \A i \in 1 .. k + 1 : b[i] = str[i]
    BY <2>3, <2>4, <2>5
  <2> HIDE DEF a, b, D
  <2>7. Append(a, e) \in Seq(D) /\ Len(Append(a, e)) = k + 1
        /\ \A i \in 1 .. k + 1 : Append(a, e)[i] = IF i = k + 1 THEN e ELSE a[i]
    <3> HIDE DEF e
    <3> QED
      BY <2>6
  <2>8. \A i \in 1 .. Len(b) : Append(a, e)[i] = b[i]
    <3> TAKE i \in 1 .. Len(b)
    <3>1. i \in 1 .. k + 1 /\ (i = k + 1 \/ i \in 1 .. k)
      BY <2>6
    <3> QED
      BY <2>6, <2>7, <3>1
  <2>9. Append(a, e) = b
    BY <2>6, <2>7, <2>8, SeqEqual
  <2> QED
    BY <2>2, <2>9 DEF a, b
<1>6. \A k \in Nat : k \in S
  <2> HIDE DEF S
  <2> QED
    BY <1>4, <1>5, NatSetInduction
<1>7. g[n] = first(n)
  BY <1>1, <1>6
<1>8. first(n) = str
  OBVIOUS
<1> QED
  BY <1>2, <1>7, <1>8

-------------------------------------------------------------------------------
(***************************************************************************)
(* What the operations of bytes and asn1 give are strings with elements of *)
(* their width.                                                            *)
(***************************************************************************)
Sound(b) == \E w \in Widths : \E c : Holds(b, w, c)

LEMMA SoundIs ==
  ASSUME NEW b
  PROVE  Sound(b) <=> b \in Buffers /\ IsBytestring(b)
<1>1. ASSUME NEW w \in Widths, NEW c, Holds(b, w, c)
      PROVE  b \in Buffers /\ IsBytestring(b)
  <2>1. /\ b \in Buffers /\ b.width = w /\ c \in Seq(0 .. (2 ^ w) - 1)
        /\ b.len = Len(c) /\ b.len <= Len(b.data)
        /\ \A i \in 1 .. Len(c) : b.data[i] = c[i]
    BY <1>1 DEF Holds
  <2>2. \A i \in 1 .. Len(c) : c[i] \in 0 .. (2 ^ w) - 1
    <3> TAKE i \in 1 .. Len(c)
    <3> QED
      BY <2>1, ElementOfSeq
  <2> QED
    BY <2>1, <2>2 DEF IsBytestring
<1>2. ASSUME b \in Buffers, IsBytestring(b)
      PROVE  Sound(b)
  <2> DEFINE w == b.width
             D == 0 .. (2 ^ w) - 1
             c == [i \in 1 .. b.len |-> b.data[i]]
  <2>1. w \in Widths /\ b.len \in Nat /\ b.len <= Len(b.data) /\ \A i \in 1 .. b.len : b.data[i] \in D
    BY <1>2 DEF Buffers, IsBytestring
  <2> HIDE DEF D
  <2>2. c \in Seq(D) /\ Len(c) = b.len /\ \A i \in 1 .. b.len : c[i] = b.data[i]
    BY <2>1
  <2> HIDE DEF c
  <2>3. Holds(b, w, c)
    BY <1>2, <2>1, <2>2 DEF Holds, D
  <2> QED
    BY <2>1, <2>3 DEF Sound
<1> QED
  BY <1>1, <1>2 DEF Sound

\* The content of any string is a sequence of bytes, which are numbers.
LEMMA SoundContent ==
  ASSUME NEW b, Sound(b)
  PROVE  /\ Content(b) \in Seq(Byte) /\ Content(b) \in Seq(Int) /\ Content(b) \in Seq(Nat)
         /\ Len(Content(b)) = b.len /\ b.len \in Nat /\ b.width \in Widths
         /\ Holds(b, b.width, Content(b))
<1>0. PICK w \in Widths : \E c : Holds(b, w, c)
  BY DEF Sound
<1>1. PICK c : w \in Widths /\ Holds(b, w, c)
  BY <1>0
<1>2. Content(b) = c /\ b.width = w /\ c \in Seq(0 .. (2 ^ w) - 1) /\ b.len = Len(c)
  BY <1>1, ContentIs DEF Holds
<1>3. 0 .. (2 ^ w) - 1 \subseteq Byte
  BY ElementsAreBytes
<1> HIDE <1>1
<1>4. Content(b) \in Seq(Byte)
  BY <1>2, <1>3, SeqMonotonic
<1>5. Byte \subseteq Int /\ Byte \subseteq Nat
  BY DEF Byte
<1>6. Content(b) \in Seq(Int) /\ Content(b) \in Seq(Nat)
  BY <1>4, <1>5, SeqMonotonic
<1>7. Len(Content(b)) \in Nat
  BY <1>4
<1> QED
  BY <1>1, <1>2, <1>4, <1>6, <1>7

LEMMA SoundAppend ==
  ASSUME NEW b, Sound(b), NEW s \in Seq(Int)
  PROVE  Sound(AppendData(b, s)) /\ AppendData(b, s).width = b.width
<1>0. PICK w \in Widths : \E c : Holds(b, w, c)
  BY DEF Sound
<1>1. PICK c : w \in Widths /\ Holds(b, w, c)
  BY <1>0
<1>2. Holds(AppendData(b, s), w, c \o Masked(w, s))
  BY <1>1, AppendDataIs
<1>3. AppendData(b, s).width = w /\ b.width = w
  BY <1>1, <1>2 DEF Holds
<1> QED
  BY <1>2, <1>3 DEF Sound

LEMMA SoundNew ==
  ASSUME NEW w \in Widths
  PROVE  Sound(New(w)) /\ New(w).width = w
<1>1. Holds(New(w), w, <<>>)
  BY NewIs
<1> QED
  BY <1>1 DEF Sound, Holds

LEMMA SoundAssign ==
  ASSUME NEW w \in Widths, NEW s \in Seq(Int)
  PROVE  Sound(AssignData(New(w), s))
<1>1. New(w) \in Buffers /\ New(w).width = w
  BY NewIs DEF New
<1>2. Holds(AssignData(New(w), s), w, Masked(w, s))
  BY <1>1, AssignDataIs
<1> QED
  BY <1>2 DEF Sound

\* Two digits make a byte, or each an element of another width.
LEMMA SoundDigits ==
  ASSUME NEW w \in Widths, NEW str \in Seq(Nat)
  PROVE  Sound(AssignDigits(New(w), str))
<1> DEFINE d == DigitsOf(str)
           low(k) == IF 2 * k <= Len(d) THEN d[2 * k] ELSE 0
           bytes == [k \in 1 .. (Len(d) + 1) \div 2 |-> d[2 * k - 1] * 16 + low(k)]
           all == IF w = 8 THEN bytes ELSE d
           b == [New(w) EXCEPT !.len = 0]
<1>1. d \in Seq(0 .. 15)
  BY DigitsAre
<1>2. b = New(w) /\ New(w).width = w
  BY DEF New
<1>3. AssignDigits(New(w), str) = AppendData(b, all)
  BY <1>2 DEF AssignDigits
<1> HIDE DEF d
<1>4. d \in Seq(Int)
  <2>1. 0 .. 15 \subseteq Int
    OBVIOUS
  <2> QED
    BY <1>1, <2>1, SeqMonotonic
<1>5. bytes \in Seq(Int)
  <2>1. (Len(d) + 1) \div 2 \in Nat
    BY <1>1
  <2>2. ASSUME NEW k \in 1 .. (Len(d) + 1) \div 2 PROVE d[2 * k - 1] * 16 + low(k) \in Int
    <3>1. 2 * k - 1 \in 1 .. Len(d)
      BY <1>1
    <3>2. d[2 * k - 1] \in Int /\ low(k) \in Int
      <4>1. 2 * k <= Len(d) => 2 * k \in 1 .. Len(d)
        BY <1>1
      <4>2. \A i \in 1 .. Len(d) : d[i] \in Int
        BY <1>4
      <4>3. 2 * k <= Len(d) => d[2 * k] \in Int
        BY <4>1, <4>2
      <4>4. low(k) \in Int
        BY <4>3
      <4> QED
        BY <3>1, <4>2, <4>4
    <3> HIDE DEF low
    <3> QED
      BY <3>2
  <2> HIDE DEF low
  <2> QED
    BY <2>1, <2>2
<1> HIDE DEF bytes, b
<1>6. all \in Seq(Int)
  BY <1>4, <1>5
<1> HIDE DEF all
<1> QED
  BY <1>2, <1>3, <1>6, SoundNew, SoundAppend

\* What bytes.new() is given are strings, texts and numbers.
LEMMA SoundOperand ==
  ASSUME \A v \in Holders : Sound(held[v]), NEW a \in Operands, NEW b, Sound(b)
  PROVE  Sound(AppendOperand(b, a)) /\ AppendOperand(b, a).width = b.width
<1>1. b.width \in Widths
  BY SoundContent
<1>2. CASE a \in [kind : {"text"}, of : Texts]
  <2>1. a.kind = "text" /\ a.of \in Seq(Nat)
    BY <1>2, BytesAssumption
  <2>2. AppendOperand(b, a) = AppendData(b, Content(AssignDigits(New(b.width), a.of)))
    BY <2>1 DEF AppendOperand
  <2>3. Sound(AssignDigits(New(b.width), a.of))
    BY <1>1, <2>1, SoundDigits
  <2>4. Content(AssignDigits(New(b.width), a.of)) \in Seq(Int)
    BY <2>3, SoundContent
  <2> QED
    BY <2>2, <2>4, SoundAppend
<1>3. CASE a \in [kind : {"number"}, of : Elements]
  <2>1. a.kind = "number" /\ a.of \in Int
    <3>1. a.kind = "number" /\ a.of \in Elements
      BY <1>3
    <3>2. Elements \subseteq Int
      BY BytesAssumption
    <3> QED
      BY <3>1, <3>2
  <2>2. AppendOperand(b, a) = AppendData(b, <<a.of>>)
    BY <2>1 DEF AppendOperand, Pushback
  <2>3. <<a.of>> \in Seq(Int)
    BY <2>1
  <2> QED
    BY <2>2, <2>3, SoundAppend
<1>4. CASE a \in [kind : {"bytes"}, of : Holders]
  <2>1. a.kind = "bytes" /\ a.of \in Holders
    BY <1>4
  <2>2. AppendOperand(b, a) = AppendData(b, Content(held[a.of]))
    BY <2>1 DEF AppendOperand
  <2>3. Content(held[a.of]) \in Seq(Int)
    BY <2>1, SoundContent
  <2> QED
    BY <2>2, <2>3, SoundAppend
<1> QED
  BY <1>2, <1>3, <1>4 DEF Operands

LEMMA SoundCreate ==
  ASSUME \A v \in Holders : Sound(held[v]), NEW w \in Widths, NEW ops \in Seq(Operands)
  PROVE  Sound(Create(w, ops))
<1> DEFINE V == {b \in Buffers : Sound(b)}
           n == Len(ops)
           Body(g) == [k \in 0 .. n |-> IF k = 0 THEN New(w) ELSE AppendOperand(g[k - 1], ops[k])]
           step == [k \in 1 .. n |-> [b \in V |-> AppendOperand(b, ops[k])]]
           made == CHOOSE g : g = Body(g)
<1>1. n \in Nat /\ New(w) \in V /\ \A k \in 1 .. n : ops[k] \in Operands
  <2>1. New(w) \in V
    BY SoundNew, NewIs
  <2> QED
    BY <2>1
<1>2. step \in [1 .. n -> [V -> V]]
  <2>1. ASSUME NEW k \in 1 .. n, NEW b \in V
        PROVE  AppendOperand(b, ops[k]) \in V
    <3>1. Sound(AppendOperand(b, ops[k]))
      BY <1>1, SoundOperand
    <3> QED
      BY <3>1, SoundIs
  <2> HIDE DEF V
  <2> QED
    BY <2>1
<1> HIDE DEF V
<1>3. \E g : g = Body(g)
  <2>1. PICK g \in [0 .. n -> V] : Runs(g, n, New(w), step)
    <3> HIDE DEF step, n
    <3> QED
      BY <1>1, <1>2, Recursion
  <2>2. \A k \in 0 .. n : g[k] = Body(g)[k]
    <3> TAKE k \in 0 .. n
    <3>1. CASE k = 0
      BY <2>1, <3>1 DEF Runs
    <3>2. CASE k # 0
      <4>1. k \in 1 .. n /\ k - 1 \in 0 .. n /\ g[k - 1] \in V
        BY <1>1, <3>2
      <4>2. g[k] = step[k][g[k - 1]]
        BY <2>1, <4>1 DEF Runs
      <4> QED
        BY <3>2, <4>1, <4>2
    <3> QED
      BY <3>1, <3>2
  <2>3. g = [k \in 0 .. n |-> g[k]] /\ Body(g) = [k \in 0 .. n |-> Body(g)[k]]
    OBVIOUS
  <2>4. g = Body(g)
    <3> HIDE DEF Body
    <3> QED
      BY <2>2, <2>3
  <2> QED
    BY <2>4
<1>4. made = Body(made)
  <2> HIDE DEF Body
  <2> QED
    BY <1>3, Zenon
<1>5. Create(w, ops) = made[n]
  BY DEF Create
<1> HIDE DEF made
<1>6. /\ made[0] = New(w)
      /\ \A k \in 1 .. n : made[k - 1] \in V => made[k] = step[k][made[k - 1]]
  <2>1. made[0] = New(w)
    <3>1. 0 \in 0 .. n
      BY <1>1
    <3> QED
      BY <1>4, <3>1
  <2>2. ASSUME NEW k \in 1 .. n, made[k - 1] \in V
        PROVE  made[k] = step[k][made[k - 1]]
    <3>1. k \in 0 .. n /\ k # 0
      BY <1>1
    <3>2. made[k] = AppendOperand(made[k - 1], ops[k])
      BY <1>4, <3>1
    <3> QED
      BY <2>2, <3>2
  <2> QED
    BY <2>1, <2>2
<1>7. \A k \in 0 .. n : made[k] \in V
  <2> HIDE DEF step, n
  <2> QED
    BY <1>1, <1>2, <1>6, RunsAre
<1>8. n \in 0 .. n
  BY <1>1
<1> QED
  BY <1>5, <1>7, <1>8 DEF V

\* The number that the elements of a group stand for.
LEMMA NumberIs ==
  ASSUME NEW s \in Seq(Nat), NEW w \in Widths
  PROVE  Number(s, w) \in Nat
<1> DEFINE n == Len(s)
           base == 2 ^ w
           Body(g) == [k \in 0 .. n |-> IF k = 0 THEN 0 ELSE g[k - 1] * base + s[k]]
           step == [k \in 1 .. n |-> [x \in Nat |-> x * base + s[k]]]
           sum == CHOOSE g : g = Body(g)
<1>1. n \in Nat /\ (\A k \in 1 .. n : s[k] \in Nat) /\ 0 \in Nat
  OBVIOUS
<1>2. base \in {2, 16, 256}
  BY Bases
<1>3. Number(s, w) = sum[n]
  BY DEF Number
<1> HIDE DEF base
<1>4. step \in [1 .. n -> [Nat -> Nat]]
  <2>1. \A k \in 1 .. n, x \in Nat : x * base + s[k] \in Nat
    BY <1>1, <1>2
  <2> QED
    BY <2>1
<1>5. \E g : g = Body(g)
  <2>1. PICK g \in [0 .. n -> Nat] : Runs(g, n, 0, step)
    <3> HIDE DEF step, n
    <3> QED
      BY <1>1, <1>4, Recursion
  <2>2. \A k \in 0 .. n : g[k] = Body(g)[k]
    <3> TAKE k \in 0 .. n
    <3>1. CASE k = 0
      BY <2>1, <3>1 DEF Runs
    <3>2. CASE k # 0
      <4>1. k \in 1 .. n /\ k - 1 \in 0 .. n /\ g[k - 1] \in Nat
        BY <1>1, <3>2
      <4>2. g[k] = step[k][g[k - 1]]
        BY <2>1, <4>1 DEF Runs
      <4> QED
        BY <3>2, <4>1, <4>2
    <3> QED
      BY <3>1, <3>2
  <2>3. g = [k \in 0 .. n |-> g[k]] /\ Body(g) = [k \in 0 .. n |-> Body(g)[k]]
    OBVIOUS
  <2>4. g = Body(g)
    <3> HIDE DEF Body
    <3> QED
      BY <2>2, <2>3
  <2> QED
    BY <2>4
<1>6. sum = Body(sum)
  <2> HIDE DEF Body
  <2> QED
    BY <1>5, Zenon
<1> HIDE DEF sum
<1>7. /\ sum[0] = 0
      /\ \A k \in 1 .. n : sum[k - 1] \in Nat => sum[k] = step[k][sum[k - 1]]
  <2>1. sum[0] = 0
    <3>1. 0 \in 0 .. n
      BY <1>1
    <3> QED
      BY <1>6, <3>1
  <2>2. ASSUME NEW k \in 1 .. n, sum[k - 1] \in Nat
        PROVE  sum[k] = step[k][sum[k - 1]]
    <3>1. k \in 0 .. n /\ k # 0
      BY <1>1
    <3>2. sum[k] = sum[k - 1] * base + s[k]
      BY <1>6, <3>1
    <3> QED
      BY <2>2, <3>2
  <2> QED
    BY <2>1, <2>2
<1>8. \A k \in 0 .. n : sum[k] \in Nat
  <2> HIDE DEF step, n
  <2> DEFINE V == Nat  v0 == 0
  <2>1. v0 \in V /\ n \in Nat /\ step \in [1 .. n -> [V -> V]]
    BY <1>1, <1>4
  <2>2. sum[0] = v0 /\ \A k \in 1 .. n : sum[k - 1] \in V => sum[k] = step[k][sum[k - 1]]
    BY <1>7
  <2> HIDE DEF V, v0
  <2>3. \A k \in 0 .. n : sum[k] \in V
    BY <2>1, <2>2, RunsAre
  <2> QED
    BY <2>3 DEF V
<1>9. n \in 0 .. n
  BY <1>1
<1> QED
  BY <1>3, <1>8, <1>9

\* The parts of an element are numbers.
LEMMA CutIs ==
  ASSUME NEW s \in Seq(Int), NEW parts \in Nat, NEW w \in Widths, NEW v \in Widths,
         w < v, parts = v \div w
  PROVE  Cut(s, parts, w) \in Seq(Int)
<1> DEFINE n == parts * Len(s)
           at(k) == (k - 1) \div parts + 1
           e(k) == w * (parts - 1 - ((k - 1) % parts))
           part(k) == (s[at(k)] \div (2 ^ e(k))) % (2 ^ w)
<1>1. (w = 1 /\ parts = 4) \/ (w = 1 /\ parts = 8) \/ (w = 4 /\ parts = 2)
  BY DEF Widths
<1>2. n \in Nat /\ Len(s) \in Nat
  BY <1>1
<1>3. ASSUME NEW k \in 1 .. n PROVE part(k) \in Int
  <2>1. at(k) \in 1 .. Len(s)
    BY <1>1, <1>2
  <2>2. s[at(k)] \in Int
    <3> HIDE DEF at
    <3> QED
      BY <2>1
  <2>3. e(k) \in {0, 1, 2, 3, 4, 5, 6, 7}
    <3>1. CASE w = 1 /\ parts = 4
      BY <3>1
    <3>2. CASE w = 1 /\ parts = 8
      <4>1. k \in Int /\ k - 1 \in Int
        BY <1>2
      <4>2. (k - 1) % 8 \in 0 .. 7
        BY <4>1
      <4>3. e(k) = 7 - ((k - 1) % 8)
        BY <3>2, <4>2
      <4> DEFINE r == (k - 1) % 8
      <4> HIDE DEF r
      <4>4. r \in 0 .. 7 /\ e(k) = 7 - r
        BY <4>2, <4>3 DEF r
      <4> HIDE DEF e
      <4> QED
        BY <4>4
    <3>3. CASE w = 4 /\ parts = 2
      BY <3>3
    <3> QED
      BY <1>1, <3>1, <3>2, <3>3
  <2> HIDE DEF e
  <2>4. 2 ^ e(k) \in Nat \ {0}
    <3>1. /\ 2 ^ 0 = 1 /\ 2 ^ 1 = 2 /\ 2 ^ 2 = 4 /\ 2 ^ 3 = 8
          /\ 2 ^ 4 = 16 /\ 2 ^ 5 = 32 /\ 2 ^ 6 = 64 /\ 2 ^ 7 = 128
      BY SMT
    <3>2. /\ 2 ^ 0 \in Nat \ {0} /\ 2 ^ 1 \in Nat \ {0} /\ 2 ^ 2 \in Nat \ {0}
          /\ 2 ^ 3 \in Nat \ {0} /\ 2 ^ 4 \in Nat \ {0} /\ 2 ^ 5 \in Nat \ {0}
          /\ 2 ^ 6 \in Nat \ {0} /\ 2 ^ 7 \in Nat \ {0}
      BY <3>1, SMT
    <3> QED
      BY <2>3, <3>2, Zenon
  <2>5. 2 ^ w = 2 \/ 2 ^ w = 16 \/ 2 ^ w = 256
    BY Bases
  <2>6. \A x \in Int, p \in Nat \ {0}, q \in Nat \ {0} : (x \div p) % q \in Int
    OBVIOUS
  <2>7. 2 ^ w \in Nat \ {0}
    <3> DEFINE q == 2 ^ w
    <3>1. q = 2 \/ q = 16 \/ q = 256
      BY <2>5
    <3> HIDE DEF q
    <3>2. q \in Nat \ {0}
      BY <3>1
    <3> QED
      BY <3>2 DEF q
  <2> HIDE DEF at
  <2> QED
    BY <2>2, <2>4, <2>6, <2>7, Zenon
<1>4. Cut(s, parts, w) = [k \in 1 .. n |-> part(k)]
  BY DEF Cut
<1> HIDE DEF part, n
<1> QED
  BY <1>2, <1>3, <1>4

\* The groups of elements are numbers.
LEMMA GroupIs ==
  ASSUME NEW s \in Seq(Nat), NEW size \in {2, 4, 8}, NEW w \in Widths
  PROVE  Group(s, size, w) \in Seq(Int)
<1> DEFINE n == Len(s)
           first == n % size
           groups == (n + size - 1) \div size
           upTo(k) == IF first = 0 THEN k * size ELSE first + (k - 1) * size
           from(k) == IF upTo(k) <= size THEN 1 ELSE upTo(k) - size + 1
<1>1. n \in Nat /\ groups \in Nat
  OBVIOUS
<1>2. ASSUME NEW k \in 1 .. groups
      PROVE  from(k) \in 1 .. n + 1 /\ upTo(k) \in 0 .. n
  <2>1. CASE size = 2
    BY <1>1, <2>1
  <2>2. CASE size = 4
    BY <1>1, <2>2
  <2>3. CASE size = 8
    BY <1>1, <2>3
  <2> QED
    BY <2>1, <2>2, <2>3
<1>3. Group(s, size, w) = [k \in 1 .. groups |-> Number(SubSeq(s, from(k), upTo(k)), w)]
  BY DEF Group
<1>4. ASSUME NEW k \in 1 .. groups
      PROVE  Number(SubSeq(s, from(k), upTo(k)), w) \in Int
  <2>1. from(k) \in 1 .. n + 1 /\ upTo(k) \in 0 .. n
    BY <1>2
  <2> HIDE DEF from, upTo
  <2>2. SubSeq(s, from(k), upTo(k)) \in Seq(Nat)
    BY <1>1, <2>1
  <2>3. Number(SubSeq(s, from(k), upTo(k)), w) \in Nat
    BY <2>2, NumberIs, Zenon
  <2> QED
    BY <2>3
<1> HIDE DEF from, upTo, groups
<1> QED
  BY <1>1, <1>3, <1>4

LEMMA SoundConvert ==
  ASSUME NEW b, Sound(b), NEW w \in Widths
  PROVE  Sound(Convert(b, w))
<1> DEFINE s == Content(b)
<1>1. s \in Seq(Int) /\ s \in Seq(Nat) /\ b.width \in Widths
  BY SoundContent
<1> HIDE DEF s
<1>2. CASE w < b.width
  <2>1. Convert(b, w) = AssignData(New(w), Cut(s, b.width \div w, w))
    BY <1>2 DEF Convert, s
  <2>2. b.width \div w \in Nat
    BY <1>1 DEF Widths
  <2>3. Cut(s, b.width \div w, w) \in Seq(Int)
    BY <1>1, <1>2, <2>2, CutIs
  <2> QED
    BY <2>1, <2>3, SoundAssign
<1>3. CASE w > b.width
  <2>1. Convert(b, w) = AssignData(New(w), Group(s, w \div b.width, b.width))
    BY <1>1, <1>3 DEF Convert, s, Widths
  <2>2. w \div b.width \in {2, 4, 8}
    BY <1>1, <1>3 DEF Widths
  <2>3. Group(s, w \div b.width, b.width) \in Seq(Int)
    BY <1>1, <2>2, GroupIs
  <2> QED
    BY <2>1, <2>3, SoundAssign
<1>4. CASE ~(w < b.width) /\ ~(w > b.width)
  <2>1. Convert(b, w) = AssignData(New(w), s)
    BY <1>4 DEF Convert, s
  <2> QED
    BY <1>1, <2>1, SoundAssign
<1> QED
  BY <1>2, <1>3, <1>4

\* The bytes of a length, however long.
LEMMA LengthTyped ==
  ASSUME NEW n \in Nat
  PROVE  EncodeLength(n) \in Seq(Byte)
<1> DEFINE b3 == ByteAt(n, 16777216)  b2 == ByteAt(n, 65536)
           b1 == ByteAt(n, 256)       b0 == ByteAt(n, 1)
<1>1. b3 \in Byte /\ b2 \in Byte /\ b1 \in Byte /\ b0 \in Byte
  BY ByteAtIsByte
<1>2. 129 \in Byte /\ 130 \in Byte /\ 131 \in Byte /\ 132 \in Byte
  BY DEF Byte
<1>3. EncodeLength(n) = IF n > 16777215 THEN <<132, b3, b2, b1, b0>>
                        ELSE IF n > 65535 THEN <<131, b2, b1, b0>>
                        ELSE IF n > 255 THEN <<130, b1, b0>>
                        ELSE IF n > 128 THEN <<129, b0>>
                        ELSE <<b0>>
  BY DEF EncodeLength
<1> HIDE DEF b3, b2, b1, b0
<1> QED
  BY <1>1, <1>2, <1>3

LEMMA SoundJoin ==
  ASSUME NEW tag \in Signed32, NEW value \in Seq(Byte), NEW tail \in Seq(Byte)
  PROVE  Sound(JoinBytes(tag, value, tail))
<1> DEFINE front == EncodeTag(tag) \o EncodeLength(Len(value))
           back == value \o tail
<1>1. EncodeTag(tag) \in Seq(Byte) /\ EncodeLength(Len(value)) \in Seq(Byte)
  BY TagIsItsWord, LengthTyped
<1>2. front \in Seq(Byte) /\ back \in Seq(Byte)
  BY <1>1, Parts
<1>3. JoinBytes(tag, value, tail) = AppendData(AppendData(New(8), front), back)
  BY DEF JoinBytes
<1> HIDE DEF front, back
<1>4. Byte \subseteq Int
  BY DEF Byte
<1>5. front \in Seq(Int) /\ back \in Seq(Int)
  BY <1>2, <1>4, SeqMonotonic
<1>6. 8 \in Widths
  BY DEF Widths
<1> QED
  BY <1>3, <1>5, <1>6, SoundNew, SoundAppend

\* A part of a string of bytes, where there may be none.
LEMMA PartIs ==
  ASSUME NEW s \in Seq(Byte), NEW i \in Nat \ {0}, NEW j \in Int, j <= Len(s)
  PROVE  /\ SubSeq(s, i, j) \in Seq(Byte)
         /\ Len(SubSeq(s, i, j)) = IF i <= j THEN j - i + 1 ELSE 0
         /\ \A k \in 1 .. Len(SubSeq(s, i, j)) : SubSeq(s, i, j)[k] = s[i + k - 1]
<1>1. CASE i <= j
  <2>1. i \in 1 .. Len(s) + 1 /\ j \in 0 .. Len(s)
    BY <1>1
  <2> QED
    BY <1>1, <2>1
<1>2. CASE ~(i <= j)
  <2>1. SubSeq(s, i, j) = <<>>
    BY <1>2, SubSeqEmpty
  <2> QED
    BY <1>2, <2>1
<1> QED
  BY <1>1, <1>2

\* Where a decoder stops, it stops behind what it began with.
LEMMA TagPos ==
  ASSUME NEW s \in Seq(Byte), DecodeTag(s, 0).ok
  PROVE  DecodeTag(s, 0).pos \in Nat \ {0}
<1>1. Len(s) \in Nat
  OBVIOUS
<1>2. CASE Len(s) < 0 + 1
  BY <1>2 DEF DecodeTag, Failed
<1>3. CASE ~(Len(s) < 0 + 1) /\ s[0 + 1] % 32 # 31
  <2>1. DecodeTag(s, 0) = [ok |-> TRUE, tag |-> s[0 + 1], pos |-> 0 + 1]
    BY <1>3 DEF DecodeTag
  <2> QED
    BY <2>1
<1>4. CASE ~(Len(s) < 0 + 1) /\ s[0 + 1] % 32 = 31 /\ Len(s) = 0 + 1
  <2>1. DecodeTag(s, 0) = [ok |-> TRUE, tag |-> 256 * s[0 + 1], pos |-> 0 + 2]
    BY <1>4 DEF DecodeTag
  <2> QED
    BY <2>1
<1>5. CASE ~(Len(s) < 0 + 1) /\ s[0 + 1] % 32 = 31 /\ Len(s) # 0 + 1
  <2>1. CASE TagEnds(s, 0) = {}
    BY <1>5, <2>1 DEF DecodeTag, Failed
  <2>2. CASE TagEnds(s, 0) # {}
    <3> DEFINE last == FirstOf(TagEnds(s, 0))
    <3>1. DecodeTag(s, 0) = [ok |-> TRUE, tag |-> Word(SubSeq(s, 0 + 1, last)), pos |-> last]
      BY <1>5, <2>2 DEF DecodeTag
    <3>2. TagEnds(s, 0) \in SUBSET Nat /\ \A i \in TagEnds(s, 0) : i >= 2
      BY <1>1 DEF TagEnds
    <3>3. \E i \in TagEnds(s, 0) : \A j \in TagEnds(s, 0) : i <= j
      BY <2>2, <3>2, LeastOf
    <3>4. last \in TagEnds(s, 0)
      BY <3>3 DEF FirstOf
    <3> HIDE DEF last
    <3>5. last \in Nat /\ last >= 2
      BY <3>2, <3>4
    <3> QED
      BY <3>1, <3>5
  <2> QED
    BY <2>1, <2>2
<1> QED
  BY <1>2, <1>3, <1>4, <1>5

LEMMA WordTyped ==
  ASSUME NEW s \in Seq(Byte)
  PROVE  Word(s) \in Int
<1>1. \A k \in Nat : FromEnd(s, k) \in Byte
  <2> TAKE k \in Nat
  <2>1. CASE k < Len(s)
    <3>1. Len(s) - k \in 1 .. Len(s)
      BY <2>1
    <3> QED
      BY <2>1, <3>1 DEF FromEnd
  <2>2. CASE ~(k < Len(s))
    BY <2>2 DEF FromEnd, Byte
  <2> QED
    BY <2>1, <2>2
<1> DEFINE f0 == FromEnd(s, 0)  f1 == FromEnd(s, 1)
           f2 == FromEnd(s, 2)  f3 == FromEnd(s, 3)
           top == IF f3 > 127 THEN f3 - 256 ELSE f3
<1>2. f0 \in Byte /\ f1 \in Byte /\ f2 \in Byte /\ f3 \in Byte
  BY <1>1
<1>3. Word(s) = top * 16777216 + f2 * 65536 + f1 * 256 + f0
  BY DEF Word
<1> HIDE DEF f0, f1, f2, f3
<1>4. top \in Int /\ f2 \in Int /\ f1 \in Int /\ f0 \in Int
  BY <1>2 DEF Byte
<1> HIDE DEF top
<1> QED
  BY <1>3, <1>4, SMT

LEMMA BytesAreInts ==
  ASSUME NEW e \in Byte
  PROVE  e \in Int /\ 0 <= e /\ e <= 255
  BY DEF Byte

LEMMA LengthPos ==
  ASSUME NEW s \in Seq(Byte), NEW p \in Nat, NEW one \in BOOLEAN, DecodeLength(s, p, one).ok
  PROVE  /\ DecodeLength(s, p, one).len \in Int
         /\ DecodeLength(s, p, one).pos \in p + 1 .. Len(s)
<1> DEFINE n == Len(s)
           e == s[p + 1]
           count == e - 128
           l == DecodeLength(s, p, one)
<1>1. l = IF n < p + 1 THEN Failed
          ELSE IF e < 128 \/ one THEN [ok |-> TRUE, len |-> e, pos |-> p + 1]
          ELSE IF n - p <= count \/ count > 4 THEN Failed
          ELSE [ok |-> TRUE, len |-> Word(SubSeq(s, p + 2, p + 1 + count)), pos |-> p + 1 + count]
  BY DEF DecodeLength
<1>2. n \in Nat
  OBVIOUS
<1>3. ~(n < p + 1) => e \in Byte
  <2> HAVE ~(n < p + 1)
  <2>1. p + 1 \in 1 .. Len(s)
    OBVIOUS
  <2> QED
    BY <2>1
<1>4. ~(n < p + 1) => e \in Int /\ 0 <= e /\ e <= 255
  BY <1>3, BytesAreInts
<1>5. \A m \in Nat : p + 1 + m <= n => Word(SubSeq(s, p + 2, p + 1 + m)) \in Int
  <2> TAKE m \in Nat
  <2> HAVE p + 1 + m <= n
  <2>1. p + 2 \in Nat \ {0} /\ p + 1 + m \in Int /\ p + 1 + m <= Len(s)
    OBVIOUS
  <2>2. SubSeq(s, p + 2, p + 1 + m) \in Seq(Byte)
    BY <2>1, PartIs
  <2> QED
    BY <2>2, WordTyped
<1>6. l.ok
  OBVIOUS
<1> HIDE DEF n, e, l
<1>7. CASE n < p + 1
  <2>1. l = Failed
    BY <1>1, <1>7
  <2> QED
    BY <1>6, <2>1 DEF Failed
<1>8. CASE ~(n < p + 1) /\ (e < 128 \/ one)
  <2>1. l = [ok |-> TRUE, len |-> e, pos |-> p + 1]
    BY <1>1, <1>8
  <2>2. l.len \in Int /\ l.pos \in p + 1 .. n
    BY <1>2, <1>4, <1>8, <2>1
  <2> QED
    BY <2>2 DEF l, n
<1>9. CASE ~(n < p + 1) /\ ~(e < 128 \/ one) /\ (n - p <= count \/ count > 4)
  <2>1. l = Failed
    BY <1>1, <1>9
  <2> QED
    BY <1>6, <2>1 DEF Failed
<1>10. CASE ~(n < p + 1) /\ ~(e < 128 \/ one) /\ ~(n - p <= count \/ count > 4)
  <2>1. l = [ok |-> TRUE, len |-> Word(SubSeq(s, p + 2, p + 1 + count)), pos |-> p + 1 + count]
    BY <1>1, <1>10
  <2>2. count \in Nat /\ p + 1 + count <= n
    BY <1>2, <1>4, <1>10
  <2> HIDE DEF count
  <2>3. l.len \in Int /\ l.pos \in p + 1 .. n
    <3>1. Word(SubSeq(s, p + 2, p + 1 + count)) \in Int
      BY <1>5, <2>2
    <3>2. p + 1 + count \in p + 1 .. n
      BY <1>2, <2>2
    <3> QED
      BY <2>1, <3>1, <3>2
  <2> QED
    BY <2>3 DEF l, n
<1> QED
  BY <1>7, <1>8, <1>9, <1>10

\* What is split off, and what is left, are strings of bytes; unless the
\* length is 2^31 or more, they are together what follows tag and length.
LEMMA SplitIs ==
  ASSUME NEW s \in Seq(Byte), NEW one \in BOOLEAN, Split(s, one).ok
  PROVE  LET parts == Split(s, one)
             l == DecodeLength(s, DecodeTag(s, 0).pos, one)
         IN  /\ parts.value \in Seq(Byte) /\ parts.tail \in Seq(Byte)
             /\ l.ok
             /\ l.len >= 0 =>
                  /\ Len(parts.value) + Len(parts.tail) \in 0 .. Len(s) - 2
                  /\ parts.value \o parts.tail
                       = SubSeq(s, Len(s) - Len(parts.value \o parts.tail) + 1, Len(s))
<1> DEFINE t == DecodeTag(s, 0)
           p == t.pos
           l == DecodeLength(s, p, one)
           v == DecodeValue(s, p, one)
           n == Len(s)
           taken == IF l.len < 0 THEN n - l.pos ELSE l.len
           left == SubSeq(s, v.pos + 1, n)
<1>1. Split(s, one) = IF ~t.ok THEN Failed
                      ELSE IF ~v.ok THEN Failed
                      ELSE [ok |-> TRUE, tag |-> t.tag, value |-> v.value,
                            tail |-> left]
  BY DEF Split, left
<1>2. v = IF ~l.ok THEN Failed
          ELSE IF PastEnd(l.pos, l.len, n) THEN Failed
          ELSE [ok |-> TRUE, value |-> SubSeq(s, l.pos + 1, l.pos + taken), pos |-> l.pos + l.len]
  BY DEF DecodeValue
<1>3. t.ok => p \in Nat \ {0}
  BY TagPos
<1>4. n \in Nat
  OBVIOUS
<1> HIDE DEF t, v, n, left
<1>5. t.ok /\ v.ok /\ Split(s, one).value = v.value /\ Split(s, one).tail = left
  <2>1. CASE ~t.ok
    <3>1. Split(s, one) = Failed
      BY <1>1, <2>1
    <3> QED
      BY <3>1 DEF Failed
  <2>2. CASE t.ok /\ ~v.ok
    <3>1. Split(s, one) = Failed
      BY <1>1, <2>2
    <3> QED
      BY <3>1 DEF Failed
  <2>3. CASE t.ok /\ v.ok
    <3>1. Split(s, one) = [ok |-> TRUE, tag |-> t.tag, value |-> v.value, tail |-> left]
      BY <1>1, <2>3
    <3> QED
      BY <2>3, <3>1
  <2> QED
    BY <2>1, <2>2, <2>3
<1> HIDE DEF p
<1>6. p \in Nat \ {0}
  BY <1>3, <1>5
<1>7. l.ok => l.len \in Int /\ l.pos \in p + 1 .. n
  BY <1>6, LengthPos DEF n
<1> HIDE DEF l, taken
<1>8. /\ l.ok /\ ~PastEnd(l.pos, l.len, n) /\ v.pos = l.pos + l.len
      /\ v.value = SubSeq(s, l.pos + 1, l.pos + taken)
  <2>1. CASE ~l.ok \/ PastEnd(l.pos, l.len, n)
    <3>1. v = Failed
      BY <1>2, <2>1
    <3> QED
      BY <1>5, <3>1 DEF Failed
  <2>2. CASE l.ok /\ ~PastEnd(l.pos, l.len, n)
    <3>1. v = [ok |-> TRUE, value |-> SubSeq(s, l.pos + 1, l.pos + taken), pos |-> l.pos + l.len]
      BY <1>2, <2>2
    <3> QED
      BY <2>2, <3>1
  <2> QED
    BY <2>1, <2>2
<1>9. l.len \in Int /\ l.pos \in Nat /\ l.pos >= 2 /\ l.pos <= n
  BY <1>4, <1>6, <1>7, <1>8
<1>10. /\ l.pos + taken \in Int /\ l.pos + taken <= n /\ v.pos + 1 \in Nat \ {0}
       /\ l.len >= 0 => taken = l.len /\ l.len <= n - l.pos
  <2> DEFINE x == l.len  y == l.pos
  <2>1. ~(IF x < 0 THEN y + x < 0 ELSE x > n - y)
    BY <1>8 DEF PastEnd
  <2>2. v.pos = y + x /\ taken = IF x < 0 THEN n - y ELSE x
    BY <1>8 DEF taken
  <2>3. x \in Int /\ y \in Nat /\ y >= 2 /\ y <= n
    BY <1>9
  <2> HIDE DEF x, y
  <2>4. /\ y + taken \in Int /\ y + taken <= n /\ v.pos + 1 \in Nat \ {0}
        /\ x >= 0 => taken = x /\ x <= n - y
    BY <1>4, <2>1, <2>2, <2>3
  <2> QED
    BY <2>4 DEF x, y
<1> DEFINE i == l.pos + 1  j == l.pos + taken  k == v.pos + 1
           a == SubSeq(s, i, j)
           b == SubSeq(s, k, n)
           c == SubSeq(s, i, n)
<1>11. /\ i \in Nat \ {0} /\ j \in Int /\ k \in Nat \ {0} /\ n \in Int
       /\ j <= Len(s) /\ n <= Len(s)
  BY <1>4, <1>9, <1>10 DEF n
<1>15. v.value = a
  BY <1>8
<1> HIDE DEF i, j, k
<1>16. /\ a \in Seq(Byte) /\ Len(a) = IF i <= j THEN j - i + 1 ELSE 0
       /\ \A m \in 1 .. Len(a) : a[m] = s[i + m - 1]
  BY <1>11, PartIs
<1>17. /\ b \in Seq(Byte) /\ Len(b) = IF k <= n THEN n - k + 1 ELSE 0
       /\ \A m \in 1 .. Len(b) : b[m] = s[k + m - 1]
  BY <1>11, PartIs
<1>18. /\ c \in Seq(Byte) /\ Len(c) = IF i <= n THEN n - i + 1 ELSE 0
       /\ \A m \in 1 .. Len(c) : c[m] = s[i + m - 1]
  BY <1>11, PartIs
<1>12. a \in Seq(Byte) /\ b \in Seq(Byte)
  BY <1>16, <1>17
<1> HIDE DEF a, b, c
<1>13. ASSUME l.len >= 0
       PROVE  Len(a) + Len(b) \in 0 .. n - 2 /\ a \o b = SubSeq(s, n - Len(a \o b) + 1, n)
  <2>1. taken = l.len /\ l.len <= n - l.pos /\ l.len \in Nat
    BY <1>9, <1>10, <1>13
  <2>2. Len(a) = l.len /\ \A m \in 1 .. Len(a) : a[m] = s[l.pos + m]
    <3>1. \A m \in 1 .. Len(a) : i + m - 1 = l.pos + m
      BY <1>9, <1>12 DEF i
    <3>2. Len(a) = l.len
      BY <1>9, <1>16, <2>1 DEF i, j
    <3> QED
      BY <1>16, <3>1, <3>2
  <2>3. Len(b) = n - l.pos - l.len /\ \A m \in 1 .. Len(b) : b[m] = s[l.pos + l.len + m]
    <3>1. \A m \in 1 .. Len(b) : k + m - 1 = l.pos + l.len + m
      BY <1>8, <1>9, <2>1 DEF k
    <3>2. Len(b) = n - l.pos - l.len
      BY <1>4, <1>8, <1>9, <1>17, <2>1 DEF k
    <3> QED
      BY <1>17, <3>1, <3>2
  <2>4. c \in Seq(Byte) /\ Len(c) = n - l.pos /\ \A m \in 1 .. Len(c) : c[m] = s[l.pos + m]
    <3>1. \A m \in 1 .. Len(c) : i + m - 1 = l.pos + m
      BY <1>9, <1>18 DEF i
    <3> QED
      BY <1>4, <1>9, <1>18, <3>1 DEF i
  <2>10. /\ a \o b \in Seq(Byte) /\ Len(a \o b) = Len(a) + Len(b)
         /\ \A m \in 1 .. Len(a) : (a \o b)[m] = a[m]
         /\ \A m \in 1 .. Len(b) : (a \o b)[Len(a) + m] = b[m]
    BY <1>12, Parts
  <2>5. a \o b \in Seq(Byte) /\ Len(a \o b) = n - l.pos
    BY <1>4, <1>9, <2>10, <2>1, <2>2, <2>3
  <2>6. \A m \in 1 .. n - l.pos : (a \o b)[m] = c[m]
    <3> TAKE m \in 1 .. n - l.pos
    <3>2. CASE m <= l.len
      <4>1. m \in 1 .. Len(a) /\ m \in 1 .. Len(c)
        BY <1>4, <1>9, <2>1, <2>2, <2>4, <3>2
      <4> QED
        BY <2>2, <2>4, <2>10, <4>1
    <3>3. CASE ~(m <= l.len)
      <4>1. m - l.len \in 1 .. Len(b) /\ m \in 1 .. Len(c) /\ l.pos + l.len + (m - l.len) = l.pos + m
        <5> DEFINE x == l.len  y == l.pos
        <5>1. x \in Nat /\ y \in Nat /\ m \in 1 .. n - y /\ ~(m <= x)
          BY <1>9, <2>1, <3>3
        <5>2. Len(b) = n - y - x /\ Len(c) = n - y
          BY <2>3, <2>4
        <5> HIDE DEF x, y
        <5>3. m - x \in 1 .. n - y - x /\ m \in 1 .. n - y /\ y + x + (m - x) = y + m
          BY <1>4, <5>1
        <5> QED
          BY <5>2, <5>3 DEF x, y
      <4> QED
        <5>0. (a \o b)[Len(a) + (m - l.len)] = b[m - l.len]
          BY <2>10, <4>1
        <5>1. (a \o b)[m] = b[m - l.len]
          <6>1. Len(a) + (m - l.len) = m
            BY <1>4, <1>9, <2>2
          <6> QED
            BY <5>0, <6>1
        <5> QED
          BY <2>3, <2>4, <4>1, <5>1
    <3> QED
      BY <3>2, <3>3
  <2>7. a \o b = c
    BY <1>4, <1>9, <2>4, <2>5, <2>6, SeqEqual
  <2>8. n - Len(a \o b) + 1 = l.pos + 1
    BY <1>4, <1>9, <2>5
  <2>9. Len(a) + Len(b) \in 0 .. n - 2
    BY <1>4, <1>9, <2>1, <2>2, <2>3
  <2> QED
    BY <2>7, <2>8, <2>9 DEF c, i
<1>14. Split(s, one).value = a /\ Split(s, one).tail = b
  BY <1>5, <1>15 DEF b, k, left
<1> QED
  BY <1>8, <1>12, <1>13, <1>14 DEF l, p, t, n

\* What follows a tag alone, and a length alone, are strings of bytes.
LEMMA FrontsAre ==
  ASSUME NEW s \in Seq(Byte), NEW one \in BOOLEAN
  PROVE  /\ SplitTag(s).ok => SplitTag(s).tail \in Seq(Byte)
         /\ SplitLength(s, one).ok => SplitLength(s, one).tail \in Seq(Byte)
<1> DEFINE t == DecodeTag(s, 0)
           l == DecodeLength(s, 0, one)
           n == Len(s)
           afterTag == SubSeq(s, t.pos + 1, n)
           afterLen == SubSeq(s, l.pos + 1, n)
<1>1. SplitTag(s) = IF t.ok THEN [ok |-> TRUE, tag |-> t.tag, tail |-> afterTag] ELSE Failed
  BY DEF SplitTag
<1>2. SplitLength(s, one) = IF l.ok THEN [ok |-> TRUE, len |-> l.len, tail |-> afterLen] ELSE Failed
  BY DEF SplitLength
<1>3. t.ok => t.pos \in Nat
  BY TagPos
<1>4. l.ok => l.pos \in 0 + 1 .. n
  <2>1. 0 \in Nat
    OBVIOUS
  <2> QED
    BY <2>1, LengthPos
<1>5. \A i \in Nat : SubSeq(s, i + 1, n) \in Seq(Byte)
  <2> TAKE i \in Nat
  <2>1. i + 1 \in Nat \ {0} /\ n \in Int /\ n <= Len(s)
    OBVIOUS
  <2> QED
    BY <2>1, PartIs
<1>6. n \in Nat
  OBVIOUS
<1> HIDE DEF t, l, n, afterTag, afterLen
<1>7. SplitTag(s).ok => SplitTag(s).tail \in Seq(Byte)
  <2>1. CASE t.ok
    <3>1. SplitTag(s) = [ok |-> TRUE, tag |-> t.tag, tail |-> afterTag]
      BY <1>1, <2>1
    <3>2. SplitTag(s).tail = afterTag
      BY <3>1
    <3> QED
      BY <1>3, <1>5, <2>1, <3>2 DEF afterTag
  <2>2. CASE ~t.ok
    BY <1>1, <2>2 DEF Failed
  <2> QED
    BY <2>1, <2>2
<1>8. SplitLength(s, one).ok => SplitLength(s, one).tail \in Seq(Byte)
  <2>1. CASE l.ok
    <3>1. l.pos \in Nat
      BY <1>4, <1>6, <2>1
    <3>2. SplitLength(s, one) = [ok |-> TRUE, len |-> l.len, tail |-> afterLen]
      BY <1>2, <2>1
    <3>3. SplitLength(s, one).tail = afterLen
      BY <3>2
    <3> QED
      BY <1>5, <3>1, <3>3 DEF afterLen
  <2>2. CASE ~l.ok
    BY <1>2, <2>2 DEF Failed
  <2> QED
    BY <2>1, <2>2
<1> QED
  BY <1>7, <1>8

LEMMA SoundBytes ==
  ASSUME NEW s \in Seq(Byte)
  PROVE  Sound(AsBytes(s)) /\ (AsTail(s) = Nil \/ Sound(AsTail(s)))
<1>1. Byte \subseteq Int /\ 8 \in Widths
  BY DEF Byte, Widths
<1>2. s \in Seq(Int)
  BY <1>1, SeqMonotonic
<1>3. Sound(AsBytes(s))
  BY <1>1, <1>2, SoundAssign DEF AsBytes
<1> QED
  BY <1>3 DEF AsTail

\* The string that a call derives from another, and the string that bytes.set()
\* changed in place, are strings.
LEMMA SoundPads ==
  ASSUME NEW b, Sound(b), NEW n \in Blocks, NEW x \in Elements
  PROVE  Sound(PadLeft(Duplicate(b), n, x)) /\ Sound(PadRight(Duplicate(b), n, x))
<1>0. PICK w \in Widths : \E c : Holds(b, w, c)
  BY DEF Sound
<1>1. PICK c : w \in Widths /\ Holds(b, w, c)
  BY <1>0
<1>2. n \in Nat \ {0} /\ x \in Int
  <2>1. Blocks \subseteq Nat \ {0} /\ Elements \subseteq Int
    BY BytesAssumption
  <2> QED
    BY <2>1
<1>3. Holds(Duplicate(b), w, c)
  BY <1>1, DuplicateIs
<1> QED
  BY <1>2, <1>3, PadsAre DEF Sound

LEMMA SoundCopies ==
  ASSUME NEW b, Sound(b)
  PROVE  Sound(Duplicate(b)) /\ Sound(Invert(Duplicate(b)))
<1>0. PICK w \in Widths : \E c : Holds(b, w, c)
  BY DEF Sound
<1>1. PICK c : w \in Widths /\ Holds(b, w, c)
  BY <1>0
<1>2. Holds(Duplicate(b), w, c)
  BY <1>1, DuplicateIs
<1> QED
  BY <1>2, InvertIs DEF Sound

LEMMA SoundPut ==
  ASSUME NEW b, Sound(b), NEW i \in Int, NEW x \in Elements, NEW y \in Elements
  PROVE  Sound(Put(b, i, <<x>>)) /\ Sound(Put(b, i, <<x, y>>))
<1>1. ASSUME NEW c, Sound(c), NEW k \in Nat, NEW e \in Elements
      PROVE  Sound(PutElement(c, k, e))
  <2>0. PICK w \in Widths : \E d : Holds(c, w, d)
    BY <1>1 DEF Sound
  <2>1. PICK d : w \in Widths /\ Holds(c, w, d)
    BY <2>0
  <2>2. e \in Int
    <3>1. Elements \subseteq Int
      BY BytesAssumption
    <3> QED
      BY <3>1
  <2> QED
    BY <2>1, <2>2, PutElementIs DEF Sound
<1>2. CASE i < 0
  BY <1>2, PutsNone
<1>3. CASE ~(i < 0)
  <2>1. i \in Nat /\ i + 1 \in Nat
    BY <1>3
  <2>2. Sound(PutElement(b, i, x))
    BY <1>1, <2>1
  <2>3. Sound(PutElement(PutElement(b, i, x), i + 1, y))
    BY <1>1, <2>1, <2>2
  <2> QED
    BY <2>1, <2>2, <2>3, PutsOne, PutsTwo
<1> QED
  BY <1>2, <1>3

LEMMA SoundSub ==
  ASSUME NEW b, Sound(b), NEW i \in Int, NEW j \in Int
  PROVE  Sub(b, i, j) = Nil \/ Sound(Sub(b, i, j))
<1>0. PICK w \in Widths : \E c : Holds(b, w, c)
  BY DEF Sound
<1>1. PICK c : w \in Widths /\ Holds(b, w, c)
  BY <1>0
<1> QED
  BY <1>1, SubIs DEF Sound

\* The width of a concatenation is that of one of its strings.
LEMMA SoundLists ==
  ASSUME \A v \in Holders : Sound(held[v]), NEW ops \in OperandLists
  PROVE  /\ ops \in Seq(Operands)
         /\ LET strings == {i \in DOMAIN ops : ops[i].kind = "bytes"}
            IN  (IF strings = {} THEN 8 ELSE held[ops[FirstOf(strings)].of].width) \in Widths
<1> DEFINE strings == {i \in DOMAIN ops : ops[i].kind = "bytes"}
           width == IF strings = {} THEN 8 ELSE held[ops[FirstOf(strings)].of].width
<1>1. ops \in Seq(Operands)
  <2> DEFINE V == Operands
  <2>1. PICK n \in 0 .. 2 : ops \in [1 .. n -> V]
    BY Zenon DEF OperandLists
  <2> HIDE DEF V
  <2>2. ops \in Seq(V)
    BY <2>1
  <2> QED
    BY <2>2 DEF V
<1>2. 8 \in Widths
  BY DEF Widths
<1>3. CASE strings # {}
  <2>1. strings \in SUBSET Nat
    BY <1>1
  <2>2. \E i \in strings : \A j \in strings : i <= j
    BY <1>3, <2>1, LeastOf
  <2>3. FirstOf(strings) \in strings
    BY <2>2 DEF FirstOf
  <2> DEFINE a == ops[FirstOf(strings)]
  <2>4. a \in Operands /\ a.kind = "bytes"
    <3>1. FirstOf(strings) \in DOMAIN ops /\ a.kind = "bytes"
      BY <2>3
    <3> QED
      BY <1>1, <3>1
  <2> HIDE DEF a
  <2>5. a.of \in Holders
    BY <2>4 DEF Operands
  <2>6. Sound(held[a.of])
    BY <2>5
  <2>7. held[a.of].width \in Widths
    BY <2>6, SoundContent
  <2> QED
    BY <1>1, <1>3, <2>7 DEF a
<1> QED
  BY <1>1, <1>2, <1>3

LEMMA KeptSound ==
  ASSUME BytesTypeOK
  PROVE  \A v \in Holders : v \in Vars /\ Sound(held[v])
<1> TAKE v \in Holders
<1>1. v \in Vars /\ held[v] # Nil
  BY DEF Holders
<1>2. held[v] \in Buffers /\ IsBytestring(held[v])
  BY <1>1 DEF BytesTypeOK
<1> QED
  BY <1>1, <1>2, SoundIs

\* A call leaves the strings alone, or gives one variable a string or none.
LEMMA CallGives ==
  ASSUME BytesTypeOK, Call
  PROVE  \/ UNCHANGED held /\ single' \in BOOLEAN
         \/ \E v \in Vars : \E b : (b = Nil \/ Sound(b)) /\ Gets(v, b)
<1> DEFINE Given == \E v \in Vars : \E b : (b = Nil \/ Sound(b)) /\ Gets(v, b)
<1>1. \A v \in Holders : v \in Vars /\ Sound(held[v])
  BY KeptSound
<1>2. ASSUME NEW v \in Vars, NEW b, Sound(b) \/ b = Nil, Gets(v, b)
      PROVE  Given
  BY <1>2
<1> HIDE DEF Given
<1>3. Elements \subseteq Int /\ Indexes \subseteq Int
  BY BytesAssumption DEF Indexes
<1>4. ASSUME NEW v \in Vars, NEW ops \in OperandLists, NEW w \in Widths, NewBytes(v, w, ops)
      PROVE  Given
  <2>1. ops \in Seq(Operands)
    BY <1>1, SoundLists
  <2>2. Sound(Create(w, ops))
    BY <1>1, <2>1, SoundCreate
  <2> QED
    BY <1>2, <1>4, <2>2 DEF NewBytes
<1>5. ASSUME NEW v \in Vars, NEW ops \in OperandLists, Concat(v, ops)
      PROVE  Given
  <2> DEFINE strings == {i \in DOMAIN ops : ops[i].kind = "bytes"}
             w == IF strings = {} THEN 8 ELSE held[ops[FirstOf(strings)].of].width
  <2>1. ops \in Seq(Operands) /\ w \in Widths
    BY <1>1, SoundLists
  <2>2. Gets(v, Create(w, ops))
    BY <1>5 DEF Concat
  <2> HIDE DEF w
  <2>3. Sound(Create(w, ops))
    BY <1>1, <2>1, SoundCreate
  <2> QED
    BY <1>2, <2>2, <2>3
<1>6. ASSUME NEW v \in Holders, NEW i \in Indexes, NEW x \in Elements, NEW y \in Elements,
             Set(v, i, <<x>>) \/ Set(v, i, <<x, y>>)
      PROVE  Given
  <2>1. Sound(held[v]) /\ i \in Int /\ v \in Vars
    BY <1>1, <1>3
  <2>2. Sound(Put(held[v], i, <<x>>)) /\ Sound(Put(held[v], i, <<x, y>>))
    BY <2>1, SoundPut
  <2>3. CASE Set(v, i, <<x>>)
    <3>1. Gets(v, Put(held[v], i, <<x>>))
      BY <2>3 DEF Set
    <3> QED
      BY <1>2, <2>1, <2>2, <3>1
  <2>4. CASE Set(v, i, <<x, y>>)
    <3>1. Gets(v, Put(held[v], i, <<x, y>>))
      BY <2>4 DEF Set
    <3> QED
      BY <1>2, <2>1, <2>2, <3>1
  <2> QED
    BY <1>6, <2>3, <2>4
<1>7. ASSUME NEW v \in Vars, NEW u \in Holders, NEW n \in Blocks, NEW x \in Elements,
             Pads(v, u, n, x)
      PROVE  Given
  <2>1. Sound(PadLeft(Duplicate(held[u]), n, x)) /\ Sound(PadRight(Duplicate(held[u]), n, x))
    BY <1>1, SoundPads
  <2> QED
    BY <1>2, <1>7, <2>1 DEF Pads
<1>8. ASSUME NEW v \in Vars, NEW u \in Holders, Reverses(v, u) \/ Clones(v, u)
      PROVE  Given
  <2>1. Sound(Duplicate(held[u])) /\ Sound(Invert(Duplicate(held[u])))
    BY <1>1, SoundCopies
  <2> QED
    BY <1>2, <1>8, <2>1 DEF Reverses, Clones
<1>9. ASSUME NEW v \in Vars, NEW u \in Holders, NEW i \in Indexes, NEW j \in Indexes,
             Subs(v, u, i, j)
      PROVE  Given
  <2>1. Sub(held[u], i, j) = Nil \/ Sound(Sub(held[u], i, j))
    BY <1>1, <1>3, SoundSub
  <2> QED
    BY <1>2, <1>9, <2>1 DEF Subs
<1>10. ASSUME NEW v \in Vars, NEW u \in Holders, NEW w \in Widths, Converts(v, u, w)
       PROVE  Given
  <2>1. Sound(Convert(held[u], w))
    BY <1>1, SoundConvert
  <2> QED
    BY <1>2, <1>10, <2>1 DEF Converts
<1>11. ASSUME NEW v \in Vars, NEW u \in Holders, NEW tag \in Tags, NEW tail \in Tails,
              Joins(v, u, tag, tail)
       PROVE  Given
  <2>1. tag \in Signed32
    BY BytesAssumption
  <2>2. Content(held[u]) \in Seq(Byte) /\ tail \in Seq(Byte)
    <3>1. \A w \in Holders : Content(held[w]) \in Seq(Byte)
      BY <1>1, SoundContent
    <3>2. tail = <<>> \/ \E w \in Holders : tail = Content(held[w])
      BY Zenon DEF Tails
    <3>3. <<>> \in Seq(Byte)
      OBVIOUS
    <3> QED
      BY <3>1, <3>2, <3>3, Zenon
  <2>3. Sound(JoinBytes(tag, Content(held[u]), tail))
    BY <2>1, <2>2, SoundJoin
  <2> QED
    BY <1>2, <1>11, <2>3 DEF Joins
<1>12. ASSUME NEW v \in Vars, NEW u \in Holders, Splits(v, u)
       PROVE  Given
  <2> DEFINE s == Content(held[u])
             parts == Split(s, single)
  <2>1. s \in Seq(Byte) /\ single \in BOOLEAN
    BY <1>1, SoundContent DEF BytesTypeOK
  <2>2. \/ parts.ok /\ (Gets(v, AsBytes(parts.value)) \/ Gets(v, AsTail(parts.tail)))
        \/ Gets(v, Nil)
    BY <1>12 DEF Splits
  <2> HIDE DEF s
  <2>3. parts.ok => parts.value \in Seq(Byte) /\ parts.tail \in Seq(Byte)
    BY <2>1, SplitIs
  <2> HIDE DEF parts
  <2>4. parts.ok => Sound(AsBytes(parts.value)) /\ (AsTail(parts.tail) = Nil \/ Sound(AsTail(parts.tail)))
    BY <2>3, SoundBytes
  <2> QED
    BY <1>2, <2>2, <2>4
<1>13. ASSUME NEW v \in Vars, NEW u \in Holders, SplitsFront(v, u)
       PROVE  Given
  <2> DEFINE s == Content(held[u])
  <2>1. s \in Seq(Byte) /\ single \in BOOLEAN
    BY <1>1, SoundContent DEF BytesTypeOK
  <2>2. PICK parts \in {SplitTag(s), SplitLength(s, single)} :
          Gets(v, IF held[u].width = 8 /\ parts.ok THEN AsTail(parts.tail) ELSE Nil)
    BY <1>13 DEF SplitsFront
  <2> HIDE DEF s
  <2>3. parts.ok => parts.tail \in Seq(Byte)
    BY <2>1, FrontsAre
  <2>4. parts.ok => AsTail(parts.tail) = Nil \/ Sound(AsTail(parts.tail))
    BY <2>3, SoundBytes
  <2> QED
    BY <1>2, <2>2, <2>4
<1>14. ASSUME NEW enable \in BOOLEAN, EnablesSingle(enable)
       PROVE  UNCHANGED held /\ single' \in BOOLEAN
  BY <1>14 DEF EnablesSingle
<1> QED
  BY <1>4, <1>5, <1>6, <1>7, <1>8, <1>9, <1>10, <1>11, <1>12, <1>13, <1>14 DEF Call, Given

LEMMA GetsKeepsType ==
  ASSUME BytesTypeOK, NEW v \in Vars, NEW b, b = Nil \/ Sound(b), Gets(v, b)
  PROVE  /\ held' \in [Vars -> Buffers \cup {Nil}]
         /\ \A u \in Holders' : IsBytestring(held'[u])
         /\ single' = single
<1>1. b \in Buffers \cup {Nil} /\ (b # Nil => IsBytestring(b))
  BY SoundIs
<1>2. held \in [Vars -> Buffers \cup {Nil}] /\ \A u \in Holders : IsBytestring(held[u])
  BY DEF BytesTypeOK
<1>3. held' = [held EXCEPT ![v] = b] /\ single' = single
  BY DEF Gets
<1>4. held' \in [Vars -> Buffers \cup {Nil}]
  BY <1>1, <1>2, <1>3
<1>5. ASSUME NEW u \in Holders'
      PROVE  IsBytestring(held'[u])
  <2>1. u \in Vars /\ held'[u] # Nil
    BY <1>5 DEF Holders
  <2>2. CASE u = v
    BY <1>1, <1>2, <1>3, <2>1, <2>2
  <2>3. CASE u # v
    <3>1. held'[u] = held[u] /\ u \in Holders
      BY <1>2, <1>3, <2>1, <2>3 DEF Holders
    <3> QED
      BY <1>2, <3>1
  <2> QED
    BY <2>2, <2>3
<1> QED
  BY <1>3, <1>4, <1>5

\* Whatever a script did, each of its strings has as many elements as its
\* length says, and each is a number of the string's width: no byte that nobody
\* wrote is ever part of a string.
THEOREM BytesTyped == Spec => []BytesTypeOK
<1>1. Init => BytesTypeOK
  <2> SUFFICES ASSUME Init
               PROVE  BytesTypeOK
    OBVIOUS
  <2>1. held = [v \in Vars |-> Nil] /\ single = FALSE /\ calls = 0
    BY DEF Init
  <2>2. held \in [Vars -> Buffers \cup {Nil}] /\ Holders = {}
    BY <2>1 DEF Holders
  <2>3. single \in BOOLEAN /\ calls \in 0 .. MaxCalls
    <3>1. single \in BOOLEAN
      BY <2>1
    <3>2. 0 \in 0 .. MaxCalls
      BY BytesAssumption
    <3> QED
      BY <2>1, <3>1, <3>2
  <2> QED
    BY <2>2, <2>3 DEF BytesTypeOK
<1>2. BytesTypeOK /\ [Next]_vars => BytesTypeOK'
  <2> SUFFICES ASSUME BytesTypeOK, [Next]_vars
               PROVE  BytesTypeOK'
    OBVIOUS
  <2>1. CASE UNCHANGED vars
    BY <2>1 DEF vars, BytesTypeOK, Holders, IsBytestring
  <2>2. CASE Next
    <3>1. calls < MaxCalls /\ calls' = calls + 1 /\ Call
      BY <2>2 DEF Next
    <3>2. calls' \in 0 .. MaxCalls
      BY <3>1, BytesAssumption DEF BytesTypeOK
    <3>3. \/ held' = held /\ single' \in BOOLEAN
          \/ \E v \in Vars : \E b : (b = Nil \/ Sound(b)) /\ Gets(v, b)
      BY <3>1, CallGives
    <3>4. CASE held' = held /\ single' \in BOOLEAN
      <4>1. Holders' = Holders
        BY <3>4 DEF Holders
      <4> QED
        BY <3>2, <3>4, <4>1 DEF BytesTypeOK, IsBytestring
    <3>5. CASE \E v \in Vars : \E b : (b = Nil \/ Sound(b)) /\ Gets(v, b)
      <4>1. PICK v \in Vars : \E b : (b = Nil \/ Sound(b)) /\ Gets(v, b)
        BY <3>5
      <4>2. PICK b : (b = Nil \/ Sound(b)) /\ Gets(v, b)
        BY <4>1
      <4>3. /\ held' \in [Vars -> Buffers \cup {Nil}]
            /\ \A u \in Holders' : IsBytestring(held'[u])
            /\ single' = single
        BY <4>2, GetsKeepsType
      <4> QED
        BY <3>2, <4>3 DEF BytesTypeOK, IsBytestring
    <3> QED
      BY <3>3, <3>4, <3>5
  <2> QED
    BY <2>1, <2>2
<1> QED
  BY <1>1, <1>2, PTL DEF Spec

\* What the library promises of one string that it may hold.
LEMMA PromisesKept ==
  ASSUME NEW b, Sound(b)
  PROVE  /\ Content(Invert(Duplicate(b))) = Reversed(Content(b))
         /\ PadsAsPromised(b)
         /\ PutsAsPromised(b)
         /\ TakesAsPromised(b)
<1> DEFINE w == b.width
           c == Content(b)
<1>1. w \in Widths /\ Holds(b, w, c) /\ b.len = Len(c)
  BY SoundContent
<1>2. Elements \subseteq Int /\ Indexes \subseteq Int /\ Blocks \subseteq Nat \ {0}
  BY BytesAssumption DEF Indexes
<1> HIDE DEF w, c
<1>3. Holds(Duplicate(b), w, c)
  BY <1>1, DuplicateIs
<1>4. Content(Invert(Duplicate(b))) = Reversed(c)
  <2>1. Holds(Invert(Duplicate(b)), w, Reversed(c))
    BY <1>1, <1>3, InvertIs
  <2> QED
    BY <1>1, <2>1, ContentIs
<1>5. ASSUME NEW n \in Blocks, NEW x \in Elements
      PROVE  /\ Content(PadLeft(Duplicate(b), n, x)) = Filler(c, n, x, w) \o c
             /\ Content(PadRight(Duplicate(b), n, x)) = c \o Filler(c, n, x, w)
  <2>1. n \in Nat \ {0} /\ x \in Int
    BY <1>2
  <2>2. /\ Holds(PadLeft(Duplicate(b), n, x), w, Filler(c, n, x, w) \o c)
        /\ Holds(PadRight(Duplicate(b), n, x), w, c \o Filler(c, n, x, w))
    BY <1>1, <1>3, <2>1, PadsAre
  <2> QED
    BY <1>1, <2>2, ContentIs
<1>6. ASSUME NEW i \in 0 .. b.len, NEW x \in Elements, NEW y \in Elements
      PROVE  Content(Put(b, i, <<x, y>>)) = Replaced(c, i, <<x, y>>, w)
  <2>1. i \in 0 .. Len(c) /\ x \in Int /\ y \in Int
    BY <1>1, <1>2
  <2>2. Holds(Put(b, i, <<x, y>>), w, Replaced(c, i, <<x, y>>, w))
    BY <1>1, <2>1, PutsAre
  <2> QED
    BY <1>1, <2>2, ContentIs
<1>7. ASSUME NEW i \in Indexes, NEW j \in Indexes
      PROVE  (IF Sub(b, i, j) = Nil THEN Nil ELSE Content(Sub(b, i, j))) = Between(c, i, j, Nil)
  <2> DEFINE part == Sub(b, i, j)
  <2>1. i \in Int /\ j \in Int
    BY <1>2
  <2>2. \/ part = Nil /\ Between(c, i, j, Nil) = Nil
        \/ Holds(part, w, Between(c, i, j, Nil))
    BY <1>1, <2>1, SubIs
  <2> HIDE DEF part
  <2>3. CASE part = Nil /\ Between(c, i, j, Nil) = Nil
    BY <2>3 DEF part
  <2>4. CASE Holds(part, w, Between(c, i, j, Nil))
    <3>1. part # Nil
      BY <2>4, BytesAssumption DEF Holds
    <3>2. Content(part) = Between(c, i, j, Nil)
      BY <1>1, <2>4, ContentIs
    <3> QED
      BY <3>1, <3>2 DEF part
  <2> QED
    BY <2>2, <2>3, <2>4
<1>8. PadsAsPromised(b)
  BY <1>5 DEF PadsAsPromised, c, w
<1>9. PutsAsPromised(b)
  BY <1>6 DEF PutsAsPromised, c, w
<1>10. TakesAsPromised(b)
  BY <1>7 DEF TakesAsPromised, c
<1> QED
  BY <1>4, <1>8, <1>9, <1>10 DEF c

\* Two strings are equal if they have the same width and the same elements.
LEMMA EqualIs ==
  ASSUME NEW a, Sound(a), NEW b, Sound(b)
  PROVE  IsEqual(a, b) <=> a.width = b.width /\ Content(a) = Content(b)
<1> DEFINE c == Content(a)
           d == Content(b)
<1>1. /\ Holds(a, a.width, c) /\ Holds(b, b.width, d)
      /\ c \in Seq(Byte) /\ d \in Seq(Byte) /\ Len(c) = a.len /\ Len(d) = b.len
      /\ a.len \in Nat /\ b.len \in Nat
  BY SoundContent
<1> HIDE DEF c, d
<1>2. \A i \in 1 .. a.len : a.data[i] = c[i]
  BY <1>1 DEF Holds
<1>3. \A i \in 1 .. b.len : b.data[i] = d[i]
  BY <1>1 DEF Holds
<1>4. ASSUME IsEqual(a, b)
      PROVE  a.width = b.width /\ c = d
  <2>1. a.width = b.width /\ a.len = b.len /\ \A i \in 1 .. a.len : a.data[i] = b.data[i]
    BY <1>4 DEF IsEqual
  <2>2. \A i \in 1 .. Len(c) : c[i] = d[i]
    BY <1>1, <1>2, <1>3, <2>1
  <2>3. c = d
    BY <1>1, <2>1, <2>2, SeqEqual
  <2> QED
    BY <2>1, <2>3
<1>5. ASSUME a.width = b.width, c = d
      PROVE  IsEqual(a, b)
  <2>1. a.len = b.len
    BY <1>1, <1>5
  <2>2. \A i \in 1 .. a.len : a.data[i] = b.data[i]
    BY <1>2, <1>3, <1>5, <2>1
  <2> QED
    BY <1>5, <2>1, <2>2 DEF IsEqual
<1> QED
  BY <1>4, <1>5 DEF c, d

LEMMA ReadsKept ==
  ASSUME \A v \in Holders : Sound(held[v]), NEW b, Sound(b)
  PROVE  ReadsAsPromised(b)
<1> DEFINE w == b.width
           c == Content(b)
<1>1. w \in Widths /\ Holds(b, w, c) /\ b.len = Len(c)
  BY SoundContent
<1> HIDE DEF w, c
<1>2. Pairs(b) = [k \in 1 .. b.len |-> <<k - 1, c[k]>>]
  BY <1>1, PairsAre
<1>3. ASSUME NEW i \in 0 .. b.len - 1
      PROVE  /\ Get(b, i, Nil) = <<c[i + 1]>>
             /\ \A j \in i .. b.len - 1 : Head(Get(b, i, j)) = c[i + 1]
  <2>1. i \in 0 .. Len(c) - 1
    BY <1>1
  <2> QED
    BY <1>1, <2>1, GetIs
<1>4. ASSUME NEW v \in Holders
      PROVE  IsEqual(b, held[v]) <=> w = held[v].width /\ c = Content(held[v])
  BY EqualIs DEF c, w
<1> QED
  BY <1>2, <1>3, <1>4 DEF ReadsAsPromised, c, w

\* Whatever a script did to a string before, with whatever lies in its buffer
\* behind its end: padding, reversing, cutting, replacing and reading it gives
\* the elements that are promised of its own elements.
THEOREM CallsKeep == Spec => []CallsKeepPromises
<1>1. BytesTypeOK => CallsKeepPromises
  <2> SUFFICES ASSUME BytesTypeOK, NEW v \in Holders
               PROVE  LET b == held[v]
                      IN  /\ Content(Invert(Duplicate(b))) = Reversed(Content(b))
                          /\ PadsAsPromised(b)
                          /\ PutsAsPromised(b)
                          /\ TakesAsPromised(b)
                          /\ ReadsAsPromised(b)
    BY DEF CallsKeepPromises
  <2>1. (\A u \in Holders : Sound(held[u])) /\ Sound(held[v])
    BY KeptSound
  <2>2. ReadsAsPromised(held[v])
    BY <2>1, ReadsKept
  <2> QED
    BY <2>1, <2>2, PromisesKept
<1> QED
  BY <1>1, BytesTyped, PTL

\* What asn1.join() puts together of any string a script holds asn1.split()
\* takes apart, for tags that are read as one and values below 2^31 bytes that
\* are not 128 bytes long.
THEOREM SplitInvertsJoin == Spec => []JoinInvertsSplit
<1>1. BytesTypeOK => JoinInvertsSplit
  <2> SUFFICES ASSUME BytesTypeOK, NEW tag \in Tags, NEW v \in Holders, NEW tail \in Tails,
                      ProperTag(tag), held[v].len \in Length32 \ {128}
               PROVE  SplitsBack(tag, Content(held[v]), tail)
    BY DEF JoinInvertsSplit
  <2>1. \A u \in Holders : Sound(held[u])
    BY KeptSound
  <2>2. \A u \in Holders : Content(held[u]) \in Seq(Byte) /\ Len(Content(held[u])) = held[u].len
    BY <2>1, SoundContent
  <2>3. tail \in Seq(Byte)
    <3>1. tail = <<>> \/ \E u \in Holders : tail = Content(held[u])
      BY Zenon DEF Tails
    <3>2. <<>> \in Seq(Byte)
      OBVIOUS
    <3> QED
      BY <2>2, <3>1, <3>2, Zenon
  <2> DEFINE value == Content(held[v])
  <2>4. value \in Seq(Byte) /\ Len(value) \in Length32 /\ Len(value) # 128
    BY <2>2
  <2> HIDE DEF value
  <2>5. tag \in Signed32
    BY BytesAssumption
  <2>6. SplitsBack(tag, value, tail)
    BY <2>3, <2>4, <2>5, JoinSplit
  <2> QED
    BY <2>6 DEF value
<1> QED
  BY <1>1, BytesTyped, PTL

\* A split takes at least two bytes off a string, and the value and the tail
\* are what follows them, unless the length it reads is 2^31 or more: a script's
\* loop that splits the tail again comes to an end.
THEOREM SplitsAdvance == Spec => []SplitAdvances
<1>1. BytesTypeOK => SplitAdvances
  <2> SUFFICES ASSUME BytesTypeOK, NEW v \in Holders,
                      Split(Content(held[v]), single).ok, LengthIsShort(Content(held[v]))
               PROVE  LET s == Content(held[v])
                          parts == Split(s, single)
                      IN  /\ Len(parts.value) + Len(parts.tail) \in 0 .. Len(s) - 2
                          /\ parts.value \o parts.tail
                               = SubSeq(s, Len(s) - Len(parts.value \o parts.tail) + 1, Len(s))
    BY DEF SplitAdvances
  <2> DEFINE s == Content(held[v])
  <2>1. s \in Seq(Byte) /\ single \in BOOLEAN
    BY KeptSound, SoundContent DEF BytesTypeOK
  <2>2. Split(s, single).ok /\ LengthIsShort(s)
    OBVIOUS
  <2> HIDE DEF s
  <2>3. DecodeLength(s, DecodeTag(s, 0).pos, single).ok
    BY <2>1, <2>2, SplitIs
  <2>4. DecodeLength(s, DecodeTag(s, 0).pos, single).len >= 0
    BY <2>2, <2>3 DEF LengthIsShort
  <2> QED
    BY <2>1, <2>2, <2>4, SplitIs DEF s
<1> QED
  BY <1>1, BytesTyped, PTL

-------------------------------------------------------------------------------
(***************************************************************************)
(* The text of a string is read back as the string, and a string that is   *)
(* printable is printed as it is.                                          *)
(***************************************************************************)
\* The digits of a string are digits, two for an element of 8 bits.
LEMMA DigitsWritten ==
  ASSUME NEW b, Sound(b)
  PROVE  /\ FormatDigits(b) \in Seq(0 .. 15)
         /\ b.width = 8 =>
              /\ Len(FormatDigits(b)) = 2 * b.len
              /\ \A k \in 1 .. b.len :
                   16 * FormatDigits(b)[2 * k - 1] + FormatDigits(b)[2 * k] = Content(b)[k]
         /\ b.width # 8 => FormatDigits(b) = Content(b)
<1> DEFINE w == b.width
           c == Content(b)
           n == b.len
           fd == FormatDigits(b)
<1>1. w \in Widths /\ Holds(b, w, c) /\ n = Len(c) /\ n \in Nat /\ c \in Seq(Byte)
  BY SoundContent
<1>2. c \in Seq(0 .. (2 ^ w) - 1) /\ \A i \in 1 .. n : b.data[i] = c[i]
  BY <1>1 DEF Holds
<1>3. fd = IF w = 8 THEN [k \in 1 .. 2 * n |-> IF k % 2 = 1 THEN b.data[(k + 1) \div 2] \div 16
                                               ELSE b.data[k \div 2] % 16]
           ELSE c
  BY DEF FormatDigits
<1> HIDE DEF w, c, n, fd
<1>4. CASE w = 8
  <2> DEFINE digit(k) == IF k % 2 = 1 THEN b.data[(k + 1) \div 2] \div 16 ELSE b.data[k \div 2] % 16
  <2>1. fd = [k \in 1 .. 2 * n |-> digit(k)]
    BY <1>3, <1>4
  <2>2. \A i \in 1 .. n : b.data[i] = c[i] /\ c[i] \in Int /\ 0 <= c[i] /\ c[i] <= 255
    <3> TAKE i \in 1 .. n
    <3>1. c[i] \in Byte
      BY <1>1
    <3> QED
      BY <1>2, <3>1, BytesAreInts
  <2>3. \A x \in Int : 0 <= x /\ x <= 255 => x \div 16 \in 0 .. 15 /\ x % 16 \in 0 .. 15
                                             /\ 16 * (x \div 16) + (x % 16) = x
    OBVIOUS
  <2>4. \A k \in 1 .. 2 * n : digit(k) \in 0 .. 15
    <3> TAKE k \in 1 .. 2 * n
    <3>1. CASE k % 2 = 1
      <4>1. (k + 1) \div 2 \in 1 .. n
        BY <1>1, <3>1
      <4> DEFINE i == (k + 1) \div 2
      <4> HIDE DEF i
      <4>2. b.data[i] \div 16 \in 0 .. 15
        BY <2>2, <2>3, <4>1 DEF i
      <4> QED
        BY <3>1, <4>2 DEF i
    <3>2. CASE k % 2 # 1
      <4>1. k \div 2 \in 1 .. n
        BY <1>1, <3>2
      <4> DEFINE i == k \div 2
      <4> HIDE DEF i
      <4>2. b.data[i] % 16 \in 0 .. 15
        BY <2>2, <2>3, <4>1 DEF i
      <4> QED
        BY <3>2, <4>2 DEF i
    <3> QED
      BY <3>1, <3>2
  <2>5. ASSUME NEW k \in 1 .. n
        PROVE  16 * fd[2 * k - 1] + fd[2 * k] = c[k]
    <3>1. /\ 2 * k - 1 \in 1 .. 2 * n /\ (2 * k - 1) % 2 = 1 /\ ((2 * k - 1) + 1) \div 2 = k
          /\ 2 * k \in 1 .. 2 * n /\ (2 * k) % 2 # 1 /\ (2 * k) \div 2 = k
      BY <1>1
    <3>2. digit(2 * k - 1) = b.data[k] \div 16 /\ digit(2 * k) = b.data[k] % 16
      BY <3>1
    <3> HIDE DEF digit
    <3>3. fd[2 * k - 1] = b.data[k] \div 16 /\ fd[2 * k] = b.data[k] % 16
      BY <2>1, <3>1, <3>2
    <3> QED
      BY <2>2, <2>3, <3>3
  <2> HIDE DEF digit
  <2>6. fd \in Seq(0 .. 15) /\ Len(fd) = 2 * n
    <3>1. 2 * n \in Nat
      BY <1>1
    <3> DEFINE m == 2 * n  D == 0 .. 15
    <3> HIDE DEF m, D
    <3>2. fd = [k \in 1 .. m |-> digit(k)] /\ \A k \in 1 .. m : digit(k) \in D
      BY <2>1, <2>4 DEF m, D
    <3>3. fd \in Seq(D) /\ Len(fd) = m
      BY <3>1, <3>2 DEF m
    <3> QED
      BY <3>3 DEF m, D
  <2> QED
    BY <1>4, <2>5, <2>6 DEF w, c, n, fd
<1>5. CASE w # 8
  <2>1. fd = c
    BY <1>3, <1>5
  <2> DEFINE q == 2 ^ w
  <2>2. q = 2 \/ q = 16
    BY <1>1, <1>5, Bases
  <2>3. 0 .. q - 1 \subseteq 0 .. 15
    <3> HIDE DEF q
    <3> QED
      BY <2>2
  <2>4. c \in Seq(0 .. q - 1)
    BY <1>2
  <2> HIDE DEF q
  <2>5. c \in Seq(0 .. 15)
    BY <2>3, <2>4, SeqMonotonic
  <2> QED
    BY <1>5, <2>1, <2>5 DEF w, c, n, fd
<1> QED
  BY <1>4, <1>5

\* The digits of a string are read as the string.
LEMMA DigitsBack ==
  ASSUME NEW b, Sound(b)
  PROVE  Holds(AssignDigits(New(b.width), FormatDigits(b)), b.width, Content(b))
<1> DEFINE w == b.width
           c == Content(b)
           n == b.len
           fd == FormatDigits(b)
           low(k) == IF 2 * k <= Len(fd) THEN fd[2 * k] ELSE 0
           bytes == [k \in 1 .. (Len(fd) + 1) \div 2 |-> fd[2 * k - 1] * 16 + low(k)]
           all == IF w = 8 THEN bytes ELSE fd
           e == [New(w) EXCEPT !.len = 0]
<1>1. w \in Widths /\ Holds(b, w, c) /\ n = Len(c) /\ n \in Nat /\ c \in Seq(Int)
  BY SoundContent
<1>2. /\ fd \in Seq(0 .. 15)
      /\ w = 8 => Len(fd) = 2 * n /\ \A k \in 1 .. n : 16 * fd[2 * k - 1] + fd[2 * k] = c[k]
      /\ w # 8 => fd = c
  BY DigitsWritten
<1>3. DigitsOf(fd) = fd
  BY <1>2, DigitsAlone
<1>4. New(w).width = w /\ e = New(w)
  BY DEF New
<1> HIDE DEF w, c, n, fd
<1>5. AssignDigits(New(w), fd) = AppendData(e, all)
  BY <1>3, <1>4 DEF AssignDigits
<1>6. all = c
  <2>1. CASE w = 8
    <3>1. Len(fd) = 2 * n /\ (Len(fd) + 1) \div 2 = n
      BY <1>1, <1>2, <2>1
    <3>2. bytes = [k \in 1 .. n |-> fd[2 * k - 1] * 16 + low(k)]
      BY <3>1
    <3>3. ASSUME NEW k \in 1 .. n
          PROVE  fd[2 * k - 1] * 16 + low(k) = c[k]
      <4>1. 2 * k - 1 \in 1 .. Len(fd) /\ 2 * k \in 1 .. Len(fd) /\ 2 * k <= Len(fd)
        BY <1>1, <3>1
      <4>2. fd[2 * k - 1] \in 0 .. 15 /\ fd[2 * k] \in 0 .. 15
        BY <1>2, <4>1, ElementOfSeq
      <4>3. 16 * fd[2 * k - 1] + fd[2 * k] = c[k]
        BY <1>2, <2>1
      <4>4. low(k) = fd[2 * k]
        BY <4>1
      <4> HIDE DEF low
      <4> QED
        BY <4>2, <4>3, <4>4
    <3> HIDE DEF low
    <3>4. bytes = [k \in 1 .. n |-> c[k]]
      BY <3>2, <3>3
    <3>5. c = [k \in 1 .. n |-> c[k]]
      BY <1>1
    <3> QED
      BY <2>1, <3>4, <3>5
  <2>2. CASE w # 8
    BY <1>2, <2>2
  <2> QED
    BY <2>1, <2>2
<1> HIDE DEF all, e
<1>7. Holds(e, w, <<>>)
  BY <1>1, <1>4, NewIs
<1>8. Holds(AppendData(e, c), w, <<>> \o Masked(w, c))
  BY <1>1, <1>7, AppendDataIs
<1>9. Masked(w, c) = c
  <2>1. c \in Seq(0 .. (2 ^ w) - 1)
    BY <1>1 DEF Holds
  <2> QED
    BY <1>1, <2>1, MaskedSame
<1>10. <<>> \o c = c
  BY <1>1, ConcatEmptySeq
<1> QED
  BY <1>5, <1>6, <1>8, <1>9, <1>10 DEF w, c, fd

\* A text that names the width is read as a string of that width.
LEMMA TextBack ==
  ASSUME NEW b, Sound(b)
  PROVE  NewFromString(Format("S", b), Nil) = AssignDigits(New(b.width), FormatDigits(b))
<1> DEFINE front == <<b.width, Colon>>
           fd == FormatDigits(b)
           str == front \o fd
<1>1. b.width \in Widths /\ fd \in Seq(0 .. 15)
  BY SoundContent, DigitsWritten
<1>2. fd \in Seq(Byte)
  <2>1. 0 .. 15 \subseteq Byte
    BY DEF Byte
  <2> QED
    BY <1>1, <2>1, SeqMonotonic
<1>3. front \in Seq(Byte) /\ Len(front) = 2 /\ front[1] = b.width /\ front[2] = Colon
  <2>1. b.width \in Byte /\ Colon \in Byte
    BY <1>1 DEF Widths, Byte, Colon, Character
  <2> QED
    BY <2>1
<1>4. Format("S", b) = str
  BY DEF Format
<1> HIDE DEF front, fd
<1>5. /\ Len(str) = 2 + Len(fd) /\ Len(fd) \in Nat
      /\ str[1] = b.width /\ str[2] = Colon
  <2>1. /\ Len(str) = Len(front) + Len(fd) /\ Len(fd) \in Nat
        /\ \A i \in 1 .. Len(front) : str[i] = front[i]
    BY <1>2, <1>3, Parts
  <2> HIDE DEF str
  <2>2. str[1] = front[1] /\ str[2] = front[2]
    BY <1>3, <2>1
  <2> QED
    BY <1>3, <2>1, <2>2
<1>6. SubSeq(str, 3, Len(str)) = fd
  <2>1. SubSeq(str, Len(front) + 1, Len(front) + Len(fd)) = fd
    BY <1>2, <1>3, TailIsLast
  <2> HIDE DEF str
  <2> QED
    BY <1>3, <1>5, <2>1
<1> HIDE DEF str
<1>7. NewFromString(str, Nil) = AssignDigits(New(str[1]), SubSeq(str, 3, Len(str)))
  BY <1>1, <1>5 DEF NewFromString
<1> QED
  BY <1>4, <1>5, <1>6, <1>7 DEF fd

\* Sequences are put together one after the other.
LEMMA FlattenRun ==
  ASSUME NEW A, NEW seqs \in Seq(Seq(A)), Len(seqs) # 0
  PROVE  \E g : /\ FlattenSeq(seqs) = g[Len(seqs)]
                /\ \A k \in 0 .. Len(seqs) : g[k] \in Seq(A)
                /\ g[0] = <<>>
                /\ \A k \in 1 .. Len(seqs) : g[k] = g[k - 1] \o seqs[k]
<1> DEFINE V == Seq(A)
           n == Len(seqs)
           Body(f) == [i \in 1 .. n |-> IF i = 1 THEN seqs[i] ELSE f[i - 1] \o seqs[i]]
           step == [k \in 1 .. n |-> [d \in V |-> d \o seqs[k]]]
           flatten == CHOOSE f : f = Body(f)
           g == [k \in 0 .. n |-> IF k = 0 THEN <<>> ELSE flatten[k]]
<1>1. n \in Nat \ {0} /\ n \in 1 .. n /\ <<>> \in V /\ \A k \in 1 .. n : seqs[k] \in V
  OBVIOUS
<1>2. \A a, d \in V : a \o d \in V /\ <<>> \o d = d
  OBVIOUS
<1> HIDE DEF V
<1>3. step \in [1 .. n -> [V -> V]]
  BY <1>1, <1>2
<1>4. FlattenSeq(seqs) = flatten[n]
  BY <1>1 DEF FlattenSeq
<1> HIDE DEF n
<1>5. \E f : f = Body(f)
  <2>1. PICK h \in [0 .. n -> V] : Runs(h, n, <<>>, step)
    <3> HIDE DEF step
    <3> QED
      BY <1>1, <1>3, Recursion
  <2> DEFINE f == [i \in 1 .. n |-> h[i]]
  <2>2. ASSUME NEW k \in 1 .. n
        PROVE  h[k] = h[k - 1] \o seqs[k] /\ h[k - 1] \in V
    <3>1. k - 1 \in 0 .. n
      BY <1>1
    <3>2. h[k] = step[k][h[k - 1]] /\ h[k - 1] \in V
      BY <2>1, <3>1 DEF Runs
    <3> QED
      BY <3>2
  <2>3. \A k \in 1 .. n : f[k] = Body(f)[k]
    <3> TAKE k \in 1 .. n
    <3>1. CASE k = 1
      <4>1. h[k - 1] = <<>>
        BY <2>1, <3>1 DEF Runs
      <4>2. h[k] = seqs[k]
        BY <1>1, <1>2, <2>2, <4>1
      <4> QED
        BY <3>1, <4>2
    <3>2. CASE k # 1
      <4>1. k - 1 \in 1 .. n
        BY <1>1, <3>2
      <4> QED
        BY <2>2, <3>2, <4>1
    <3> QED
      BY <3>1, <3>2
  <2>4. f = [k \in 1 .. n |-> f[k]] /\ Body(f) = [k \in 1 .. n |-> Body(f)[k]]
    OBVIOUS
  <2>5. f = Body(f)
    <3> HIDE DEF Body, f
    <3> QED
      BY <2>3, <2>4
  <2> QED
    BY <2>5
<1>6. flatten = Body(flatten)
  <2> HIDE DEF Body
  <2> QED
    BY <1>5, Zenon
<1> HIDE DEF flatten
<1>7. \A k \in 1 .. n : flatten[k] = IF k = 1 THEN seqs[k] ELSE flatten[k - 1] \o seqs[k]
  BY <1>6
<1>8. g[0] = <<>> /\ \A k \in 1 .. n : g[k] = flatten[k]
  <2>1. 0 \in 0 .. n /\ \A k \in 1 .. n : k \in 0 .. n /\ k # 0
    BY <1>1
  <2> QED
    BY <2>1
<1> HIDE DEF g
<1>9. ASSUME NEW k \in 1 .. n PROVE g[k] = g[k - 1] \o seqs[k]
  <2>1. CASE k = 1
    <3>1. g[k - 1] = <<>> /\ g[k] = seqs[k]
      BY <1>7, <1>8, <2>1
    <3> QED
      BY <1>1, <1>2, <3>1
  <2>2. CASE k # 1
    <3>1. k - 1 \in 1 .. n
      BY <1>1, <2>2
    <3> QED
      BY <1>7, <1>8, <2>2, <3>1
  <2> QED
    BY <2>1, <2>2
<1>10. \A k \in 0 .. n : g[k] \in V
  <2>1. g[0] = <<>> /\ \A k \in 1 .. n : g[k - 1] \in V => g[k] = step[k][g[k - 1]]
    BY <1>8, <1>9
  <2> HIDE DEF step
  <2> QED
    BY <1>1, <1>3, <2>1, RunsAre
<1>11. FlattenSeq(seqs) = g[n]
  BY <1>1, <1>4, <1>8
<1>12. \A k \in 1 .. n : g[k] = g[k - 1] \o seqs[k]
  BY <1>9
<1>13. g[0] = <<>>
  BY <1>8
<1> QED
  BY <1>10, <1>11, <1>12, <1>13, Zenon DEF V, n

\* What "%P" prints is as long as the string if all of it is printable, and
\* longer if not.
LEMMA PrintedIs ==
  ASSUME NEW b, Sound(b), b.len # 0
  PROVE  /\ IsPrintable(b) => FormatPrintable(b) = [i \in 1 .. b.len |-> Character(Content(b)[i])]
         /\ ~IsPrintable(b) => Len(FormatPrintable(b)) > b.len
<1> DEFINE c == Content(b)
           n == b.len
           piece(k) == IF IsPrint(b.data[k]) THEN <<Character(b.data[k])>> ELSE Octal(b.data[k])
           seqs == [k \in 1 .. n |-> piece(k)]
<1>1. n = Len(c) /\ n \in Nat \ {0} /\ c \in Seq(Byte) /\ \A k \in 1 .. n : b.data[k] = c[k]
  <2>1. Holds(b, b.width, c) /\ n = Len(c) /\ n \in Nat /\ c \in Seq(Byte)
    BY SoundContent
  <2> QED
    BY <2>1 DEF Holds
<1>2. FormatPrintable(b) = FlattenSeq(seqs)
  BY DEF FormatPrintable
<1>3. IsPrintable(b) <=> \A k \in 1 .. n : IsPrint(c[k])
  BY <1>1 DEF IsPrintable
<1> HIDE DEF c, n
<1>4. ASSUME NEW k \in 1 .. n
      PROVE  /\ piece(k) \in Seq(Int)
             /\ IsPrint(c[k]) => piece(k) = <<Character(c[k])>>
             /\ Len(piece(k)) = IF IsPrint(c[k]) THEN 1 ELSE 4
             /\ Character(c[k]) \in Int
  <2>1. c[k] \in Int /\ b.data[k] = c[k]
    <3>1. c[k] \in Byte
      BY <1>1
    <3> QED
      BY <1>1, <3>1, BytesAreInts
  <2> DEFINE x == c[k]
  <2>2. piece(k) = IF IsPrint(x) THEN <<Character(x)>> ELSE Octal(x)
    BY <2>1
  <2>3. x \in Int
    BY <2>1
  <2> HIDE DEF x, piece
  <2>4. Character(x) \in Int
    BY <2>3 DEF Character
  <2>5. Octal(x) \in Seq(Int) /\ Len(Octal(x)) = 4
    <3>1. Backslash \in Int
      BY DEF Backslash, Character
    <3>2. x \div 64 \in Int /\ (x \div 8) % 8 \in Int /\ x % 8 \in Int
      BY <2>3
    <3> QED
      BY <3>1, <3>2 DEF Octal
  <2>6. <<Character(x)>> \in Seq(Int) /\ Len(<<Character(x)>>) = 1
    BY <2>4
  <2>7. /\ piece(k) \in Seq(Int)
        /\ IsPrint(x) => piece(k) = <<Character(x)>>
        /\ Len(piece(k)) = IF IsPrint(x) THEN 1 ELSE 4
    <3>1. CASE IsPrint(x)
      BY <2>2, <2>6, <3>1
    <3>2. CASE ~IsPrint(x)
      BY <2>2, <2>5, <3>2
    <3> QED
      BY <3>1, <3>2
  <2> QED
    BY <2>4, <2>7 DEF x
<1> HIDE DEF piece
<1>5. seqs \in Seq(Seq(Int)) /\ Len(seqs) = n /\ \A k \in 1 .. n : seqs[k] = piece(k)
  BY <1>1, <1>4
<1> HIDE DEF seqs
<1>6. PICK g : /\ FlattenSeq(seqs) = g[n]
               /\ \A k \in 0 .. n : g[k] \in Seq(Int)
               /\ g[0] = <<>>
               /\ \A k \in 1 .. n : g[k] = g[k - 1] \o seqs[k]
  <2>1. Len(seqs) # 0
    BY <1>1, <1>5
  <2>2. \E g : /\ FlattenSeq(seqs) = g[Len(seqs)]
               /\ \A k \in 0 .. Len(seqs) : g[k] \in Seq(Int)
               /\ g[0] = <<>>
               /\ \A k \in 1 .. Len(seqs) : g[k] = g[k - 1] \o seqs[k]
    BY <1>5, <2>1, FlattenRun
  <2>3. Len(seqs) = n
    BY <1>5
  <2> QED
    BY <2>2, <2>3
<1>7. ASSUME NEW k \in Nat, k + 1 <= n
      PROVE  /\ k + 1 \in 1 .. n /\ g[k] \in Seq(Int) /\ piece(k + 1) \in Seq(Int)
             /\ g[k + 1] = g[k] \o piece(k + 1)
  <2>1. k + 1 \in 1 .. n /\ (k + 1) - 1 = k /\ k \in 0 .. n
    BY <1>1, <1>7
  <2> QED
    BY <1>4, <1>5, <1>6, <2>1
<1>8. ASSUME \A k \in 1 .. n : IsPrint(c[k])
      PROVE  g[n] = [i \in 1 .. n |-> Character(c[i])]
  <2> DEFINE first(k) == [i \in 1 .. k |-> Character(c[i])]
             S == {k \in Nat : k <= n => g[k] = first(k)}
  <2>1. 0 \in S
    <3>1. first(0) = <<>>
      OBVIOUS
    <3> QED
      BY <1>6, <3>1
  <2>2. ASSUME NEW k \in Nat, k \in S PROVE k + 1 \in S
    <3> SUFFICES ASSUME k + 1 <= n PROVE g[k + 1] = first(k + 1)
      OBVIOUS
    <3> DEFINE a == first(k)  d == first(k + 1)  e == Character(c[k + 1])
    <3>1. k + 1 \in 1 .. n /\ g[k] = a
      BY <1>1, <2>2
    <3>2. \A i \in 1 .. k + 1 : Character(c[i]) \in Int
      <4> TAKE i \in 1 .. k + 1
      <4>1. i \in 1 .. n
        BY <1>1, <3>1
      <4> QED
        BY <1>4, <4>1
    <3>3. a \in Seq(Int) /\ Len(a) = k /\ \A i \in 1 .. k : a[i] = Character(c[i])
      BY <3>2
    <3>4. d \in Seq(Int) /\ Len(d) = k + 1 /\ \A i \in 1 .. k + 1 : d[i] = Character(c[i])
      BY <3>2
    <3>5. g[k + 1] = a \o <<e>> /\ e \in Int
      <4>1. g[k + 1] = g[k] \o piece(k + 1) /\ k + 1 \in 1 .. n
        BY <1>7
      <4>2. piece(k + 1) = <<e>> /\ e \in Int
        BY <1>4, <1>8, <4>1
      <4> QED
        BY <3>1, <4>1, <4>2
    <3> HIDE DEF a, d
    <3>6. /\ a \o <<e>> \in Seq(Int) /\ Len(a \o <<e>>) = k + 1
          /\ \A i \in 1 .. k + 1 : (a \o <<e>>)[i] = IF i <= k THEN a[i] ELSE e
      <4> HIDE DEF e
      <4> QED
        BY <3>3, <3>5
    <3>7. \A i \in 1 .. Len(d) : (a \o <<e>>)[i] = d[i]
      <4> TAKE i \in 1 .. Len(d)
      <4>1. i \in 1 .. k + 1 /\ ((i \in 1 .. k /\ i <= k) \/ (i = k + 1 /\ ~(i <= k)))
        BY <3>4
      <4> QED
        BY <3>3, <3>4, <3>6, <4>1
    <3>8. a \o <<e>> = d
      BY <3>4, <3>6, <3>7, SeqEqual
    <3> QED
      BY <3>5, <3>8 DEF d
  <2>3. \A k \in Nat : k \in S
    <3> HIDE DEF S
    <3> QED
      BY <2>1, <2>2, NatSetInduction
  <2> QED
    BY <1>1, <2>3
<1>9. ASSUME NEW j \in 1 .. n, ~IsPrint(c[j])
      PROVE  Len(g[n]) > n
  <2> DEFINE S == {k \in Nat : k <= n => Len(g[k]) >= k + (IF j <= k THEN 1 ELSE 0)}
  <2>1. 0 \in S
    <3>1. Len(g[0]) = 0
      BY <1>6
    <3> QED
      BY <1>1, <3>1
  <2>2. ASSUME NEW k \in Nat, k \in S PROVE k + 1 \in S
    <3> SUFFICES ASSUME k + 1 <= n
                 PROVE  Len(g[k + 1]) >= k + 1 + (IF j <= k + 1 THEN 1 ELSE 0)
      OBVIOUS
    <3>1. k + 1 \in 1 .. n /\ g[k] \in Seq(Int) /\ piece(k + 1) \in Seq(Int)
            /\ g[k + 1] = g[k] \o piece(k + 1)
      BY <1>7
    <3>2. Len(g[k + 1]) = Len(g[k]) + Len(piece(k + 1)) /\ Len(g[k]) \in Nat
      BY <3>1
    <3>3. Len(g[k]) >= k + (IF j <= k THEN 1 ELSE 0)
      BY <1>1, <2>2
    <3>4. Len(piece(k + 1)) = IF IsPrint(c[k + 1]) THEN 1 ELSE 4
      BY <1>4, <3>1
    <3> DEFINE x == Len(g[k])  y == Len(g[k + 1])  z == Len(piece(k + 1))
    <3>7. x \in Nat /\ y = x + z /\ x >= k + (IF j <= k THEN 1 ELSE 0) /\ j \in Nat
      BY <1>1, <3>2, <3>3
    <3>8. y >= k + 1 + (IF j <= k + 1 THEN 1 ELSE 0) => Len(g[k + 1]) >= k + 1 + (IF j <= k + 1 THEN 1 ELSE 0)
      OBVIOUS
    <3>5. CASE j = k + 1
      <4>1. z = 4
        BY <1>9, <3>4, <3>5
      <4> HIDE DEF x, y, z
      <4>2. y >= k + 1 + (IF j <= k + 1 THEN 1 ELSE 0)
        BY <3>5, <3>7, <4>1
      <4> QED
        BY <3>8, <4>2
    <3>6. CASE j # k + 1
      <4>1. z = 1 \/ z = 4
        BY <3>4
      <4> HIDE DEF x, y, z
      <4>2. j <= k + 1 <=> j <= k
        BY <3>6, <3>7
      <4>3. y >= k + 1 + (IF j <= k + 1 THEN 1 ELSE 0)
        BY <3>7, <4>1, <4>2
      <4> QED
        BY <3>8, <4>3
    <3> QED
      BY <3>5, <3>6
  <2>3. \A k \in Nat : k \in S
    <3> HIDE DEF S
    <3> QED
      BY <2>1, <2>2, NatSetInduction
  <2>4. Len(g[n]) >= n + (IF j <= n THEN 1 ELSE 0)
    BY <1>1, <2>3
  <2>5. g[n] \in Seq(Int) /\ j <= n
    BY <1>1, <1>6
  <2> QED
    BY <1>1, <2>4, <2>5
<1> QED
  BY <1>2, <1>3, <1>6, <1>8, <1>9 DEF c, n

\* What "%C" gives is the string, up to the first 0.
LEMMA CharsAre ==
  ASSUME NEW b, Sound(b), b.len # 0
  PROVE  /\ IsPrintable(b) => FormatChars(b) = [i \in 1 .. b.len |-> Character(Content(b)[i])]
         /\ Len(FormatChars(b)) <= b.len
<1> DEFINE c == Content(b)
           n == b.len
           I == {i \in 1 .. n : b.data[i] = 0}
           ends == IF I # {} THEN Min(I) ELSE 0
           m == IF ends = 0 THEN n ELSE ends - 1
           chars == SubSeq(b.data, 1, m)
<1>1. n = Len(c) /\ n \in Nat \ {0} /\ c \in Seq(Byte) /\ \A k \in 1 .. n : b.data[k] = c[k]
  <2>1. Holds(b, b.width, c) /\ n = Len(c) /\ n \in Nat /\ c \in Seq(Byte)
    BY SoundContent
  <2> QED
    BY <2>1 DEF Holds
<1>2. b.data \in Seq(Cells) /\ n <= Len(b.data)
  <2>1. Holds(b, b.width, c)
    BY SoundContent
  <2> QED
    BY <2>1 DEF Holds, Buffers
<1>3. FormatChars(b) = [i \in DOMAIN chars |-> Character(chars[i])]
  BY DEF FormatChars, SelectInSubSeq
<1>4. m \in 0 .. n /\ (I = {} => m = n)
  <2>1. CASE I = {}
    BY <1>1, <2>1
  <2>2. CASE I # {}
    <3>1. I \in SUBSET Nat
      BY <1>1
    <3>2. \E i \in I : \A j \in I : i <= j
      BY <2>2, <3>1, LeastOf
    <3>3. Min(I) \in I
      BY <3>2 DEF Min
    <3>4. Min(I) \in 1 .. n
      BY <3>3
    <3> QED
      BY <1>1, <2>2, <3>4
  <2> QED
    BY <2>1, <2>2
<1> HIDE DEF m, I, ends, c, n
<1>5. DOMAIN chars = 1 .. m /\ \A i \in 1 .. m : chars[i] = b.data[i]
  BY <1>1, <1>2, <1>4
<1> HIDE DEF chars
<1>6. FormatChars(b) = [i \in 1 .. m |-> Character(chars[i])]
  BY <1>3, <1>5
<1>7. Len(FormatChars(b)) <= n
  <2> DEFINE f == [i \in 1 .. m |-> Character(chars[i])]
  <2>1. Len(f) = m
    BY <1>4
  <2> HIDE DEF f
  <2> QED
    BY <1>1, <1>4, <1>6, <2>1 DEF f
<1>8. ASSUME IsPrintable(b)
      PROVE  FormatChars(b) = [i \in 1 .. n |-> Character(c[i])]
  <2>1. I = {}
    <3>1. \A i \in 1 .. n : IsPrint(b.data[i])
      BY <1>8 DEF IsPrintable, n
    <3>2. \A i \in 1 .. n : b.data[i] # 0
      BY <3>1 DEF IsPrint
    <3> QED
      BY <3>2 DEF I
  <2>2. m = n
    BY <1>4, <2>1
  <2>3. \A i \in 1 .. n : chars[i] = c[i]
    BY <1>1, <1>5, <2>2
  <2> QED
    BY <1>6, <2>2, <2>3
<1> QED
  BY <1>7, <1>8 DEF c, n

\* What a text keeps of one string that a script may hold.
LEMMA TextsOfString ==
  ASSUME NEW b, Sound(b)
  PROVE  /\ IsEqual(NewFromString(Format("S", b), Nil), b)
         /\ Content(AssignDigits(New(b.width), Format("D", b))) = Content(b)
         /\ IsPrintable(b) <=> b.len > 0 /\ Format("P", b) = Format("C", b)
<1> DEFINE a == AssignDigits(New(b.width), FormatDigits(b))
           c == Content(b)
<1>1. b.width \in Widths /\ b.len \in Nat
  BY SoundContent
<1>2. Holds(a, b.width, c)
  BY DigitsBack
<1>3. Content(a) = c
  BY <1>1, <1>2, ContentIs
<1>4. Sound(a) /\ a.width = b.width
  BY <1>1, <1>2 DEF Sound, Holds
<1> HIDE DEF a
<1>5. IsEqual(a, b)
  BY <1>3, <1>4, EqualIs
<1>6. NewFromString(Format("S", b), Nil) = a
  BY TextBack DEF a
<1>7. Content(AssignDigits(New(b.width), Format("D", b))) = c
  <2>1. Format("D", b) = FormatDigits(b)
    BY DEF Format
  <2> QED
    BY <1>3, <2>1 DEF a
<1>8. Format("P", b) = FormatPrintable(b) /\ Format("C", b) = FormatChars(b)
  BY DEF Format
<1>9. IsPrintable(b) <=> b.len > 0 /\ FormatPrintable(b) = FormatChars(b)
  <2>1. CASE b.len = 0
    BY <2>1 DEF IsPrintable
  <2>2. CASE b.len # 0 /\ IsPrintable(b)
    <3>1. /\ FormatPrintable(b) = [i \in 1 .. b.len |-> Character(Content(b)[i])]
          /\ FormatChars(b) = [i \in 1 .. b.len |-> Character(Content(b)[i])]
      BY <2>2, PrintedIs, CharsAre
    <3> QED
      BY <1>1, <2>2, <3>1
  <2>3. CASE b.len # 0 /\ ~IsPrintable(b)
    <3>1. Len(FormatPrintable(b)) > b.len /\ Len(FormatChars(b)) <= b.len
      BY <2>3, PrintedIs, CharsAre
    <3> DEFINE p == FormatPrintable(b)  q == FormatChars(b)
    <3>2. p # q
      <4> SUFFICES ASSUME p = q PROVE FALSE
        OBVIOUS
      <4> DEFINE l == Len(p)
      <4>1. l > b.len /\ l <= b.len
        BY <3>1
      <4>2. l \in Int
        BY <4>1
      <4> HIDE DEF l
      <4> QED
        BY <1>1, <4>1, <4>2
    <3> QED
      BY <2>3, <3>2
  <2> QED
    BY <2>1, <2>2, <2>3
<1> QED
  BY <1>5, <1>6, <1>7, <1>8, <1>9

\* The text of a string, as it is kept in the card tree, is read back as that
\* string, and so are its digits alone; and what bytes.is_printable() says is
\* printable, "%P" prints as it is.
THEOREM TextsReadBack == Spec => []TextsAreExact
<1>1. BytesTypeOK => TextsAreExact
  BY TextsOfString, KeptSound DEF TextsAreExact
<1> QED
  BY <1>1, BytesTyped, PTL

-------------------------------------------------------------------------------
(***************************************************************************)
(* Numbers: powers, and the digits of a number in a base.                  *)
(***************************************************************************)
\* A function of the naturals can be defined by what a step makes of the value
\* before.
RunsOn(g, v0, step) == g[0] = v0 /\ \A k \in Nat \ {0} : g[k] = step[k][g[k - 1]]

LEMMA Iteration ==
  ASSUME NEW V, NEW v0 \in V, NEW step \in [Nat \ {0} -> [V -> V]]
  PROVE  \E g \in [Nat -> V] : RunsOn(g, v0, step)
<1> DEFINE Upto(n) == {h \in [0 .. n -> V] : Runs(h, n, v0, step)}
           G == [n \in Nat |-> CHOOSE h : h \in Upto(n)]
           g == [n \in Nat |-> G[n][n]]
<1>1. ASSUME NEW n \in Nat PROVE G[n] \in [0 .. n -> V] /\ Runs(G[n], n, v0, step)
  <2> DEFINE part == [k \in 1 .. n |-> step[k]]
  <2>1. part \in [1 .. n -> [V -> V]]
    OBVIOUS
  <2>2. \A k \in 1 .. n : part[k] = step[k]
    OBVIOUS
  <2> HIDE DEF part
  <2>3. PICK h \in [0 .. n -> V] : Runs(h, n, v0, part)
    BY <2>1, Recursion
  <2>4. h \in Upto(n)
    BY <2>2, <2>3 DEF Runs
  <2>5. G[n] \in Upto(n)
    <3> HIDE DEF Upto
    <3>1. G[n] = CHOOSE f : f \in Upto(n)
      OBVIOUS
    <3> QED
      BY <2>4, <3>1, Zenon
  <2> HIDE DEF G
  <2> QED
    BY <2>5
<1> HIDE DEF G
<1>2. \A k \in Nat : \A n \in Nat : k <= n => G[n][k] = G[k][k]
  <2> DEFINE S == {k \in Nat : \A n \in Nat : k <= n => G[n][k] = G[k][k]}
  <2>1. 0 \in S
    <3>1. \A n \in Nat : G[n][0] = v0
      BY <1>1 DEF Runs
    <3> QED
      BY <3>1
  <2>2. ASSUME NEW k \in Nat, k \in S PROVE k + 1 \in S
    <3>1. ASSUME NEW n \in Nat, k + 1 <= n PROVE G[n][k + 1] = step[k + 1][G[k][k]]
      <4>1. k + 1 \in 1 .. n /\ (k + 1) - 1 = k /\ k <= n
        BY <3>1
      <4>2. G[n][k + 1] = step[k + 1][G[n][k]]
        BY <1>1, <4>1 DEF Runs
      <4>3. G[n][k] = G[k][k]
        BY <2>2, <4>1
      <4> QED
        BY <4>2, <4>3
    <3>2. k + 1 \in Nat /\ k + 1 <= k + 1
      OBVIOUS
    <3>3. G[k + 1][k + 1] = step[k + 1][G[k][k]]
      BY <3>1, <3>2
    <3> QED
      BY <3>1, <3>2, <3>3
  <2> HIDE DEF S
  <2>3. \A k \in Nat : k \in S
    BY <2>1, <2>2, NatSetInduction
  <2> QED
    BY <2>3 DEF S
<1>3. g \in [Nat -> V]
  <2>1. \A n \in Nat : G[n][n] \in V
    <3>1. \A n \in Nat : n \in 0 .. n
      OBVIOUS
    <3> QED
      BY <1>1, <3>1
  <2> QED
    BY <2>1
<1>4. g[0] = v0
  BY <1>1 DEF Runs
<1>5. ASSUME NEW k \in Nat \ {0} PROVE g[k] = step[k][g[k - 1]]
  <2>1. k \in 1 .. k /\ k - 1 \in Nat /\ k - 1 <= k /\ k \in Nat
    OBVIOUS
  <2>2. G[k][k] = step[k][G[k][k - 1]]
    BY <1>1, <2>1 DEF Runs
  <2>3. G[k][k - 1] = G[k - 1][k - 1]
    BY <1>2, <2>1
  <2> QED
    BY <2>1, <2>2, <2>3
<1> HIDE DEF g
<1> QED
  BY <1>3, <1>4, <1>5 DEF RunsOn

\* The equations of powers.
LEMMA PowerIs ==
  ASSUME NEW base \in Nat \ {0}
  PROVE  /\ Power(base, 0) = 1
         /\ \A n \in Nat : /\ Power(base, n) \in Nat \ {0}
                           /\ Power(base, n + 1) = base * Power(base, n)
<1> DEFINE V == Nat \ {0}
           step == [k \in Nat \ {0} |-> [x \in V |-> base * x]]
           Body(p) == [k \in Nat |-> IF k = 0 THEN 1 ELSE base * p[k - 1]]
           power == CHOOSE p : p = Body(p)
<1>1. \A x \in V : base * x \in V
  OBVIOUS
<1>2. PICK g \in [Nat -> V] : g[0] = 1 /\ \A k \in Nat \ {0} : g[k] = step[k][g[k - 1]]
  <2> DEFINE v0 == 1
  <2>1. step \in [Nat \ {0} -> [V -> V]] /\ v0 \in V
    BY <1>1
  <2> HIDE DEF step, V, v0
  <2>2. \E g \in [Nat -> V] : RunsOn(g, v0, step)
    BY <2>1, Iteration
  <2> QED
    BY <2>2 DEF RunsOn, v0
<1>3. \A k \in Nat \ {0} : g[k] = base * g[k - 1]
  <2>1. \A k \in Nat \ {0} : g[k - 1] \in V
    OBVIOUS
  <2> QED
    BY <1>2, <2>1
<1>4. g = Body(g)
  <2>1. \A k \in Nat : g[k] = Body(g)[k]
    <3> TAKE k \in Nat
    <3>1. CASE k = 0
      BY <1>2, <3>1
    <3>2. CASE k # 0
      BY <1>3, <3>2
    <3> QED
      BY <3>1, <3>2
  <2>2. g = [k \in Nat |-> g[k]] /\ Body(g) = [k \in Nat |-> Body(g)[k]]
    OBVIOUS
  <2> HIDE DEF Body
  <2> QED
    BY <2>1, <2>2
<1>5. power = Body(power)
  <2> HIDE DEF Body
  <2> QED
    BY <1>4, Zenon
<1>6. \A n : Power(base, n) = power[n]
  BY DEF Power
<1> HIDE DEF power
<1>7. power[0] = 1 /\ \A n \in Nat : power[n + 1] = base * power[n]
  <2>1. power[0] = 1
    BY <1>5
  <2>2. ASSUME NEW n \in Nat PROVE power[n + 1] = base * power[n]
    <3>1. n + 1 \in Nat /\ n + 1 # 0 /\ n + 1 - 1 = n
      OBVIOUS
    <3> QED
      BY <1>5, <3>1
  <2> QED
    BY <2>1, <2>2
<1> HIDE DEF Body
<1>8. \A n \in Nat : power[n] \in V
  <2> DEFINE S == {n \in Nat : power[n] \in V}
  <2>1. 0 \in S
    BY <1>7
  <2>2. ASSUME NEW n \in Nat, n \in S PROVE n + 1 \in S
    BY <1>1, <1>7, <2>2
  <2> HIDE DEF S
  <2>3. \A n \in Nat : n \in S
    BY <2>1, <2>2, NatSetInduction
  <2> QED
    BY <2>3 DEF S
<1> QED
  BY <1>6, <1>7, <1>8

\* sum is what the first elements of s stand for, one after the other, in a base.
SumsUp(sum, s, base) ==
  /\ sum[0] = 0
  /\ \A k \in 0 .. Len(s) : sum[k] \in Nat
  /\ \A k \in 1 .. Len(s) : sum[k] = sum[k - 1] * base + s[k]

LEMMA NumberRuns ==
  ASSUME NEW s \in Seq(Nat), NEW w \in Widths
  PROVE  /\ Number(s, w) = NumberOf(s, w)
         /\ \E sum : NumberOf(s, w) = sum[Len(s)] /\ SumsUp(sum, s, 2 ^ w)
<1> DEFINE n == Len(s)
           base == 2 ^ w
           Body(g) == [k \in 0 .. n |-> IF k = 0 THEN 0 ELSE g[k - 1] * base + s[k]]
           step == [k \in 1 .. n |-> [x \in Nat |-> x * base + s[k]]]
           sum == CHOOSE g : g = Body(g)
<1>1. n \in Nat /\ (\A k \in 1 .. n : s[k] \in Nat) /\ 0 \in Nat
  OBVIOUS
<1>2. base \in {2, 16, 256}
  BY Bases
<1>3. NumberOf(s, w) = sum[n] /\ Number(s, w) = sum[n]
  BY DEF Number, NumberOf
<1> HIDE DEF base
<1>4. step \in [1 .. n -> [Nat -> Nat]]
  <2>1. \A k \in 1 .. n, x \in Nat : x * base + s[k] \in Nat
    BY <1>1, <1>2
  <2> QED
    BY <2>1
<1>5. \E g : g = Body(g)
  <2>1. PICK g \in [0 .. n -> Nat] : Runs(g, n, 0, step)
    <3> HIDE DEF step, n
    <3> QED
      BY <1>1, <1>4, Recursion
  <2>2. \A k \in 0 .. n : g[k] = Body(g)[k]
    <3> TAKE k \in 0 .. n
    <3>1. CASE k = 0
      BY <2>1, <3>1 DEF Runs
    <3>2. CASE k # 0
      <4>1. k \in 1 .. n /\ k - 1 \in 0 .. n /\ g[k - 1] \in Nat
        BY <1>1, <3>2
      <4>2. g[k] = step[k][g[k - 1]]
        BY <2>1, <4>1 DEF Runs
      <4> QED
        BY <3>2, <4>1, <4>2
    <3> QED
      BY <3>1, <3>2
  <2>3. g = [k \in 0 .. n |-> g[k]] /\ Body(g) = [k \in 0 .. n |-> Body(g)[k]]
    OBVIOUS
  <2>4. g = Body(g)
    <3> HIDE DEF Body
    <3> QED
      BY <2>2, <2>3
  <2> QED
    BY <2>4
<1>6. sum = Body(sum)
  <2> HIDE DEF Body
  <2> QED
    BY <1>5, Zenon
<1> HIDE DEF sum
<1>7. sum[0] = 0
  <2>1. 0 \in 0 .. n
    BY <1>1
  <2> QED
    BY <1>6, <2>1
<1>8. ASSUME NEW k \in 1 .. n PROVE sum[k] = sum[k - 1] * base + s[k]
  <2>1. k \in 0 .. n /\ k # 0
    BY <1>1
  <2> QED
    BY <1>6, <2>1
<1> HIDE DEF Body
<1>9. \A k \in 0 .. n : sum[k] \in Nat
  <2> DEFINE S == {k \in Nat : k <= n => sum[k] \in Nat}
  <2>1. 0 \in S
    BY <1>7
  <2>2. ASSUME NEW k \in Nat, k \in S PROVE k + 1 \in S
    <3> SUFFICES ASSUME k + 1 <= n PROVE sum[k + 1] \in Nat
      OBVIOUS
    <3>1. k + 1 \in 1 .. n /\ (k + 1) - 1 = k /\ sum[k] \in Nat
      BY <1>1, <2>2
    <3>2. sum[k + 1] = sum[k] * base + s[k + 1] /\ s[k + 1] \in Nat
      BY <1>1, <1>8, <3>1
    <3> QED
      BY <1>2, <3>1, <3>2
  <2> HIDE DEF S
  <2>3. \A k \in Nat : k \in S
    BY <2>1, <2>2, NatSetInduction
  <2> QED
    BY <1>1, <2>3 DEF S
<1> QED
  BY <1>3, <1>7, <1>8, <1>9, Zenon DEF SumsUp, n, base

\* The quotient and the remainder of a division.
LEMMA Division ==
  ASSUME NEW q \in Nat, NEW d \in Nat, d > 0, NEW r \in Nat, r < d, NEW x, x = q * d + r
  PROVE  x \div d = q /\ x % d = r
<1>1. x \in Nat
  OBVIOUS
<1>2. x \div d = q
  BY <1>1, SMT
<1>3. x % d = r
  BY <1>1, SMT
<1> QED
  BY <1>2, <1>3

LEMMA LastElement ==
  ASSUME NEW base \in Nat, base > 0, NEW y \in Nat, NEW c \in Nat, c < base
  PROVE  (y * base + c) % base = c
BY SMT

\* Dividing a number by a power of its base leaves what the elements in front
\* stand for, and what remains is the last of these.
LEMMA ElementsBack ==
  ASSUME NEW base \in Nat, base >= 2, NEW s \in Seq(0 .. base - 1),
         NEW sum, SumsUp(sum, s, base)
  PROVE  /\ \A k \in 1 .. Len(s) : (sum[Len(s)] \div Power(base, Len(s) - k)) % base = s[k]
         /\ sum[Len(s)] < Power(base, Len(s))
<1> DEFINE n == Len(s)
<1>1. n \in Nat /\ base \in Nat \ {0} /\ \A k \in 1 .. n : s[k] \in 0 .. base - 1
  OBVIOUS
<1>2. /\ Power(base, 0) = 1
      /\ \A m \in Nat : Power(base, m) \in Nat \ {0} /\ Power(base, m + 1) = base * Power(base, m)
  BY <1>1, PowerIs
<1>3. /\ sum[0] = 0 /\ \A k \in 0 .. n : sum[k] \in Nat
      /\ \A k \in 1 .. n : sum[k] = sum[k - 1] * base + s[k]
  BY DEF SumsUp
<1> HIDE DEF n
<1>4. \A m \in Nat : \A k \in 0 .. n : k + m <= n =>
        \E r \in 0 .. Power(base, m) - 1 : sum[k + m] = sum[k] * Power(base, m) + r
  <2> DEFINE S == {m \in Nat : \A k \in 0 .. n : k + m <= n =>
                     \E r \in 0 .. Power(base, m) - 1 : sum[k + m] = sum[k] * Power(base, m) + r}
  <2>1. 0 \in S
    <3>1. ASSUME NEW k \in 0 .. n
          PROVE  \E r \in 0 .. Power(base, 0) - 1 : sum[k + 0] = sum[k] * Power(base, 0) + r
      <4>1. k + 0 = k /\ sum[k] \in Nat
        BY <1>1, <1>3
      <4>2. 0 \in 0 .. Power(base, 0) - 1
        BY <1>2
      <4>3. sum[k] = sum[k] * Power(base, 0) + 0
        <5> DEFINE x == sum[k]  p == Power(base, 0)
        <5>1. x \in Nat /\ p = 1
          BY <1>2, <4>1
        <5> HIDE DEF x, p
        <5>2. x = x * p + 0
          BY <5>1
        <5> QED
          BY <5>2 DEF x, p
      <4>4. sum[k + 0] = sum[k] * Power(base, 0) + 0
        BY <4>1, <4>3, Zenon
      <4> QED
        BY <4>2, <4>4, Zenon
    <3> QED
      BY <3>1
  <2>2. ASSUME NEW m \in Nat, m \in S PROVE m + 1 \in S
    <3> DEFINE p == Power(base, m)
    <3>1. p \in Nat \ {0} /\ Power(base, m + 1) = base * p
      BY <1>2
    <3>2. ASSUME NEW k \in 0 .. n, k + (m + 1) <= n
          PROVE  \E r \in 0 .. Power(base, m + 1) - 1 :
                   sum[k + (m + 1)] = sum[k] * Power(base, m + 1) + r
      <4>1. k + m + 1 \in 1 .. n /\ k + m + 1 - 1 = k + m /\ k + (m + 1) = k + m + 1 /\ k + m <= n
        BY <1>1, <3>2
      <4>2. PICK r \in 0 .. p - 1 : sum[k + m] = sum[k] * p + r
        BY <2>2, <4>1
      <4>3. sum[k + m + 1] = sum[k + m] * base + s[k + m + 1] /\ s[k + m + 1] \in 0 .. base - 1
        BY <1>1, <1>3, <4>1
      <4> DEFINE c == s[k + m + 1]
                 x == sum[k]
                 q == r * base + c
      <4>4. x \in Nat /\ c \in 0 .. base - 1 /\ r \in Nat /\ r + 1 <= p
        BY <1>3, <3>1, <4>2, <4>3
      <4> HIDE DEF p, c, x
      <4>5. q \in 0 .. base * p - 1
        <5>1. (r + 1) * base <= p * base
          BY <3>1, <4>4
        <5>2. (r + 1) * base = r * base + base /\ r * base \in Nat
          BY <4>4
        <5> DEFINE rb == r * base
        <5>3. p * base = base * p /\ p * base \in Nat
          BY <3>1
        <5> HIDE DEF rb
        <5>4. rb + base <= base * p /\ rb \in Nat
          BY <5>1, <5>2, <5>3 DEF rb
        <5>5. rb + c \in 0 .. base * p - 1
          BY <4>4, <5>3, <5>4
        <5> QED
          BY <5>5 DEF rb
      <4>6. (x * p + r) * base + c = x * (base * p) + q
        BY <3>1, <4>4
      <4>7. sum[k + m + 1] = x * (base * p) + q
        BY <4>2, <4>3, <4>6 DEF x, c
      <4> HIDE DEF q
      <4>8. q \in 0 .. Power(base, m + 1) - 1 /\ sum[k + (m + 1)] = sum[k] * Power(base, m + 1) + q
        BY <3>1, <4>1, <4>5, <4>7 DEF x
      <4> QED
        BY <4>8
    <3> QED
      BY <3>2
  <2> HIDE DEF S
  <2>3. \A m \in Nat : m \in S
    BY <2>1, <2>2, NatSetInduction
  <2> QED
    BY <2>3 DEF S
<1>5. ASSUME NEW k \in 1 .. n PROVE (sum[n] \div Power(base, n - k)) % base = s[k]
  <2> DEFINE m == n - k
             p == Power(base, m)
             x == sum[k]
             y == sum[k - 1]
             total == sum[n]
             c == s[k]
  <2>1. m \in Nat /\ k + m = n /\ k \in 0 .. n /\ k - 1 \in 0 .. n /\ k + m <= n
    BY <1>1
  <2> HIDE DEF m
  <2>2. PICK r \in 0 .. p - 1 : sum[k + m] = x * p + r
    BY <1>4, <2>1
  <2>3. p \in Nat \ {0} /\ x \in Nat /\ y \in Nat /\ x = y * base + c
    BY <1>2, <1>3, <2>1
  <2>4. total = x * p + r
    BY <2>1, <2>2
  <2>5. base > 0 /\ c \in Nat /\ c < base
    BY <1>1
  <2> HIDE DEF p, x, y, total, c
  <2>6. p \in Nat /\ p > 0 /\ r \in Nat /\ r < p
    BY <2>2, <2>3
  <2>7. total \div p = x
    BY <2>3, <2>4, <2>6, Division
  <2>8. x % base = c
    <3>1. (y * base + c) % base = c
      BY <2>3, <2>5, LastElement
    <3> QED
      BY <2>3, <3>1, Zenon
  <2> QED
    BY <2>7, <2>8 DEF total, p, m, c
<1>6. sum[n] < Power(base, n)
  <2>1. 0 \in 0 .. n /\ 0 + n = n /\ n <= n
    BY <1>1
  <2>2. PICK r \in 0 .. Power(base, n) - 1 : sum[n] = sum[0] * Power(base, n) + r
    BY <1>1, <1>4, <2>1
  <2>3. Power(base, n) \in Nat /\ sum[0] = 0
    BY <1>1, <1>2, <1>3
  <2> QED
    BY <2>2, <2>3
<1> QED
  BY <1>5, <1>6 DEF n

\* As many elements as a number needs, that stand for it, are what a conversion
\* should give.
LEMMA ConvertedIs ==
  ASSUME NEW from \in Widths, NEW to \in Widths,
         NEW s \in Seq(0 .. (2 ^ from) - 1), NEW c \in Seq(0 .. (2 ^ to) - 1),
         Len(c) = (Len(s) * from + to - 1) \div to, NumberOf(c, to) = NumberOf(s, from)
  PROVE  Converted(s, from, to) = c
<1> DEFINE base == 2 ^ to
           count == (Len(s) * from + to - 1) \div to
           number == NumberOf(s, from)
           digit(k) == (number \div Power(base, count - k)) % base
<1>1. base \in Nat /\ base >= 2
  <2>1. base = 2 \/ base = 16 \/ base = 256
    BY Bases
  <2> HIDE DEF base
  <2> QED
    BY <2>1
<1>2. c \in Seq(0 .. base - 1) /\ c \in Seq(Nat) /\ Len(c) \in Nat /\ c = [k \in 1 .. Len(c) |-> c[k]]
  <2>1. 0 .. base - 1 \subseteq Nat
    OBVIOUS
  <2>2. c \in Seq(0 .. base - 1)
    OBVIOUS
  <2> HIDE DEF base
  <2>3. c \in Seq(Nat)
    BY <2>1, <2>2, SeqMonotonic
  <2> QED
    BY <2>2, <2>3
<1>3. PICK sum : NumberOf(c, to) = sum[Len(c)] /\ SumsUp(sum, c, base)
  BY <1>2, NumberRuns
<1>4. Converted(s, from, to) = [k \in 1 .. count |-> digit(k)]
  BY DEF Converted
<1>5. number = sum[Len(c)] /\ count = Len(c)
  BY <1>3
<1> HIDE DEF base, count, number
<1>6. \A k \in 1 .. Len(c) : (sum[Len(c)] \div Power(base, Len(c) - k)) % base = c[k]
  BY <1>1, <1>2, <1>3, ElementsBack
<1>7. \A k \in 1 .. count : digit(k) = c[k]
  BY <1>5, <1>6
<1> HIDE DEF digit
<1> QED
  BY <1>2, <1>4, <1>5, <1>7

\* What stands behind a position adds its own number to what stands before.
LEMMA SumsJoin ==
  ASSUME NEW base \in Nat \ {0}, NEW s \in Seq(Nat), NEW sum, SumsUp(sum, s, base),
         NEW a \in 0 .. Len(s), NEW u \in Seq(Nat), NEW t, SumsUp(t, u, base),
         a + Len(u) <= Len(s), \A i \in 1 .. Len(u) : u[i] = s[a + i]
  PROVE  sum[a + Len(u)] = sum[a] * Power(base, Len(u)) + t[Len(u)]
<1> DEFINE n == Len(s)
           l == Len(u)
           S == {i \in Nat : i <= l => sum[a + i] = sum[a] * Power(base, i) + t[i]}
<1>1. n \in Nat /\ l \in Nat /\ a \in 0 .. n /\ a + l <= n /\ \A i \in 1 .. l : s[a + i] = u[i] /\ u[i] \in Nat
  OBVIOUS
<1>2. /\ Power(base, 0) = 1
      /\ \A m \in Nat : Power(base, m) \in Nat \ {0} /\ Power(base, m + 1) = base * Power(base, m)
  BY PowerIs
<1>3. /\ \A k \in 0 .. n : sum[k] \in Nat
      /\ \A k \in 1 .. n : sum[k] = sum[k - 1] * base + s[k]
  BY DEF SumsUp
<1>4. /\ t[0] = 0 /\ \A k \in 0 .. l : t[k] \in Nat
      /\ \A k \in 1 .. l : t[k] = t[k - 1] * base + u[k]
  BY DEF SumsUp
<1> HIDE DEF n, l
<1>5. 0 \in S
  <2> DEFINE x == sum[a]  p == Power(base, 0)  r == t[0]
  <2>1. x \in Nat /\ p = 1 /\ r = 0 /\ a + 0 = a
    BY <1>1, <1>2, <1>3, <1>4
  <2> HIDE DEF x, p, r
  <2>2. x = x * p + r
    BY <2>1
  <2>3. sum[a + 0] = sum[a] * Power(base, 0) + t[0]
    BY <2>1, <2>2 DEF x, p, r
  <2> QED
    BY <2>3
<1>6. ASSUME NEW i \in Nat, i \in S PROVE i + 1 \in S
  <2> SUFFICES ASSUME i + 1 <= l
               PROVE  sum[a + (i + 1)] = sum[a] * Power(base, i + 1) + t[i + 1]
    OBVIOUS
  <2> DEFINE x == sum[a]  y == sum[a + i]  p == Power(base, i)  r == t[i]  c == u[i + 1]
  <2>1. y = x * p + r
    BY <1>1, <1>6
  <2>2. /\ a + i + 1 \in 1 .. n /\ a + i + 1 - 1 = a + i /\ a + (i + 1) = a + i + 1
        /\ i + 1 \in 1 .. l /\ i + 1 - 1 = i /\ a + i \in 0 .. n /\ i \in 0 .. l
    BY <1>1
  <2>3. sum[a + i + 1] = y * base + s[a + i + 1] /\ t[i + 1] = r * base + c
    BY <1>3, <1>4, <2>2
  <2>4. s[a + i + 1] = c /\ c \in Nat
    BY <1>1, <2>2
  <2>5. x \in Nat /\ p \in Nat /\ r \in Nat
    BY <1>1, <1>2, <1>3, <1>4, <2>2
  <2>6. Power(base, i + 1) = base * p
    BY <1>2
  <2> HIDE DEF x, y, p, r, c
  <2>7. (x * p + r) * base + c = x * (base * p) + (r * base + c)
    BY <2>4, <2>5
  <2>8. sum[a + (i + 1)] = x * (base * p) + (r * base + c)
    BY <2>1, <2>2, <2>3, <2>4, <2>7
  <2> QED
    BY <2>3, <2>6, <2>8 DEF x
<1>7. \A i \in Nat : i \in S
  <2> HIDE DEF S
  <2> QED
    BY <1>5, <1>6, NatSetInduction
<1> QED
  BY <1>1, <1>7 DEF l

\* The parts of an element stand for it.
LEMMA PartsOfElement ==
  ASSUME NEW y \in Nat, NEW x \in Nat
  PROVE  /\ x < 256 => (y * 16 + ((x \div 16) % 16)) * 16 + (x % 16) = y * 256 + x
         /\ x < 16 => (((y * 2 + ((x \div 8) % 2)) * 2 + ((x \div 4) % 2)) * 2 + ((x \div 2) % 2)) * 2 + (x % 2)
                        = y * 16 + x
<1>1. ASSUME x < 256 PROVE (y * 16 + ((x \div 16) % 16)) * 16 + (x % 16) = y * 256 + x
  <2>1. (x \div 16) % 16 = x \div 16 /\ x = (x \div 16) * 16 + (x % 16)
    BY <1>1, SMT
  <2> QED
    BY <2>1, SMT
<1>2. ASSUME x < 16
      PROVE  (((y * 2 + ((x \div 8) % 2)) * 2 + ((x \div 4) % 2)) * 2 + ((x \div 2) % 2)) * 2 + (x % 2) = y * 16 + x
  <2> DEFINE a == x \div 2  b == a \div 2  c == b \div 2
  <2>1. x = 2 * a + (x % 2) /\ a = 2 * b + (a % 2) /\ b = 2 * c + (b % 2)
    BY SMT
  <2>2. x \div 4 = b /\ x \div 8 = c
    BY SMT
  <2>3. c % 2 = c
    BY <1>2, SMT
  <2>4. a \in Nat /\ b \in Nat /\ c \in Nat
    BY SMT
  <2> HIDE DEF a, b, c
  <2>5. (((y * 2 + c) * 2 + (b % 2)) * 2 + (a % 2)) * 2 + (x % 2) = y * 16 + x
    BY <2>1, <2>4, SMT
  <2> QED
    BY <2>2, <2>3, <2>5 DEF a
<1> QED
  BY <1>1, <1>2

LEMMA BitsOfByte ==
  ASSUME NEW y \in Nat, NEW x \in Nat, x < 256
  PROVE  (((((((y * 2 + ((x \div 128) % 2)) * 2 + ((x \div 64) % 2)) * 2 + ((x \div 32) % 2)) * 2
             + ((x \div 16) % 2)) * 2 + ((x \div 8) % 2)) * 2 + ((x \div 4) % 2)) * 2 + ((x \div 2) % 2)) * 2 + (x % 2)
           = y * 256 + x
<1> DEFINE h == x \div 16  l == x % 16
<1>1. x = 16 * h + l /\ h \in Nat /\ h < 16 /\ l \in Nat /\ l < 16
  BY SMT
<1>2. /\ (x \div 128) % 2 = (h \div 8) % 2 /\ (x \div 64) % 2 = (h \div 4) % 2
      /\ (x \div 32) % 2 = (h \div 2) % 2 /\ (x \div 16) % 2 = h % 2
  BY SMT
<1>3. /\ (x \div 8) % 2 = (l \div 8) % 2 /\ (x \div 4) % 2 = (l \div 4) % 2
      /\ (x \div 2) % 2 = (l \div 2) % 2 /\ x % 2 = l % 2
  BY SMT
<1> HIDE DEF h, l
<1> DEFINE z == (((y * 2 + ((h \div 8) % 2)) * 2 + ((h \div 4) % 2)) * 2 + ((h \div 2) % 2)) * 2 + (h % 2)
<1>4. z = y * 16 + h
  BY <1>1, PartsOfElement
<1>5. z \in Nat
  BY <1>1, <1>4
<1> HIDE DEF z
<1>6. (((z * 2 + ((l \div 8) % 2)) * 2 + ((l \div 4) % 2)) * 2 + ((l \div 2) % 2)) * 2 + (l % 2) = z * 16 + l
  BY <1>1, <1>5, PartsOfElement
<1>7. z * 16 + l = y * 256 + x
  BY <1>1, <1>4
<1> QED
  BY <1>2, <1>3, <1>6, <1>7, Zenon DEF z

\* Sums of parts are the sums of the elements, if each element is the sum of its
\* parts.
LEMMA PartsAddUp ==
  ASSUME NEW n \in Nat, NEW parts \in Nat, NEW sum, NEW part, part[0] = sum[0],
         \A j \in 0 .. n - 1 : part[parts * j] = sum[j] => part[parts * j + parts] = sum[j + 1]
  PROVE  part[parts * n] = sum[n]
<1> DEFINE S == {j \in Nat : j <= n => part[parts * j] = sum[j]}
<1>1. 0 \in S
  <2>1. parts * 0 = 0
    OBVIOUS
  <2> QED
    BY <2>1
<1>2. ASSUME NEW j \in Nat, j \in S PROVE j + 1 \in S
  <2> SUFFICES ASSUME j + 1 <= n PROVE part[parts * (j + 1)] = sum[j + 1]
    OBVIOUS
  <2>1. j \in 0 .. n - 1 /\ part[parts * j] = sum[j]
    BY <1>2
  <2>2. parts * (j + 1) = parts * j + parts
    OBVIOUS
  <2> QED
    BY <2>1, <2>2
<1> HIDE DEF S
<1>3. \A j \in Nat : j \in S
  BY <1>1, <1>2, NatSetInduction
<1> QED
  BY <1>3 DEF S

\* Where the parts of an element stand.
LEMMA Positions ==
  ASSUME NEW n \in Nat, NEW parts \in {2, 4, 8}
  PROVE  /\ \A j \in 0 .. n - 1, i \in 1 .. parts :
              /\ parts * j + i \in 1 .. parts * n
              /\ ((parts * j + i) - 1) \div parts = j
              /\ ((parts * j + i) - 1) % parts = i - 1
         /\ \A k \in 1 .. parts * n :
              /\ (k - 1) \div parts \in 0 .. n - 1
              /\ ((k - 1) % parts) + 1 \in 1 .. parts
              /\ k = parts * ((k - 1) \div parts) + (((k - 1) % parts) + 1)
<1>1. ASSUME NEW j \in 0 .. n - 1, NEW i \in 1 .. parts
      PROVE  /\ parts * j + i \in 1 .. parts * n
             /\ ((parts * j + i) - 1) \div parts = j
             /\ ((parts * j + i) - 1) % parts = i - 1
  <2>1. CASE parts = 2
    <3>1. i = 1 \/ i = 2
      BY <2>1
    <3> QED
      BY <2>1, <3>1
  <2>2. CASE parts = 4
    <3>1. i = 1 \/ i = 2 \/ i = 3 \/ i = 4
      BY <2>2
    <3> QED
      BY <2>2, <3>1
  <2>3. CASE parts = 8
    <3>1. i = 1 \/ i = 2 \/ i = 3 \/ i = 4 \/ i = 5 \/ i = 6 \/ i = 7 \/ i = 8
      BY <2>3
    <3> QED
      BY <2>3, <3>1
  <2> QED
    BY <2>1, <2>2, <2>3
<1>2. ASSUME NEW k \in 1 .. parts * n
      PROVE  /\ (k - 1) \div parts \in 0 .. n - 1
             /\ ((k - 1) % parts) + 1 \in 1 .. parts
             /\ k = parts * ((k - 1) \div parts) + (((k - 1) % parts) + 1)
  <2> DEFINE x == k - 1
  <2>1. x \in Nat /\ x + 1 <= parts * n /\ k = x + 1
    OBVIOUS
  <2> HIDE DEF x
  <2>2. x \div parts \in 0 .. n - 1 /\ (x % parts) + 1 \in 1 .. parts
        /\ x = parts * (x \div parts) + (x % parts)
    <3>1. CASE parts = 2
      BY <2>1, <3>1
    <3>2. CASE parts = 4
      BY <2>1, <3>2
    <3>3. CASE parts = 8
      BY <2>1, <3>3
    <3> QED
      BY <3>1, <3>2, <3>3
  <2>3. \A q \in Int, r \in Int : x = parts * q + r => x + 1 = parts * q + (r + 1)
    BY <2>1
  <2>4. x \div parts \in Int /\ x % parts \in Int
    <3> DEFINE r == x % parts
    <3>1. r + 1 \in 1 .. parts /\ r \in Int
      BY <2>1, <2>2
    <3> QED
      BY <2>2, <3>1
  <2>5. x + 1 = parts * (x \div parts) + ((x % parts) + 1)
    BY <2>2, <2>3, <2>4, Zenon
  <2> QED
    BY <2>1, <2>2, <2>5, Zenon DEF x
<1> QED
  BY <1>1, <1>2

\* The parts that an element is cut into, from the most significant on.
PartsOf(s, j, w, parts) ==
  [i \in 1 .. parts |-> (s[j + 1] \div (2 ^ (w * (parts - i)))) % (2 ^ w)]

LEMMA CutParts ==
  ASSUME NEW s \in Seq(Nat), NEW parts \in {2, 4, 8}, NEW w \in Widths
  PROVE  /\ Cut(s, parts, w) = [k \in 1 .. parts * Len(s) |-> Cut(s, parts, w)[k]]
         /\ \A j \in 0 .. Len(s) - 1, i \in 1 .. parts :
              /\ parts * j + i \in 1 .. parts * Len(s)
              /\ Cut(s, parts, w)[parts * j + i] = PartsOf(s, j, w, parts)[i]
         /\ \A k \in 1 .. parts * Len(s) :
              \E j \in 0 .. Len(s) - 1, i \in 1 .. parts : k = parts * j + i
<1> DEFINE n == Len(s)
           at(k) == (k - 1) \div parts + 1
           e(k) == w * (parts - 1 - ((k - 1) % parts))
           part(k) == (s[at(k)] \div (2 ^ e(k))) % (2 ^ w)
<1>1. Cut(s, parts, w) = [k \in 1 .. parts * n |-> part(k)] /\ n \in Nat
  BY DEF Cut
<1>2. ASSUME NEW j \in 0 .. n - 1, NEW i \in 1 .. parts
      PROVE  /\ parts * j + i \in 1 .. parts * n
             /\ at(parts * j + i) = j + 1 /\ e(parts * j + i) = w * (parts - i)
  <2> DEFINE k == parts * j + i
  <2>1. k \in 1 .. parts * n /\ (k - 1) \div parts = j /\ (k - 1) % parts = i - 1
    <3>1. n \in Nat
      BY <1>1
    <3> HIDE DEF n
    <3>2. /\ parts * j + i \in 1 .. parts * n
          /\ ((parts * j + i) - 1) \div parts = j
          /\ ((parts * j + i) - 1) % parts = i - 1
      BY <3>1, Positions, Zenon
    <3> QED
      BY <3>2, Zenon DEF k
  <2>2. parts - 1 - (i - 1) = parts - i
    OBVIOUS
  <2> QED
    BY <2>1, <2>2, Zenon
<1>3. ASSUME NEW j \in 0 .. n - 1, NEW i \in 1 .. parts
      PROVE  Cut(s, parts, w)[parts * j + i] = PartsOf(s, j, w, parts)[i]
  <2>1. part(parts * j + i) = (s[j + 1] \div (2 ^ (w * (parts - i)))) % (2 ^ w)
    BY <1>2, Zenon
  <2> HIDE DEF part
  <2>2. Cut(s, parts, w)[parts * j + i] = part(parts * j + i)
    BY <1>1, <1>2
  <2> QED
    BY <2>1, <2>2 DEF PartsOf
<1>4. ASSUME NEW k \in 1 .. parts * n
      PROVE  \E j \in 0 .. n - 1, i \in 1 .. parts : k = parts * j + i
  <2> DEFINE j == (k - 1) \div parts
             i == ((k - 1) % parts) + 1
  <2>1. j \in 0 .. n - 1 /\ i \in 1 .. parts /\ k = parts * j + i
    BY <1>1, Positions, Zenon
  <2> HIDE DEF i, j
  <2> QED
    BY <2>1
<1>5. Cut(s, parts, w) = [k \in 1 .. parts * n |-> Cut(s, parts, w)[k]]
  <2> HIDE DEF part, n
  <2> QED
    BY <1>1
<1> HIDE DEF part
<1> QED
  BY <1>2, <1>3, <1>4, <1>5 DEF n

\* The powers of two that occur.
LEMMA Twos ==
  /\ 2 ^ 0 = 1 /\ 2 ^ 1 = 2 /\ 2 ^ 2 = 4 /\ 2 ^ 3 = 8
  /\ 2 ^ 4 = 16 /\ 2 ^ 5 = 32 /\ 2 ^ 6 = 64 /\ 2 ^ 7 = 128 /\ 2 ^ 8 = 256
BY SMT

\* z starts at y and takes up the parts of the element x of s.
PartsRun(s, j, w, v, parts, x, y, z) ==
  /\ w \in Widths /\ v \in Widths /\ w < v /\ parts = v \div w
  /\ x = s[j + 1] /\ x \in 0 .. (2 ^ v) - 1
  /\ y \in Nat /\ z[0] = y
  /\ \A i \in 1 .. parts : z[i] = z[i - 1] * (2 ^ w) + PartsOf(s, j, w, parts)[i]

LEMMA PartsNumber ==
  ASSUME NEW s, NEW j, NEW w, NEW v, NEW parts, NEW x, NEW y, NEW z,
         PartsRun(s, j, w, v, parts, x, y, z)
  PROVE  z[parts] = y * (2 ^ v) + x
<1>0. /\ w \in Widths /\ v \in Widths /\ w < v /\ parts = v \div w
      /\ x = s[j + 1] /\ x \in 0 .. (2 ^ v) - 1 /\ y \in Nat
  BY DEF PartsRun
<1> DEFINE rest(e) == (x \div (2 ^ e)) % (2 ^ w)
           base == 2 ^ w
<1>1. \/ w = 1 /\ v = 4 /\ parts = 4
      \/ w = 1 /\ v = 8 /\ parts = 8
      \/ w = 4 /\ v = 8 /\ parts = 2
  BY <1>0 DEF Widths
<1>2. z[0] = y /\ \A i \in 1 .. parts : z[i] = z[i - 1] * base + rest(w * (parts - i))
  BY <1>0 DEF PartsOf, PartsRun
<1>3. x \div 1 = x
  <2>1. x \in Int
    BY <1>0
  <2> QED
    BY <2>1, SMT
<1>4. CASE w = 4 /\ v = 8 /\ parts = 2
  <2>1. base = 16 /\ 2 ^ v = 256
    BY <1>4, Twos, Zenon
  <2>2. rest(4) = (x \div 16) % 16 /\ rest(0) = x % 16
    <3>1. rest(4) = (x \div 16) % 16
      BY <1>4, Twos, Zenon
    <3>2. rest(0) = (x \div 1) % 16
      BY <1>4, Twos, Zenon
    <3> QED
      BY <1>3, <3>1, <3>2, Zenon
  <2> HIDE DEF rest, base
  <2>3. z[1] = y * 16 + rest(4) /\ z[2] = z[1] * 16 + rest(0)
    BY <1>2, <1>4, <2>1
  <2>4. x \in Nat /\ x < 256
    BY <1>0, <2>1
  <2>5. (y * 16 + ((x \div 16) % 16)) * 16 + (x % 16) = y * 256 + x
    BY <1>0, <2>4, PartsOfElement
  <2>6. z[2] = y * 256 + x
    BY <2>2, <2>3, <2>5
  <2> QED
    BY <1>4, <2>1, <2>6, Zenon
<1>5. CASE w = 1 /\ v = 4 /\ parts = 4
  <2>1. base = 2 /\ 2 ^ v = 16
    BY <1>5, Twos, Zenon
  <2>2. rest(3) = (x \div 8) % 2 /\ rest(2) = (x \div 4) % 2 /\ rest(1) = (x \div 2) % 2 /\ rest(0) = x % 2
    <3>1. rest(3) = (x \div 8) % 2
      BY <1>5, Twos, Zenon
    <3>2. rest(2) = (x \div 4) % 2
      BY <1>5, Twos, Zenon
    <3>3. rest(1) = (x \div 2) % 2
      BY <1>5, Twos, Zenon
    <3>4. rest(0) = (x \div 1) % 2
      BY <1>5, Twos, Zenon
    <3> QED
      BY <1>3, <3>1, <3>2, <3>3, <3>4, Zenon
  <2> HIDE DEF rest, base
  <2>3. /\ z[1] = y * 2 + rest(3) /\ z[2] = z[1] * 2 + rest(2)
        /\ z[3] = z[2] * 2 + rest(1) /\ z[4] = z[3] * 2 + rest(0)
    BY <1>2, <1>5, <2>1
  <2>4. x \in Nat /\ x < 16
    BY <1>0, <2>1
  <2>5. (((y * 2 + ((x \div 8) % 2)) * 2 + ((x \div 4) % 2)) * 2 + ((x \div 2) % 2)) * 2 + (x % 2) = y * 16 + x
    BY <1>0, <2>4, PartsOfElement
  <2>6. z[4] = y * 16 + x
    BY <2>2, <2>3, <2>5
  <2> QED
    BY <1>5, <2>1, <2>6, Zenon
<1>6. CASE w = 1 /\ v = 8 /\ parts = 8
  <2>1. base = 2 /\ 2 ^ v = 256
    BY <1>6, Twos, Zenon
  <2>2. /\ rest(7) = (x \div 128) % 2 /\ rest(6) = (x \div 64) % 2
        /\ rest(5) = (x \div 32) % 2 /\ rest(4) = (x \div 16) % 2
    <3>1. rest(7) = (x \div 128) % 2
      BY <1>6, Twos, Zenon
    <3>2. rest(6) = (x \div 64) % 2
      BY <1>6, Twos, Zenon
    <3>3. rest(5) = (x \div 32) % 2
      BY <1>6, Twos, Zenon
    <3>4. rest(4) = (x \div 16) % 2
      BY <1>6, Twos, Zenon
    <3> QED
      BY <3>1, <3>2, <3>3, <3>4
  <2>3. /\ rest(3) = (x \div 8) % 2 /\ rest(2) = (x \div 4) % 2
        /\ rest(1) = (x \div 2) % 2 /\ rest(0) = x % 2
    <3>1. rest(3) = (x \div 8) % 2
      BY <1>6, Twos, Zenon
    <3>2. rest(2) = (x \div 4) % 2
      BY <1>6, Twos, Zenon
    <3>3. rest(1) = (x \div 2) % 2
      BY <1>6, Twos, Zenon
    <3>4. rest(0) = (x \div 1) % 2
      BY <1>6, Twos, Zenon
    <3> QED
      BY <1>3, <3>1, <3>2, <3>3, <3>4, Zenon
  <2> HIDE DEF rest, base
  <2>4. /\ z[1] = y * 2 + rest(7) /\ z[2] = z[1] * 2 + rest(6)
        /\ z[3] = z[2] * 2 + rest(5) /\ z[4] = z[3] * 2 + rest(4)
        /\ z[5] = z[4] * 2 + rest(3) /\ z[6] = z[5] * 2 + rest(2)
        /\ z[7] = z[6] * 2 + rest(1) /\ z[8] = z[7] * 2 + rest(0)
    BY <1>2, <1>6, <2>1
  <2>5. x \in Nat /\ x < 256
    BY <1>0, <2>1
  <2>6. (((((((y * 2 + ((x \div 128) % 2)) * 2 + ((x \div 64) % 2)) * 2 + ((x \div 32) % 2)) * 2
             + ((x \div 16) % 2)) * 2 + ((x \div 8) % 2)) * 2 + ((x \div 4) % 2)) * 2 + ((x \div 2) % 2)) * 2 + (x % 2)
           = y * 256 + x
    BY <1>0, <2>5, BitsOfByte
  <2>7. (((((((y * 2 + rest(7)) * 2 + rest(6)) * 2 + rest(5)) * 2 + rest(4)) * 2
             + rest(3)) * 2 + rest(2)) * 2 + rest(1)) * 2 + rest(0) = y * 256 + x
    BY <2>2, <2>3, <2>6
  <2>8. z[8] = y * 256 + x
    <3> DEFINE z1 == y * 2 + rest(7)   z2 == z1 * 2 + rest(6)
               z3 == z2 * 2 + rest(5)  z4 == z3 * 2 + rest(4)
               z5 == z4 * 2 + rest(3)  z6 == z5 * 2 + rest(2)
               z7 == z6 * 2 + rest(1)  z8 == z7 * 2 + rest(0)
    <3>1. z8 = y * 256 + x
      BY <2>7, Zenon
    <3>2. z[1] = z1 /\ (z[1] = z1 => z[2] = z2) /\ (z[2] = z2 => z[3] = z3) /\ (z[3] = z3 => z[4] = z4)
      BY <2>4, Zenon
    <3>3. /\ (z[4] = z4 => z[5] = z5) /\ (z[5] = z5 => z[6] = z6)
          /\ (z[6] = z6 => z[7] = z7) /\ (z[7] = z7 => z[8] = z8)
      <4> HIDE DEF z4
      <4> QED
        BY <2>4, Zenon
    <3> HIDE DEF z1, z2, z3, z4, z5, z6, z7, z8
    <3> QED
      BY <3>1, <3>2, <3>3
  <2> QED
    BY <1>6, <2>1, <2>8, Zenon
<1> QED
  BY <1>1, <1>4, <1>5, <1>6

\* A function of the first numbers is a sequence of what its values are.
LEMMA FunctionIsSeq ==
  ASSUME NEW l \in Nat, NEW D, NEW c, c = [k \in 1 .. l |-> c[k]], \A k \in 1 .. l : c[k] \in D
  PROVE  c \in Seq(D) /\ Len(c) = l
<1> DEFINE f == [k \in 1 .. l |-> c[k]]
<1>1. f \in Seq(D) /\ Len(f) = l
  OBVIOUS
<1> QED
  BY <1>1, Zenon DEF f

\* What stands for the parts of every element is the number of the elements.
LEMMA CutNumber ==
  ASSUME NEW w \in Widths, NEW v \in Widths, w < v, NEW s \in Seq(0 .. (2 ^ v) - 1)
  PROVE  /\ Cut(s, v \div w, w) \in Seq(0 .. (2 ^ w) - 1)
         /\ Len(Cut(s, v \div w, w)) = (v \div w) * Len(s)
         /\ NumberOf(Cut(s, v \div w, w), w) = NumberOf(s, v)
<1> DEFINE parts == v \div w
           c == Cut(s, parts, w)
           base == 2 ^ w
           n == Len(s)
           D == 0 .. (2 ^ v) - 1
<1>1. parts \in {2, 4, 8}
  BY DEF Widths
<1>2. base \in Nat \ {0} /\ D \subseteq Nat
  <2>1. base = 2 \/ base = 16 \/ base = 256
    BY Bases
  <2>2. D \subseteq Nat
    BY ElementsAreBytes DEF Byte
  <2> HIDE DEF base
  <2> QED
    BY <2>1, <2>2
<1>3. n \in Nat /\ s \in Seq(Nat) /\ \A k \in 1 .. n : s[k] \in D
  <2>1. s \in Seq(D)
    OBVIOUS
  <2> HIDE DEF D
  <2>2. s \in Seq(Nat)
    BY <1>2, <2>1, SeqMonotonic
  <2> QED
    BY <2>1, <2>2
<1> HIDE DEF parts, D
<1>4. /\ c = [k \in 1 .. parts * n |-> c[k]]
      /\ \A j \in 0 .. n - 1, i \in 1 .. parts :
           /\ parts * j + i \in 1 .. parts * n
           /\ c[parts * j + i] = PartsOf(s, j, w, parts)[i]
      /\ \A k \in 1 .. parts * n :
           \E j \in 0 .. n - 1, i \in 1 .. parts : k = parts * j + i
  BY <1>1, <1>3, CutParts
<1> HIDE DEF c, n
<1>5. \A k \in 1 .. parts * n : c[k] \in 0 .. base - 1
  <2> SUFFICES ASSUME NEW j \in 0 .. n - 1, NEW i \in 1 .. parts
               PROVE  PartsOf(s, j, w, parts)[i] \in 0 .. base - 1
    BY <1>4
  <2> DEFINE p == 2 ^ (w * (parts - i))
             x == s[j + 1]
  <2>1. PartsOf(s, j, w, parts)[i] = (x \div p) % base
    BY DEF PartsOf
  <2>2. x \in Nat
    <3>1. j + 1 \in 1 .. n
      BY <1>3
    <3> QED
      BY <1>2, <1>3, <3>1
  <2>3. p \in Nat \ {0}
    <3> DEFINE e == w * (parts - i)
    <3>1. \/ w = 1 /\ parts = 4
          \/ w = 1 /\ parts = 8
          \/ w = 4 /\ parts = 2
      BY DEF Widths, parts
    <3>2. e \in {0, 1, 2, 3, 4, 5, 6, 7}
      BY <3>1
    <3> HIDE DEF e
    <3>3. /\ 2 ^ 0 \in Nat \ {0} /\ 2 ^ 1 \in Nat \ {0} /\ 2 ^ 2 \in Nat \ {0}
          /\ 2 ^ 3 \in Nat \ {0} /\ 2 ^ 4 \in Nat \ {0} /\ 2 ^ 5 \in Nat \ {0}
          /\ 2 ^ 6 \in Nat \ {0} /\ 2 ^ 7 \in Nat \ {0}
      BY Twos, SMT
    <3>4. 2 ^ e \in Nat \ {0}
      BY <3>2, <3>3, Zenon
    <3> QED
      BY <3>4 DEF e
  <2> HIDE DEF p, x, base
  <2>4. x \div p \in Int
    BY <2>2, <2>3
  <2>5. (x \div p) % base \in 0 .. base - 1
    BY <1>2, <2>4
  <2> QED
    BY <2>1, <2>5
<1>6. parts * n \in Nat
  BY <1>1, <1>3
<1>7. c \in Seq(0 .. base - 1) /\ Len(c) = parts * n
  <2> HIDE DEF base
  <2> DEFINE l == parts * n
             E == 0 .. base - 1
  <2>1. l \in Nat /\ c = [k \in 1 .. l |-> c[k]] /\ \A k \in 1 .. l : c[k] \in E
    BY <1>4, <1>5, <1>6
  <2> HIDE DEF l, E
  <2>2. c \in Seq(E) /\ Len(c) = l
    BY <2>1, FunctionIsSeq, Zenon
  <2> QED
    BY <2>2 DEF l, E
<1>8. c \in Seq(Nat)
  <2>1. 0 .. base - 1 \subseteq Nat
    OBVIOUS
  <2> HIDE DEF base
  <2> QED
    BY <1>7, <2>1, SeqMonotonic
<1>9. PICK sum : NumberOf(s, v) = sum[n] /\ SumsUp(sum, s, 2 ^ v)
  BY <1>3, NumberRuns DEF n
<1>10. PICK part : NumberOf(c, w) = part[Len(c)] /\ SumsUp(part, c, base)
  BY <1>8, NumberRuns
<1>11. part[0] = sum[0]
  BY <1>9, <1>10 DEF SumsUp
<1>12. ASSUME NEW j \in 0 .. n - 1, part[parts * j] = sum[j]
       PROVE  part[parts * j + parts] = sum[j + 1]
  <2> DEFINE y == sum[j]
             x == s[j + 1]
             z == [i \in 0 .. parts |-> part[parts * j + i]]
  <2>1. y \in Nat /\ x \in D /\ sum[j + 1] = y * (2 ^ v) + x
    <3>1. j + 1 \in 1 .. n /\ (j + 1) - 1 = j /\ j \in 0 .. n
      BY <1>3
    <3>2. \A k \in 1 .. n : sum[k] = sum[k - 1] * (2 ^ v) + s[k]
      BY <1>9 DEF SumsUp, n
    <3>3. \A k \in 0 .. n : sum[k] \in Nat
      BY <1>9 DEF SumsUp, n
    <3>4. sum[j + 1] = sum[j] * (2 ^ v) + s[j + 1]
      BY <3>1, <3>2, Zenon
    <3> QED
      BY <1>3, <3>1, <3>3, <3>4
  <2>2. 0 \in 0 .. parts /\ parts \in 0 .. parts /\ parts * j + 0 = parts * j /\ parts \in Nat
    BY <1>1
  <2>3. z[0] = y /\ z[parts] = part[parts * j + parts]
    BY <1>12, <2>2
  <2>4. \A i \in 1 .. parts : z[i] = z[i - 1] * base + PartsOf(s, j, w, parts)[i]
    <3> TAKE i \in 1 .. parts
    <3> DEFINE k == parts * j + i
    <3>1. i \in 0 .. parts /\ i - 1 \in 0 .. parts /\ k - 1 = parts * j + (i - 1)
      BY <1>1
    <3>2. k \in 1 .. Len(c) /\ c[k] = PartsOf(s, j, w, parts)[i]
      BY <1>4, <1>7
    <3>3. part[k] = part[k - 1] * base + c[k]
      BY <1>10, <3>2 DEF SumsUp
    <3>4. z[i] = part[k] /\ z[i - 1] = part[k - 1]
      BY <3>1
    <3> QED
      BY <3>2, <3>3, <3>4, Zenon
  <2> HIDE DEF z, y
  <2>5. z[parts] = y * (2 ^ v) + x
    <3>1. x \in 0 .. (2 ^ v) - 1 /\ parts = v \div w /\ y \in Nat
      BY <2>1 DEF D, parts
    <3>2. PartsRun(s, j, w, v, parts, x, y, z)
      BY <2>3, <2>4, <3>1, Zenon DEF PartsRun
    <3> HIDE DEF x
    <3> QED
      BY <3>2, PartsNumber
  <2> QED
    BY <2>1, <2>3, <2>5
<1>13. part[parts * n] = sum[n]
  <2>1. parts \in Nat
    BY <1>1
  <2> QED
    BY <1>3, <1>11, <1>12, <2>1, PartsAddUp, Zenon
<1> QED
  BY <1>7, <1>9, <1>10, <1>13 DEF c, parts, n

-------------------------------------------------------------------------------
\* The powers of the bases that a group is a digit in.
LEMMA PowersAre ==
  /\ Power(16, 1) = 16 /\ Power(16, 2) = 256
  /\ Power(2, 1) = 2 /\ Power(2, 2) = 4 /\ Power(2, 3) = 8 /\ Power(2, 4) = 16
  /\ Power(2, 5) = 32 /\ Power(2, 6) = 64 /\ Power(2, 7) = 128 /\ Power(2, 8) = 256
<1>1. \A base \in Nat \ {0} :
        /\ Power(base, 0) = 1
        /\ \A n \in Nat : Power(base, n + 1) = base * Power(base, n)
  BY PowerIs
<1>2. Power(16, 1) = 16 /\ Power(16, 2) = 256
  <2> DEFINE p(n) == Power(16, n)
  <2>1. p(0) = 1 /\ \A n \in Nat : p(n + 1) = 16 * p(n)
    BY <1>1
  <2> HIDE DEF p
  <2>2. p(0 + 1) = 16 * p(0) /\ p(1 + 1) = 16 * p(1)
    BY <2>1
  <2>3. p(1) = 16 /\ p(2) = 256
    BY <2>1, <2>2
  <2> QED
    BY <2>3 DEF p
<1>3. /\ Power(2, 1) = 2 /\ Power(2, 2) = 4 /\ Power(2, 3) = 8 /\ Power(2, 4) = 16
      /\ Power(2, 5) = 32 /\ Power(2, 6) = 64 /\ Power(2, 7) = 128 /\ Power(2, 8) = 256
  <2> DEFINE p(n) == Power(2, n)
  <2>1. p(0) = 1 /\ \A n \in Nat : p(n + 1) = 2 * p(n)
    BY <1>1
  <2> HIDE DEF p
  <2>2. /\ p(0 + 1) = 2 * p(0) /\ p(1 + 1) = 2 * p(1) /\ p(2 + 1) = 2 * p(2) /\ p(3 + 1) = 2 * p(3)
        /\ p(4 + 1) = 2 * p(4) /\ p(5 + 1) = 2 * p(5) /\ p(6 + 1) = 2 * p(6) /\ p(7 + 1) = 2 * p(7)
    BY <2>1
  <2>3. p(1) = 2 /\ p(2) = 4 /\ p(3) = 8 /\ p(4) = 16 /\ p(5) = 32 /\ p(6) = 64 /\ p(7) = 128 /\ p(8) = 256
    BY <2>1, <2>2
  <2> QED
    BY <2>3 DEF p
<1> QED
  BY <1>2, <1>3

\* Where the groups end: cut(k) elements are in the first k of them.
GroupsEnd(cut, n, size, groups) ==
  /\ groups \in Nat /\ groups = (n + size - 1) \div size
  /\ cut[0] = 0 /\ cut[groups] = n
  /\ \A k \in 0 .. groups : cut[k] \in 0 .. n
  /\ \A k \in 1 .. groups : cut[k] - cut[k - 1] \in 1 .. size
  /\ \A k \in 2 .. groups : cut[k] - cut[k - 1] = size

GroupsAre(s, size, f, cut, groups) ==
  /\ GroupsEnd(cut, Len(s), size, groups)
  /\ Group(s, size, f) = [k \in 1 .. groups |-> Number(SubSeq(s, cut[k - 1] + 1, cut[k]), f)]

LEMMA GroupSpans ==
  ASSUME NEW s, Len(s) \in Nat, NEW size \in {2, 4, 8}, NEW f
  PROVE  \E cut, groups : GroupsAre(s, size, f, cut, groups)
<1> DEFINE n == Len(s)
           first == n % size
           groups == (n + size - 1) \div size
           upTo(k) == IF first = 0 THEN k * size ELSE first + (k - 1) * size
           from(k) == IF upTo(k) <= size THEN 1 ELSE upTo(k) - size + 1
           cut == [k \in 0 .. groups |-> IF k = 0 THEN 0 ELSE upTo(k)]
<1>1. n \in Nat /\ groups \in Nat
  OBVIOUS
<1>2. Group(s, size, f) = [k \in 1 .. groups |-> Number(SubSeq(s, from(k), upTo(k)), f)]
  BY DEF Group
<1>3. /\ first \in 0 .. size - 1 /\ (first = 0 => n = groups * size)
      /\ (first # 0 => groups > 0 /\ n = first + (groups - 1) * size)
  <2> HIDE DEF n
  <2>1. CASE size = 2
    BY <1>1, <2>1
  <2>2. CASE size = 4
    BY <1>1, <2>2
  <2>3. CASE size = 8
    BY <1>1, <2>3
  <2> QED
    BY <2>1, <2>2, <2>3
<1> HIDE DEF n, groups, first
<1>4. ASSUME NEW k \in 1 .. groups
      PROVE  /\ upTo(k) \in 1 .. n
             /\ from(k) = (IF k = 1 THEN 0 ELSE upTo(k - 1)) + 1
             /\ upTo(k) - (IF k = 1 THEN 0 ELSE upTo(k - 1)) \in 1 .. size
             /\ k > 1 => upTo(k) - upTo(k - 1) = size
  <2>1. CASE size = 2
    BY <1>1, <1>3, <2>1
  <2>2. CASE size = 4
    BY <1>1, <1>3, <2>2
  <2>3. CASE size = 8
    BY <1>1, <1>3, <2>3
  <2> QED
    BY <2>1, <2>2, <2>3
<1>5. groups > 0 => upTo(groups) = n
  BY <1>1, <1>3
<1>6. groups = 0 => n = 0
  BY <1>1, <1>3
<1> HIDE DEF upTo, from
<1>7. \A k \in 1 .. groups : cut[k] = upTo(k) /\ cut[k - 1] = IF k = 1 THEN 0 ELSE upTo(k - 1)
  BY <1>1
<1>8. cut[0] = 0 /\ cut[groups] = n
  BY <1>1, <1>5, <1>6
<1> HIDE DEF cut
<1>9. \A k \in 0 .. groups : cut[k] \in 0 .. n
  <2> TAKE k \in 0 .. groups
  <2>1. k = 0 \/ k \in 1 .. groups
    BY <1>1
  <2> QED
    BY <1>1, <1>4, <1>7, <1>8, <2>1
<1>10. \A k \in 1 .. groups : cut[k] - cut[k - 1] \in 1 .. size
  BY <1>4, <1>7
<1>11. \A k \in 2 .. groups : cut[k] - cut[k - 1] = size
  <2> TAKE k \in 2 .. groups
  <2>1. k \in 1 .. groups /\ k > 1 /\ k # 1
    OBVIOUS
  <2> QED
    BY <1>4, <1>7, <2>1
<1>12. Group(s, size, f) = [k \in 1 .. groups |-> Number(SubSeq(s, cut[k - 1] + 1, cut[k]), f)]
  <2>1. \A k \in 1 .. groups : from(k) = cut[k - 1] + 1 /\ upTo(k) = cut[k]
    BY <1>4, <1>7
  <2> QED
    BY <1>2, <2>1
<1>13. GroupsEnd(cut, n, size, groups)
  BY <1>1, <1>8, <1>9, <1>10, <1>11 DEF GroupsEnd, groups
<1>14. GroupsAre(s, size, f, cut, groups)
  BY <1>12, <1>13 DEF GroupsAre, n
<1> QED
  BY <1>14, Zenon

\* The elements of a group are a digit in the base of the group.
GroupRun(s, f, w, size, sum, a, l) ==
  /\ f \in Widths /\ w \in Widths /\ f < w /\ size = w \div f
  /\ s \in Seq(0 .. (2 ^ f) - 1) /\ SumsUp(sum, s, 2 ^ f)
  /\ a \in 0 .. Len(s) /\ l \in 1 .. size /\ a + l <= Len(s)
  /\ l = size \/ a = 0

LEMMA GroupStep ==
  ASSUME NEW s, NEW f, NEW w, NEW size, NEW sum, NEW a, NEW l, GroupRun(s, f, w, size, sum, a, l)
  PROVE  /\ Number(SubSeq(s, a + 1, a + l), f) \in 0 .. (2 ^ w) - 1
         /\ sum[a + l] = sum[a] * (2 ^ w) + Number(SubSeq(s, a + 1, a + l), f)
<1> DEFINE base == 2 ^ f
           target == 2 ^ w
           u == SubSeq(s, a + 1, a + l)
           D == 0 .. base - 1
<1>0. /\ f \in Widths /\ w \in Widths /\ f < w /\ size = w \div f
      /\ s \in Seq(D) /\ SumsUp(sum, s, base)
      /\ a \in 0 .. Len(s) /\ l \in 1 .. size /\ a + l <= Len(s)
      /\ l = size \/ a = 0
  BY DEF GroupRun
<1>1. \/ f = 4 /\ w = 8 /\ size = 2
      \/ f = 1 /\ w = 4 /\ size = 4
      \/ f = 1 /\ w = 8 /\ size = 8
  BY <1>0 DEF Widths
<1>2. /\ base \in Nat \ {0} /\ base >= 2 /\ target \in Nat \ {0}
      /\ Power(base, size) = target
      /\ \A i \in 1 .. size : Power(base, i) <= target
  <2> DEFINE p(i) == Power(base, i)
  <2>1. CASE f = 4 /\ w = 8 /\ size = 2
    <3>1. base = 16 /\ target = 256
      BY <2>1, Twos, Zenon
    <3>2. p(1) = 16 /\ p(2) = 256
      BY <3>1, PowersAre, Zenon
    <3> HIDE DEF p, base, target
    <3>3. p(size) = target /\ \A i \in 1 .. size : p(i) <= target
      BY <2>1, <3>1, <3>2
    <3>4. base \in Nat \ {0} /\ base >= 2 /\ target \in Nat \ {0}
      BY <3>1
    <3> QED
      BY <3>3, <3>4 DEF p
  <2>2. CASE f = 1 /\ w = 4 /\ size = 4
    <3>1. base = 2 /\ target = 16
      BY <2>2, Twos, Zenon
    <3>2. p(1) = 2 /\ p(2) = 4 /\ p(3) = 8 /\ p(4) = 16
      BY <3>1, PowersAre, Zenon
    <3> HIDE DEF p, base, target
    <3>3. p(size) = target /\ \A i \in 1 .. size : p(i) <= target
      BY <2>2, <3>1, <3>2
    <3>4. base \in Nat \ {0} /\ base >= 2 /\ target \in Nat \ {0}
      BY <3>1
    <3> QED
      BY <3>3, <3>4 DEF p
  <2>3. CASE f = 1 /\ w = 8 /\ size = 8
    <3>1. base = 2 /\ target = 256
      BY <2>3, Twos, Zenon
    <3>2. /\ p(1) = 2 /\ p(2) = 4 /\ p(3) = 8 /\ p(4) = 16
          /\ p(5) = 32 /\ p(6) = 64 /\ p(7) = 128 /\ p(8) = 256
      <4>1. \A i : p(i) = Power(2, i)
        BY <3>1, Zenon
      <4> HIDE DEF p
      <4> QED
        BY <4>1, PowersAre
    <3> HIDE DEF p, base, target
    <3>3. p(size) = target /\ \A i \in 1 .. size : p(i) <= target
      BY <2>3, <3>1, <3>2
    <3>4. base \in Nat \ {0} /\ base >= 2 /\ target \in Nat \ {0}
      BY <3>1
    <3> QED
      BY <3>3, <3>4 DEF p
  <2> QED
    BY <1>1, <2>1, <2>2, <2>3
<1> HIDE DEF base, target
<1>3. D \subseteq Nat /\ Len(s) \in Nat /\ a \in Nat /\ l \in Nat
  BY <1>0, <1>1, <1>2
<1>4. s \in Seq(Nat) /\ \A i \in 1 .. Len(s) : s[i] \in D
  <2> HIDE DEF D
  <2>1. s \in Seq(Nat)
    BY <1>0, <1>3, SeqMonotonic
  <2> QED
    BY <1>0, <2>1
<1>5. u \in Seq(D) /\ Len(u) = l /\ \A i \in 1 .. l : u[i] = s[a + i]
  <2> HIDE DEF D
  <2>1. a + 1 \in 1 .. Len(s) /\ a + l \in 1 .. Len(s) /\ (a + l) - (a + 1) + 1 = l
    BY <1>0, <1>3
  <2>2. u = [i \in 1 .. l |-> s[a + i]]
    BY <1>0, <1>3, <2>1
  <2> HIDE DEF u
  <2>3. \A i \in 1 .. l : u[i] = s[a + i] /\ s[a + i] \in D
    BY <1>0, <1>3, <1>4, <2>2
  <2>4. u = [i \in 1 .. l |-> u[i]] /\ \A i \in 1 .. l : u[i] \in D
    BY <2>2, <2>3
  <2> QED
    BY <1>3, <2>3, <2>4, FunctionIsSeq
<1> HIDE DEF u
<1>6. u \in Seq(Nat)
  <2> HIDE DEF D
  <2> QED
    BY <1>3, <1>5, SeqMonotonic
<1>7. PICK t : Number(u, f) = t[Len(u)] /\ SumsUp(t, u, base)
  BY <1>0, <1>6, NumberRuns DEF base
<1>8. t[l] < Power(base, l)
  <2>1. base \in Nat /\ base >= 2
    BY <1>2
  <2>2. t[Len(u)] < Power(base, Len(u))
    BY <1>5, <1>7, <2>1, ElementsBack
  <2> QED
    BY <1>5, <2>2
<1>9. t[l] \in Nat
  BY <1>3, <1>5, <1>7 DEF SumsUp
<1>10. Number(u, f) = t[l]
  BY <1>5, <1>7
<1>11. Power(base, l) \in Nat /\ Power(base, l) <= target
  BY <1>0, <1>2, <1>3, PowerIs
<1>12. t[l] \in 0 .. target - 1
  BY <1>2, <1>8, <1>9, <1>11
<1>13. sum[a + l] = sum[a] * Power(base, l) + t[l]
  <2>1. a + Len(u) <= Len(s) /\ \A i \in 1 .. Len(u) : u[i] = s[a + i]
    BY <1>0, <1>5
  <2>2. sum[a + Len(u)] = sum[a] * Power(base, Len(u)) + t[Len(u)]
    BY <1>0, <1>2, <1>4, <1>6, <1>7, <2>1, SumsJoin
  <2> QED
    BY <1>5, <2>2
<1>14. sum[a] * Power(base, l) = sum[a] * target
  <2>1. CASE l = size
    BY <1>2, <2>1
  <2>2. CASE a = 0
    <3>1. sum[0] = 0
      BY <1>0 DEF SumsUp
    <3> QED
      BY <1>2, <1>11, <2>2, <3>1
  <2> QED
    BY <1>0, <2>1, <2>2
<1> QED
  BY <1>10, <1>12, <1>13, <1>14 DEF u, target

\* What stands for the groups is the number of the elements.
LEMMA GroupNumber ==
  ASSUME NEW f \in Widths, NEW w \in Widths, f < w, NEW s \in Seq(0 .. (2 ^ f) - 1)
  PROVE  /\ Group(s, w \div f, f) \in Seq(0 .. (2 ^ w) - 1)
         /\ Len(Group(s, w \div f, f)) = (Len(s) * f + w - 1) \div w
         /\ NumberOf(Group(s, w \div f, f), w) = NumberOf(s, f)
<1> DEFINE size == w \div f
           g == Group(s, size, f)
           target == 2 ^ w
           n == Len(s)
           D == 0 .. (2 ^ f) - 1
<1>1. /\ \/ f = 4 /\ w = 8 /\ size = 2
         \/ f = 1 /\ w = 4 /\ size = 4
         \/ f = 1 /\ w = 8 /\ size = 8
      /\ size \in {2, 4, 8}
  BY DEF Widths
<1>2. target \in Nat \ {0} /\ D \subseteq Nat
  <2>1. target = 2 \/ target = 16 \/ target = 256
    BY Bases
  <2>2. D \subseteq Nat
    BY ElementsAreBytes DEF Byte
  <2> HIDE DEF target
  <2> QED
    BY <2>1, <2>2
<1>3. n \in Nat /\ s \in Seq(Nat)
  <2>1. s \in Seq(D)
    OBVIOUS
  <2> HIDE DEF D
  <2>2. s \in Seq(Nat)
    BY <1>2, <2>1, SeqMonotonic
  <2> QED
    BY <2>2
<1>4. size = w \div f
  OBVIOUS
<1> HIDE DEF size
<1>5. PICK cut, groups :
        /\ GroupsEnd(cut, n, size, groups)
        /\ g = [k \in 1 .. groups |-> Number(SubSeq(s, cut[k - 1] + 1, cut[k]), f)]
  <2>1. Len(s) \in Nat /\ size \in {2, 4, 8}
    BY <1>1, <1>3
  <2>2. \E cut, groups : GroupsAre(s, size, f, cut, groups)
    BY <2>1, GroupSpans, Zenon
  <2> QED
    BY <2>2, Zenon DEF GroupsAre
<1> HIDE DEF g
<1>6. /\ groups \in Nat /\ groups = (n + size - 1) \div size
      /\ cut[0] = 0 /\ cut[groups] = n
      /\ \A k \in 0 .. groups : cut[k] \in 0 .. n
      /\ \A k \in 1 .. groups : cut[k] - cut[k - 1] \in 1 .. size
      /\ \A k \in 2 .. groups : cut[k] - cut[k - 1] = size
  BY <1>5 DEF GroupsEnd
<1>7. PICK sum : NumberOf(s, f) = sum[n] /\ SumsUp(sum, s, 2 ^ f)
  BY <1>3, NumberRuns
<1>8. ASSUME NEW k \in 1 .. groups
      PROVE  /\ g[k] \in 0 .. target - 1
             /\ sum[cut[k]] = sum[cut[k - 1]] * target + g[k]
  <2> DEFINE a == cut[k - 1]
             l == cut[k] - a
  <2>1. k \in 0 .. groups /\ k - 1 \in 0 .. groups /\ (k = 1 \/ k \in 2 .. groups)
    BY <1>6
  <2>2. a \in 0 .. n /\ cut[k] \in 0 .. n /\ l \in 1 .. size
    BY <1>6, <2>1
  <2>3. a + l = cut[k]
    <3> DEFINE e == cut[k]
    <3>1. e \in Int /\ a \in Int
      BY <2>2
    <3> HIDE DEF e, a
    <3> QED
      BY <3>1 DEF e
  <2>4. l = size \/ a = 0
    <3>1. CASE k = 1
      BY <1>6, <3>1
    <3>2. CASE k \in 2 .. groups
      BY <1>6, <3>2
    <3> QED
      BY <2>1, <3>1, <3>2
  <2> HIDE DEF a, l
  <2>5. GroupRun(s, f, w, size, sum, a, l)
    <3>1. a + l <= n
      BY <2>2, <2>3
    <3> QED
      BY <1>4, <1>7, <2>2, <2>4, <3>1, Zenon DEF GroupRun, n
  <2>6. /\ Number(SubSeq(s, a + 1, a + l), f) \in 0 .. target - 1
        /\ sum[a + l] = sum[a] * target + Number(SubSeq(s, a + 1, a + l), f)
    BY <2>5, GroupStep
  <2>7. g[k] = Number(SubSeq(s, a + 1, a + l), f)
    BY <1>5, <2>3 DEF a
  <2> QED
    BY <2>3, <2>6, <2>7 DEF a
<1>9. g \in Seq(0 .. target - 1) /\ Len(g) = groups
  <2> DEFINE E == 0 .. target - 1
  <2>1. groups \in Nat /\ g = [k \in 1 .. groups |-> g[k]] /\ \A k \in 1 .. groups : g[k] \in E
    BY <1>5, <1>6, <1>8
  <2> HIDE DEF E
  <2>2. g \in Seq(E) /\ Len(g) = groups
    BY <2>1, FunctionIsSeq, Zenon
  <2> QED
    BY <2>2 DEF E
<1>10. g \in Seq(Nat)
  <2>1. 0 .. target - 1 \subseteq Nat
    OBVIOUS
  <2> HIDE DEF target
  <2> QED
    BY <1>9, <2>1, SeqMonotonic
<1>11. PICK gsum : NumberOf(g, w) = gsum[groups] /\ SumsUp(gsum, g, target)
  BY <1>9, <1>10, NumberRuns
<1>12. /\ gsum[0] = 0 /\ sum[0] = 0
       /\ \A k \in 1 .. groups : gsum[k] = gsum[k - 1] * target + g[k]
  BY <1>7, <1>9, <1>11 DEF SumsUp
<1>13. gsum[groups] = sum[n]
  <2> DEFINE S == {k \in Nat : k <= groups => gsum[k] = sum[cut[k]]}
  <2>1. 0 \in S
    BY <1>6, <1>12
  <2>2. ASSUME NEW k \in Nat, k \in S PROVE k + 1 \in S
    <3> SUFFICES ASSUME k + 1 <= groups PROVE gsum[k + 1] = sum[cut[k + 1]]
      OBVIOUS
    <3> HIDE DEF target
    <3>1. k + 1 \in 1 .. groups /\ (k + 1) - 1 = k /\ gsum[k] = sum[cut[k]]
      BY <1>6, <2>2
    <3>2. gsum[k + 1] = gsum[k] * target + g[k + 1]
      BY <1>12, <3>1
    <3>3. sum[cut[k + 1]] = sum[cut[k]] * target + g[k + 1]
      BY <1>8, <3>1
    <3> QED
      BY <3>1, <3>2, <3>3
  <2> HIDE DEF S
  <2>3. \A k \in Nat : k \in S
    BY <2>1, <2>2, NatSetInduction
  <2> QED
    BY <1>6, <2>3 DEF S
<1>14. groups = (n * f + w - 1) \div w
  <2> HIDE DEF n
  <2>1. CASE f = 4 /\ w = 8 /\ size = 2
    BY <1>3, <1>6, <2>1
  <2>2. CASE f = 1 /\ w = 4 /\ size = 4
    BY <1>3, <1>6, <2>2
  <2>3. CASE f = 1 /\ w = 8 /\ size = 8
    BY <1>3, <1>6, <2>3
  <2> QED
    BY <1>1, <2>1, <2>2, <2>3
<1> QED
  BY <1>7, <1>9, <1>11, <1>13, <1>14 DEF g, size, n, target

-------------------------------------------------------------------------------
\* Elements of the width are assigned as they are.
LEMMA AssignedIs ==
  ASSUME NEW w \in Widths, NEW c \in Seq(0 .. (2 ^ w) - 1)
  PROVE  Content(AssignData(New(w), c)) = c
<1>1. c \in Seq(Int) /\ Masked(w, c) = c
  BY MaskedSame
<1>2. New(w) \in Buffers /\ New(w).width = w
  BY NewIs DEF New
<1>3. Holds(AssignData(New(w), c), w, Masked(w, c))
  BY <1>1, <1>2, AssignDataIs
<1> QED
  BY <1>1, <1>3, ContentIs

\* A conversion keeps the number and all of its elements.
LEMMA ConvertKeeps ==
  ASSUME NEW b, Sound(b), NEW w \in Widths
  PROVE  Content(Convert(b, w)) = Converted(Content(b), b.width, w)
<1> DEFINE s == Content(b)
           v == b.width
<1>1. v \in Widths /\ s \in Seq(0 .. (2 ^ v) - 1)
  BY SoundContent DEF Holds
<1>2. w \in Int /\ v \in Int
  BY <1>1 DEF Widths
<1> HIDE DEF s
<1>3. CASE w < v
  <2> DEFINE c == Cut(s, v \div w, w)
  <2>1. Convert(b, w) = AssignData(New(w), c)
    BY <1>3 DEF Convert, s
  <2> HIDE DEF v
  <2>2. /\ c \in Seq(0 .. (2 ^ w) - 1) /\ Len(c) = (v \div w) * Len(s)
        /\ NumberOf(c, w) = NumberOf(s, v)
    BY <1>1, <1>3, CutNumber
  <2>3. Len(c) = (Len(s) * v + w - 1) \div w
    <3>1. Len(s) \in Nat
      BY <1>1
    <3>2. (v \div w) * Len(s) = (Len(s) * v + w - 1) \div w
      BY <1>1, <1>3, <3>1 DEF Widths
    <3> QED
      BY <2>2, <3>2
  <2> HIDE DEF c
  <2>4. Content(Convert(b, w)) = c
    BY <2>1, <2>2, AssignedIs
  <2>5. Converted(s, v, w) = c
    BY <1>1, <2>2, <2>3, ConvertedIs
  <2> QED
    BY <2>4, <2>5 DEF s, v
<1>4. CASE w > v
  <2> DEFINE c == Group(s, w \div v, v)
  <2>1. Convert(b, w) = AssignData(New(w), c)
    BY <1>2, <1>4 DEF Convert, s
  <2> HIDE DEF v
  <2>2. /\ c \in Seq(0 .. (2 ^ w) - 1) /\ Len(c) = (Len(s) * v + w - 1) \div w
        /\ NumberOf(c, w) = NumberOf(s, v)
    <3>1. v < w
      BY <1>2, <1>4
    <3> QED
      BY <1>1, <3>1, GroupNumber
  <2> HIDE DEF c
  <2>3. Content(Convert(b, w)) = c
    BY <2>1, <2>2, AssignedIs
  <2>4. Converted(s, v, w) = c
    BY <1>1, <2>2, ConvertedIs
  <2> QED
    BY <2>3, <2>4 DEF s, v
<1>5. CASE w = v
  <2>1. Convert(b, w) = AssignData(New(w), s)
    BY <1>2, <1>5 DEF Convert, s
  <2> HIDE DEF v
  <2>2. Len(s) = (Len(s) * v + w - 1) \div w
    <3>1. Len(s) \in Nat
      BY <1>1
    <3> QED
      BY <1>1, <1>5, <3>1 DEF Widths
  <2>3. Content(Convert(b, w)) = s
    BY <1>1, <1>5, <2>1, AssignedIs
  <2>4. Converted(s, v, w) = s
    BY <1>1, <1>5, <2>2, ConvertedIs
  <2> QED
    BY <2>3, <2>4 DEF s, v
<1> QED
  BY <1>2, <1>3, <1>4, <1>5

\* The number that a script is given.
LEMMA ToNumberKeeps ==
  ASSUME NEW b, Sound(b)
  PROVE  ToNumber(b) = NumberOf(Content(b), b.width)
<1> DEFINE s == Content(b)
           n == b.len
           base == 2 ^ b.width
           Body(g) == [k \in 0 .. n |-> IF k = 0 THEN 0 ELSE g[k - 1] * base + b.data[k]]
           sum == CHOOSE g : g = Body(g)
<1>1. s \in Seq(Nat) /\ Len(s) = n /\ n \in Nat /\ b.width \in Widths
      /\ \A k \in 1 .. n : b.data[k] = s[k]
  <2>1. s \in Seq(Nat) /\ Len(s) = n /\ n \in Nat /\ b.width \in Widths /\ Holds(b, b.width, s)
    BY SoundContent
  <2> HIDE DEF s
  <2> QED
    BY <2>1 DEF Holds
<1>2. ToNumber(b) = sum[n]
  BY DEF ToNumber
<1> HIDE DEF s, base, n
<1>3. PICK number : NumberOf(s, b.width) = number[Len(s)] /\ SumsUp(number, s, base)
  BY <1>1, NumberRuns DEF base
<1> DEFINE h == [k \in 0 .. n |-> number[k]]
<1>4. h = Body(h)
  <2>1. \A k \in 0 .. n : h[k] = Body(h)[k]
    <3> TAKE k \in 0 .. n
    <3>1. CASE k = 0
      <4>1. number[0] = 0
        BY <1>3 DEF SumsUp
      <4> QED
        BY <3>1, <4>1
    <3>2. CASE k # 0
      <4>1. k \in 1 .. n /\ k - 1 \in 0 .. n
        BY <1>1, <3>2
      <4>2. number[k] = number[k - 1] * base + s[k] /\ b.data[k] = s[k]
        BY <1>1, <1>3, <4>1 DEF SumsUp
      <4> QED
        BY <3>2, <4>1, <4>2
    <3> QED
      BY <3>1, <3>2
  <2>2. h = [k \in 0 .. n |-> h[k]] /\ Body(h) = [k \in 0 .. n |-> Body(h)[k]]
    OBVIOUS
  <2> HIDE DEF Body, h
  <2> QED
    BY <2>1, <2>2
<1>5. sum = Body(sum)
  <2> HIDE DEF Body, h
  <2> QED
    BY <1>4, Zenon
<1> HIDE DEF sum
<1>6. sum[0] = 0 /\ \A k \in 1 .. n : sum[k] = sum[k - 1] * base + s[k]
  <2>1. 0 \in 0 .. n
    BY <1>1
  <2>2. sum[0] = 0
    BY <1>5, <2>1
  <2>3. ASSUME NEW k \in 1 .. n PROVE sum[k] = sum[k - 1] * base + s[k]
    <3>1. k \in 0 .. n /\ k # 0 /\ b.data[k] = s[k]
      BY <1>1
    <3>2. sum[k] = Body(sum)[k]
      BY <1>5
    <3>3. Body(sum)[k] = sum[k - 1] * base + b.data[k]
      BY <3>1
    <3> QED
      BY <3>1, <3>2, <3>3, Zenon
  <2> QED
    BY <2>2, <2>3
<1>7. sum[n] = number[n]
  <2> DEFINE S == {k \in Nat : k <= n => sum[k] = number[k]}
  <2>1. 0 \in S
    BY <1>3, <1>6 DEF SumsUp
  <2>2. ASSUME NEW k \in Nat, k \in S PROVE k + 1 \in S
    <3> SUFFICES ASSUME k + 1 <= n PROVE sum[k + 1] = number[k + 1]
      OBVIOUS
    <3>1. k + 1 \in 1 .. n /\ (k + 1) - 1 = k /\ sum[k] = number[k]
      BY <1>1, <2>2
    <3>2. number[k + 1] = number[k] * base + s[k + 1]
      BY <1>1, <1>3, <3>1 DEF SumsUp
    <3>3. sum[k + 1] = sum[k] * base + s[k + 1]
      BY <1>6, <3>1
    <3> QED
      BY <3>1, <3>2, <3>3
  <2> HIDE DEF S
  <2>3. \A k \in Nat : k \in S
    BY <2>1, <2>2, NatSetInduction
  <2> QED
    BY <1>1, <2>3 DEF S
<1> QED
  BY <1>1, <1>2, <1>3, <1>7 DEF s

-------------------------------------------------------------------------------
(***************************************************************************)
(* Decimal digits, the last first: the places are counted from 0, and      *)
(* there is a 0 behind the last digit.                                     *)
(***************************************************************************)
Digits == 0 .. 9
Digit(d, k) == IF k < Len(d) THEN d[k + 1] ELSE 0

\* t[k] is what the digits stand for without the first k of them.
StandFor(t, d) ==
  /\ \A k \in Nat : t[k] \in Nat /\ t[k] = Digit(d, k) + 10 * t[k + 1]
  /\ \A k \in Nat : k >= Len(d) => t[k] = 0

Worth(d) == CHOOSE t : StandFor(t, d)

LEMMA DigitIs ==
  ASSUME NEW d \in Seq(Digits), NEW k \in Nat
  PROVE  /\ Digit(d, k) \in Digits
         /\ k < Len(d) => Digit(d, k) = d[k + 1]
         /\ k >= Len(d) => Digit(d, k) = 0
<1>1. k < Len(d) => k + 1 \in 1 .. Len(d) /\ d[k + 1] \in Digits
  OBVIOUS
<1> QED
  BY <1>1 DEF Digit, Digits

LEMMA WorthIs ==
  ASSUME NEW d \in Seq(Digits)
  PROVE  StandFor(Worth(d), d)
<1> DEFINE n == Len(d)
           step == [j \in 1 .. n |-> [x \in Nat |-> d[n + 1 - j] + 10 * x]]
<1>1. n \in Nat /\ \A j \in 1 .. n : d[n + 1 - j] \in Nat
  <2>1. \A j \in 1 .. n : n + 1 - j \in 1 .. n
    OBVIOUS
  <2>2. \A k \in 1 .. n : d[k] \in Nat
    BY DEF Digits
  <2> QED
    BY <2>1, <2>2
<1> HIDE DEF n
<1>2. step \in [1 .. n -> [Nat -> Nat]]
  <2>1. \A j \in 1 .. n, x \in Nat : d[n + 1 - j] + 10 * x \in Nat
    BY <1>1
  <2> QED
    BY <2>1
<1>3. PICK g \in [0 .. n -> Nat] : g[0] = 0 /\ \A j \in 1 .. n : g[j] = step[j][g[j - 1]]
  <2> DEFINE v0 == 0
  <2>1. v0 \in Nat
    OBVIOUS
  <2> HIDE DEF step, v0
  <2>2. \E g \in [0 .. n -> Nat] : Runs(g, n, v0, step)
    BY <1>1, <1>2, <2>1, Recursion
  <2> QED
    BY <2>2 DEF Runs, v0
<1>4. \A j \in 1 .. n : g[j] = d[n + 1 - j] + 10 * g[j - 1]
  <2> TAKE j \in 1 .. n
  <2>1. j - 1 \in 0 .. n /\ g[j - 1] \in Nat
    BY <1>1
  <2> QED
    BY <1>3, <2>1
<1> DEFINE t == [k \in Nat |-> IF k < n THEN g[n - k] ELSE 0]
<1>5. \A k \in Nat : k >= n => t[k] = 0
  BY <1>1
<1>6. ASSUME NEW k \in Nat PROVE t[k] \in Nat /\ t[k] = Digit(d, k) + 10 * t[k + 1]
  <2>1. CASE k >= n
    <3>1. t[k] = 0 /\ t[k + 1] = 0
      BY <1>1, <2>1
    <3>2. Digit(d, k) = 0
      BY <2>1, DigitIs DEF n
    <3> QED
      BY <3>1, <3>2
  <2>2. CASE k < n
    <3>1. n - k \in 1 .. n /\ (n - k) - 1 = n - (k + 1) /\ n + 1 - (n - k) = k + 1 /\ n - k \in 0 .. n
      BY <1>1, <2>2
    <3>2. t[k] = g[n - k] /\ g[n - k] \in Nat
      BY <2>2, <3>1
    <3>3. g[n - k] = d[k + 1] + 10 * g[n - (k + 1)]
      <4>1. g[n - k] = d[n + 1 - (n - k)] + 10 * g[(n - k) - 1]
        BY <1>4, <3>1
      <4> QED
        BY <3>1, <4>1
    <3>4. t[k + 1] = g[n - (k + 1)]
      <4>1. CASE k + 1 < n
        BY <4>1
      <4>2. CASE ~(k + 1 < n)
        <5>1. n - (k + 1) = 0
          BY <1>1, <2>2, <4>2
        <5> QED
          BY <1>3, <4>2, <5>1
      <4> QED
        BY <4>1, <4>2
    <3>5. Digit(d, k) = d[k + 1]
      BY <2>2, DigitIs DEF n
    <3> HIDE DEF t
    <3> QED
      BY <3>2, <3>3, <3>4, <3>5
  <2> QED
    BY <1>1, <2>1, <2>2
<1> HIDE DEF t
<1>7. StandFor(t, d)
  BY <1>5, <1>6 DEF StandFor, n
<1> QED
  BY <1>7, Zenon DEF Worth

LEMMA WorthAt ==
  ASSUME NEW d \in Seq(Digits), NEW k \in Nat
  PROVE  /\ Worth(d)[k] \in Nat /\ Worth(d)[k] = Digit(d, k) + 10 * Worth(d)[k + 1]
         /\ k >= Len(d) => Worth(d)[k] = 0
BY WorthIs DEF StandFor

-------------------------------------------------------------------------------
\* What is carried to each place when r is added at the place i.
Carries(carry, d, i, r) ==
  /\ \A k \in 0 .. Len(d) + 4 : carry[k] \in Nat
  /\ \A k \in 0 .. i - 1 : carry[k] = 0
  /\ carry[i] = r
  /\ \A k \in i .. Len(d) + 3 :
       carry[k + 1] = IF carry[k] = 0 THEN 0 ELSE (carry[k] + Digit(d, k)) \div 10

Carried(carry, d) == {k \in 0 .. Len(d) + 3 : carry[k] > 0}
EndsAt(n, carry, d) ==
  /\ \A k \in Carried(carry, d) : k < n
  /\ n = Len(d) \/ n - 1 \in Carried(carry, d)

AddsWith(carry, d, i, r) ==
  AddFrom(d, i, r) =
    SubSeq([k \in 1 .. Len(d) + 4 |-> (Digit(d, k - 1) + carry[k - 1]) % 10], 1,
           CHOOSE n \in Len(d) .. Len(d) + 4 : EndsAt(n, carry, d))

LEMMA CarryRuns ==
  ASSUME NEW d \in Seq(Digits), NEW i \in 0 .. Len(d), NEW r \in Nat
  PROVE  \E carry : Carries(carry, d, i, r) /\ AddsWith(carry, d, i, r)
<1> DEFINE N == Len(d) + 4
           digit(k) == Digit(d, k)
           Body(g) == [k \in 0 .. N |->
                        IF k <= i THEN IF k = i THEN r ELSE 0
                        ELSE LET c == g[k - 1] IN IF c = 0 THEN 0 ELSE (c + digit(k - 1)) \div 10]
           v0 == IF 0 = i THEN r ELSE 0
           step == [k \in 1 .. N |-> [c \in Nat |->
                     IF k <= i THEN IF k = i THEN r ELSE 0
                     ELSE IF c = 0 THEN 0 ELSE (c + digit(k - 1)) \div 10]]
           carry == CHOOSE g : g = Body(g)
<1>1. N \in Nat /\ N = Len(d) + 4 /\ Len(d) \in Nat /\ v0 \in Nat /\ i \in Nat /\ i <= Len(d)
  OBVIOUS
<1>2. AddsWith(carry, d, i, r)
  BY DEF AddFrom, AddsWith, EndsAt, Carried, Digit
<1> HIDE DEF carry
<1>3. \A k \in Nat : digit(k) \in Nat
  BY DigitIs DEF Digits
<1> HIDE DEF digit, N
<1>4. step \in [1 .. N -> [Nat -> Nat]]
  <2>1. ASSUME NEW k \in 1 .. N, NEW c \in Nat
        PROVE  (IF k <= i THEN IF k = i THEN r ELSE 0
                ELSE IF c = 0 THEN 0 ELSE (c + digit(k - 1)) \div 10) \in Nat
    <3>1. k - 1 \in Nat
      BY <1>1
    <3>2. digit(k - 1) \in Nat
      BY <1>3, <3>1
    <3> DEFINE x == digit(k - 1)
    <3> HIDE DEF x
    <3>3. x \in Nat
      BY <3>2 DEF x
    <3>4. (c + x) \div 10 \in Nat
      BY <3>3
    <3> QED
      BY <3>4 DEF x
  <2> QED
    BY <2>1
<1>5. \E g : g = Body(g)
  <2>1. PICK g \in [0 .. N -> Nat] : Runs(g, N, v0, step)
    <3> HIDE DEF step, v0
    <3> QED
      BY <1>1, <1>4, Recursion
  <2>2. \A k \in 0 .. N : g[k] = Body(g)[k]
    <3> TAKE k \in 0 .. N
    <3>1. CASE k = 0
      BY <1>1, <2>1, <3>1 DEF Runs
    <3>2. CASE k # 0
      <4>1. k \in 1 .. N /\ k - 1 \in 0 .. N /\ g[k - 1] \in Nat
        BY <1>1, <3>2
      <4>2. g[k] = step[k][g[k - 1]]
        BY <2>1, <4>1 DEF Runs
      <4> QED
        BY <3>2, <4>1, <4>2
    <3> QED
      BY <3>1, <3>2
  <2>3. g = [k \in 0 .. N |-> g[k]] /\ Body(g) = [k \in 0 .. N |-> Body(g)[k]]
    OBVIOUS
  <2>4. g = Body(g)
    <3> HIDE DEF Body
    <3> QED
      BY <2>2, <2>3
  <2> QED
    BY <2>4
<1>6. carry = Body(carry)
  <2>1. carry = CHOOSE g : g = Body(g)
    BY Zenon DEF carry, N, digit
  <2> HIDE DEF Body
  <2> QED
    BY <1>5, <2>1, Zenon
<1>7. \A k \in 0 .. N : carry[k] = Body(carry)[k]
  <2> HIDE DEF Body
  <2> QED
    BY <1>6
<1>8. /\ carry[0] = v0
      /\ \A k \in 1 .. N : carry[k - 1] \in Nat => carry[k] = step[k][carry[k - 1]]
  <2>1. carry[0] = v0
    BY <1>1, <1>7
  <2>2. ASSUME NEW k \in 1 .. N, carry[k - 1] \in Nat PROVE carry[k] = step[k][carry[k - 1]]
    <3>1. k \in 0 .. N
      BY <1>1
    <3> QED
      BY <1>7, <2>2, <3>1
  <2> QED
    BY <2>1, <2>2
<1>9. \A k \in 0 .. N : carry[k] \in Nat
  <2> HIDE DEF step, v0
  <2> QED
    BY <1>1, <1>4, <1>8, RunsAre
<1>10. (\A k \in 0 .. i - 1 : carry[k] = 0) /\ carry[i] = r
  BY <1>1, <1>7
<1>11. \A k \in i .. Len(d) + 3 :
         carry[k + 1] = IF carry[k] = 0 THEN 0 ELSE (carry[k] + digit(k)) \div 10
  <2> TAKE k \in i .. Len(d) + 3
  <2>1. k + 1 \in 0 .. N /\ ~(k + 1 <= i) /\ (k + 1) - 1 = k
    BY <1>1
  <2>2. carry[k + 1] = Body(carry)[k + 1]
    BY <1>7, <2>1
  <2> QED
    BY <2>1, <2>2
<1>12. Carries(carry, d, i, r)
  BY <1>1, <1>9, <1>10, <1>11 DEF Carries, digit
<1> QED
  BY <1>2, <1>12

\* Three places behind the last digit nothing is carried any more.
LEMMA CarriesEnd ==
  ASSUME NEW d \in Seq(Digits), NEW i \in 0 .. Len(d), NEW r \in 0 .. 255,
         NEW carry, Carries(carry, d, i, r)
  PROVE  /\ carry[Len(d) + 3] = 0
         /\ \E n \in Len(d) .. Len(d) + 3 : EndsAt(n, carry, d)
<1> DEFINE l == Len(d)
<1>1. l \in Nat /\ i \in 0 .. l /\ \A k \in Nat : Digit(d, k) \in 0 .. 9 /\ (k >= l => Digit(d, k) = 0)
  BY DigitIs DEF Digits
<1>2. /\ \A k \in 0 .. l + 4 : carry[k] \in Nat
      /\ \A k \in 0 .. i - 1 : carry[k] = 0
      /\ carry[i] = r
      /\ \A k \in i .. l + 3 :
           carry[k + 1] = IF carry[k] = 0 THEN 0 ELSE (carry[k] + Digit(d, k)) \div 10
  BY DEF Carries
<1> HIDE DEF l
<1>3. \A k \in Nat : i + k <= l => carry[i + k] \in 0 .. 255
  <2> DEFINE S == {k \in Nat : i + k <= l => carry[i + k] \in 0 .. 255}
  <2>1. 0 \in S
    <3>1. i + 0 = i /\ carry[i] \in 0 .. 255
      BY <1>1, <1>2
    <3> QED
      BY <3>1
  <2>2. ASSUME NEW k \in Nat, k \in S PROVE k + 1 \in S
    <3> SUFFICES ASSUME i + (k + 1) <= l PROVE carry[i + (k + 1)] \in 0 .. 255
      OBVIOUS
    <3> DEFINE c == carry[i + k]
               x == Digit(d, i + k)
    <3>1. i + k \in i .. l + 3 /\ i + k \in Nat /\ i + (k + 1) = (i + k) + 1 /\ c \in 0 .. 255
      BY <1>1, <2>2
    <3>2. carry[i + (k + 1)] = IF c = 0 THEN 0 ELSE (c + x) \div 10
      BY <1>2, <3>1
    <3>3. x \in 0 .. 9
      BY <1>1, <3>1
    <3> HIDE DEF c, x
    <3>4. (c + x) \div 10 \in 0 .. 255
      BY <3>1, <3>3
    <3> QED
      BY <3>2, <3>4
  <2> HIDE DEF S
  <2>3. \A k \in Nat : k \in S
    BY <2>1, <2>2, NatSetInduction
  <2> QED
    BY <2>3 DEF S
<1> DEFINE c0 == carry[l]  c1 == carry[l + 1]  c2 == carry[l + 2]  c3 == carry[l + 3]
<1>4. c0 \in 0 .. 255
  <2>1. l - i \in Nat /\ i + (l - i) = l /\ l <= l
    BY <1>1
  <2> QED
    BY <1>3, <2>1
<1>5. /\ c1 = IF c0 = 0 THEN 0 ELSE (c0 + 0) \div 10
      /\ c2 = IF c1 = 0 THEN 0 ELSE (c1 + 0) \div 10
      /\ c3 = IF c2 = 0 THEN 0 ELSE (c2 + 0) \div 10
  <2>1. \A k \in l .. l + 2 : carry[k + 1] = IF carry[k] = 0 THEN 0 ELSE (carry[k] + 0) \div 10
    <3> TAKE k \in l .. l + 2
    <3>1. k \in i .. l + 3 /\ k \in Nat /\ k >= l
      BY <1>1
    <3> QED
      BY <1>1, <1>2, <3>1
  <2>2. l \in l .. l + 2 /\ l + 1 \in l .. l + 2 /\ l + 2 \in l .. l + 2
        /\ (l + 1) + 1 = l + 2 /\ (l + 2) + 1 = l + 3
    BY <1>1
  <2> QED
    BY <2>1, <2>2
<1>6. carry[l] = c0 /\ carry[l + 1] = c1 /\ carry[l + 2] = c2 /\ carry[l + 3] = c3
  OBVIOUS
<1> HIDE DEF c0, c1, c2, c3
<1>7. c1 \in 0 .. 25 /\ (c1 > 0 => c0 > 0)
  BY <1>4, <1>5
<1>8. c2 \in 0 .. 2 /\ (c2 > 0 => c1 > 0)
  <2>1. c2 = IF c1 = 0 THEN 0 ELSE (c1 + 0) \div 10
    BY <1>5
  <2> QED
    BY <1>7, <2>1
<1>9. c3 = 0
  BY <1>5, <1>8
<1> DEFINE C == Carried(carry, d)
<1>10. \A k \in C : k \in Nat /\ (k < l \/ k = l \/ k = l + 1 \/ k = l + 2)
  <2> TAKE k \in C
  <2>1. k \in 0 .. l + 3 /\ carry[k] > 0
    BY DEF Carried, l
  <2>2. k # l + 3
    BY <1>6, <1>9, <2>1
  <2> QED
    BY <1>1, <2>1, <2>2
<1>11. (l \in C <=> c0 > 0) /\ (l + 1 \in C <=> c1 > 0) /\ (l + 2 \in C <=> c2 > 0)
  <2>1. \A k \in 0 .. l + 3 : k \in C <=> carry[k] > 0
    BY DEF Carried, l
  <2>2. l \in 0 .. l + 3 /\ l + 1 \in 0 .. l + 3 /\ l + 2 \in 0 .. l + 3
    BY <1>1
  <2> QED
    BY <1>6, <2>1, <2>2
<1> HIDE DEF C
<1>12. ASSUME NEW n, \A k \in C : k < n, n = l \/ n - 1 \in C
       PROVE  EndsAt(n, carry, d)
  BY <1>12 DEF EndsAt, C, l
<1>13. CASE c2 > 0
  <2>1. (l + 3) - 1 = l + 2 /\ l + 3 \in l .. l + 3 /\ \A k \in C : k < l + 3
    BY <1>1, <1>10
  <2>2. EndsAt(l + 3, carry, d)
    BY <1>11, <1>12, <1>13, <2>1
  <2> QED
    BY <1>6, <1>9, <2>1, <2>2 DEF l
<1>14. CASE c2 = 0 /\ c1 > 0
  <2>1. (l + 2) - 1 = l + 1 /\ l + 2 \in l .. l + 3 /\ \A k \in C : k < l + 2
    BY <1>1, <1>10, <1>11, <1>14
  <2>2. EndsAt(l + 2, carry, d)
    BY <1>11, <1>12, <1>14, <2>1
  <2> QED
    BY <1>6, <1>9, <2>1, <2>2 DEF l
<1>15. CASE c1 = 0 /\ c0 > 0
  <2>1. (l + 1) - 1 = l /\ l + 1 \in l .. l + 3 /\ \A k \in C : k < l + 1
    BY <1>1, <1>8, <1>10, <1>11, <1>15
  <2>2. EndsAt(l + 1, carry, d)
    BY <1>11, <1>12, <1>15, <2>1
  <2> QED
    BY <1>6, <1>9, <2>1, <2>2 DEF l
<1>16. CASE c0 = 0
  <2>1. l \in l .. l + 3 /\ \A k \in C : k < l
    BY <1>1, <1>7, <1>8, <1>10, <1>11, <1>16
  <2>2. EndsAt(l, carry, d)
    BY <1>12, <2>1
  <2> QED
    BY <1>6, <1>9, <2>1, <2>2 DEF l
<1> QED
  BY <1>4, <1>7, <1>8, <1>13, <1>14, <1>15, <1>16

\* The digits after an addition.
AddsUp(e, carry, d) ==
  /\ e \in Seq(Digits) /\ Len(e) >= Len(d) /\ Len(e) <= Len(d) + 3
  /\ \A k \in 0 .. Len(e) - 1 : Digit(e, k) = (Digit(d, k) + carry[k]) % 10
  /\ carry[Len(e)] = 0
  /\ Len(e) > Len(d) => carry[Len(e) - 1] > 0

LEMMA AddedDigits ==
  ASSUME NEW d \in Seq(Digits), NEW i \in 0 .. Len(d), NEW r \in 0 .. 255,
         NEW carry, Carries(carry, d, i, r), AddsWith(carry, d, i, r)
  PROVE  AddsUp(AddFrom(d, i, r), carry, d)
<1> DEFINE l == Len(d)
           size == CHOOSE n \in l .. l + 4 : EndsAt(n, carry, d)
           f == [k \in 1 .. l + 4 |-> (Digit(d, k - 1) + carry[k - 1]) % 10]
           e == AddFrom(d, i, r)
<1>1. l \in Nat
  OBVIOUS
<1>2. e = SubSeq(f, 1, size)
  BY DEF AddsWith
<1>3. carry[l + 3] = 0 /\ \E n \in l .. l + 3 : EndsAt(n, carry, d)
  BY CarriesEnd
<1> HIDE DEF e, l
<1>4. size \in l .. l + 4 /\ EndsAt(size, carry, d)
  <2>1. \E n \in l .. l + 4 : EndsAt(n, carry, d)
    BY <1>1, <1>3
  <2> QED
    BY <2>1, Zenon
<1> HIDE DEF size
<1>5. /\ \A k \in 0 .. l + 3 : carry[k] > 0 => k < size
      /\ size = l \/ (size - 1 \in 0 .. l + 3 /\ carry[size - 1] > 0)
  BY <1>4 DEF EndsAt, Carried, l
<1>6. \A k \in 0 .. l + 4 : carry[k] \in Nat
  BY DEF Carries, l
<1>7. size \in l .. l + 3
  <2>1. size = l + 4 => carry[l + 3] > 0
    BY <1>1, <1>5
  <2>2. size # l + 4
    BY <1>3, <2>1
  <2> QED
    BY <1>1, <1>4, <2>2
<1>8. carry[size] = 0
  <2>1. size \in 0 .. l + 3 /\ ~(size < size)
    BY <1>1, <1>7
  <2>2. ~(carry[size] > 0)
    BY <1>5, <2>1
  <2>3. carry[size] \in Nat
    <3>1. size \in 0 .. l + 4
      BY <1>1, <1>7
    <3> QED
      BY <1>6, <3>1
  <2> QED
    BY <2>2, <2>3
<1>9. \A k \in 1 .. l + 4 : f[k] \in Digits
  <2> TAKE k \in 1 .. l + 4
  <2> DEFINE x == Digit(d, k - 1)  c == carry[k - 1]
  <2>1. k - 1 \in Nat /\ k - 1 \in 0 .. l + 4
    BY <1>1
  <2>2. x \in Nat /\ c \in Nat
    BY <1>6, <2>1, DigitIs DEF Digits
  <2> HIDE DEF x, c
  <2>3. (x + c) % 10 \in Digits
    BY <2>2 DEF Digits
  <2> QED
    BY <2>3 DEF x, c
<1>10. e = [k \in 1 .. size |-> f[k]]
  <2> HIDE DEF f
  <2>1. size \in Nat
    BY <1>1, <1>7
  <2> QED
    BY <1>2, <2>1
<1>11. e \in Seq(Digits) /\ Len(e) = size /\ \A k \in 1 .. size : e[k] = f[k]
  <2> HIDE DEF f
  <2>1. size \in Nat /\ \A k \in 1 .. size : f[k] \in Digits /\ e[k] = f[k]
    BY <1>1, <1>7, <1>9, <1>10
  <2>2. e = [k \in 1 .. size |-> e[k]] /\ \A k \in 1 .. size : e[k] \in Digits
    BY <1>10, <2>1
  <2> QED
    BY <2>1, <2>2, FunctionIsSeq
<1>12. ASSUME NEW k \in 0 .. size - 1
       PROVE  Digit(e, k) = (Digit(d, k) + carry[k]) % 10
  <2>1. k + 1 \in 1 .. size /\ k + 1 \in 1 .. l + 4 /\ (k + 1) - 1 = k /\ k \in Nat /\ k < size
    BY <1>1, <1>7
  <2>2. Digit(e, k) = e[k + 1]
    BY <1>11, <2>1, DigitIs
  <2>3. f[k + 1] = (Digit(d, k) + carry[k]) % 10
    BY <2>1
  <2> QED
    BY <1>11, <2>1, <2>2, <2>3
<1> HIDE DEF f
<1>13. size > l => carry[size - 1] > 0
  BY <1>1, <1>5, <1>7
<1>14. Len(e) >= l /\ Len(e) <= l + 3
  BY <1>1, <1>7, <1>11
<1>15. AddsUp(e, carry, d)
  BY <1>8, <1>11, <1>12, <1>13, <1>14 DEF AddsUp, l
<1> QED
  BY <1>15 DEF e

\* What stays at a place and what is carried from it are what was there and what
\* was carried to it.
LEMMA CarryStep ==
  ASSUME NEW x \in 0 .. 9, NEW c \in Nat, NEW next,
         next = IF c = 0 THEN 0 ELSE (c + x) \div 10
  PROVE  /\ next \in Nat
         /\ (x + c) % 10 \in Nat
         /\ ((x + c) % 10) + 10 * next = x + c
         /\ next = 0 => (x + c) % 10 = x + c
<1>1. CASE c = 0
  <2>1. (x + c) % 10 = x /\ next = 0
    BY <1>1
  <2> QED
    BY <1>1, <2>1
<1>2. CASE c # 0
  <2> DEFINE n == c + x
  <2>1. n \in Nat /\ next = n \div 10 /\ x + c = n
    BY <1>2
  <2> HIDE DEF n
  <2>2. next \in Nat /\ n % 10 \in Nat /\ (n % 10) + 10 * next = n
    BY <2>1
  <2> QED
    BY <2>1, <2>2
<1> QED
  BY <1>1, <1>2

\* AddFrom adds r at the place i: the digits before it stay, and what there is
\* more of digits does not begin with a 0.
AddsAt(e, d, i, r) ==
  /\ e \in Seq(Digits) /\ Len(e) >= Len(d)
  /\ \A k \in 0 .. i - 1 : Digit(e, k) = Digit(d, k)
  /\ Worth(e)[i] = Worth(d)[i] + r
  /\ Len(e) > Len(d) => Digit(e, Len(e) - 1) > 0
  /\ Len(e) = Len(d) /\ Len(d) > 0 => Digit(e, Len(e) - 1) >= Digit(d, Len(e) - 1)

LEMMA AddFromIs ==
  ASSUME NEW d \in Seq(Digits), NEW i \in 0 .. Len(d), NEW r \in 0 .. 255
  PROVE  AddsAt(AddFrom(d, i, r), d, i, r)
<1> DEFINE e == AddFrom(d, i, r)
           l == Len(d)
           size == Len(e)
<1>1. PICK carry : Carries(carry, d, i, r) /\ AddsWith(carry, d, i, r)
  <2>1. r \in Nat
    OBVIOUS
  <2> QED
    BY <2>1, CarryRuns, Zenon
<1>2. AddsUp(e, carry, d)
  BY <1>1, AddedDigits
<1> HIDE DEF e
<1>3. /\ l \in Nat /\ i \in 0 .. l /\ size \in l .. l + 3 /\ e \in Seq(Digits)
      /\ \A k \in 0 .. size - 1 : Digit(e, k) = (Digit(d, k) + carry[k]) % 10
      /\ carry[size] = 0
      /\ size > l => carry[size - 1] > 0
  BY <1>2 DEF AddsUp
<1>4. /\ \A k \in 0 .. l + 4 : carry[k] \in Nat
      /\ \A k \in 0 .. i - 1 : carry[k] = 0
      /\ carry[i] = r
      /\ \A k \in i .. l + 3 :
           carry[k + 1] = IF carry[k] = 0 THEN 0 ELSE (carry[k] + Digit(d, k)) \div 10
  BY <1>1 DEF Carries
<1>5. \A k \in Nat : Digit(d, k) \in 0 .. 9 /\ (k >= l => Digit(d, k) = 0)
  BY DigitIs DEF Digits
<1>6. /\ \A k \in Nat : Worth(d)[k] \in Nat /\ Worth(d)[k] = Digit(d, k) + 10 * Worth(d)[k + 1]
      /\ \A k \in Nat : k >= l => Worth(d)[k] = 0
  BY WorthIs DEF StandFor
<1>7. /\ \A k \in Nat : Worth(e)[k] \in Nat /\ Worth(e)[k] = Digit(e, k) + 10 * Worth(e)[k + 1]
      /\ \A k \in Nat : k >= size => Worth(e)[k] = 0
  BY <1>3, WorthIs DEF StandFor
<1> DEFINE td == Worth(d)  te == Worth(e)
<1> HIDE DEF l, size, td, te
<1>8. ASSUME NEW k \in i .. size - 1
      PROVE  /\ carry[k + 1] \in Nat
             /\ Digit(e, k) + 10 * carry[k + 1] = Digit(d, k) + carry[k]
             /\ carry[k + 1] = 0 => Digit(e, k) = Digit(d, k) + carry[k]
  <2> DEFINE x == Digit(d, k)  c == carry[k]  next == carry[k + 1]
  <2>1. k \in Nat /\ k \in 0 .. size - 1 /\ k \in i .. l + 3 /\ k \in 0 .. l + 4
    BY <1>3
  <2>2. x \in 0 .. 9 /\ c \in Nat /\ next = IF c = 0 THEN 0 ELSE (c + x) \div 10
    BY <1>4, <1>5, <2>1
  <2>3. Digit(e, k) = (x + c) % 10
    BY <1>3, <2>1
  <2> HIDE DEF x, c, next
  <2>4. /\ next \in Nat
        /\ ((x + c) % 10) + 10 * next = x + c
        /\ next = 0 => (x + c) % 10 = x + c
    BY <2>2, CarryStep
  <2> QED
    BY <2>3, <2>4 DEF x, c, next
<1>9. \A j \in Nat : j <= size - i => te[size - j] = td[size - j] + carry[size - j]
  <2> DEFINE S == {j \in Nat : j <= size - i => te[size - j] = td[size - j] + carry[size - j]}
  <2>1. 0 \in S
    <3>1. size - 0 = size /\ size \in Nat /\ size >= l /\ size >= size
      BY <1>3
    <3>2. te[size] = 0 /\ td[size] = 0
      BY <1>6, <1>7, <3>1 DEF td, te
    <3>3. te[size] = td[size] + carry[size]
      BY <1>3, <3>2
    <3>4. te[size - 0] = td[size - 0] + carry[size - 0]
      BY <3>1, <3>3
    <3> QED
      BY <3>4
  <2>2. ASSUME NEW j \in Nat, j \in S PROVE j + 1 \in S
    <3> SUFFICES ASSUME j + 1 <= size - i
                 PROVE  te[size - (j + 1)] = td[size - (j + 1)] + carry[size - (j + 1)]
      OBVIOUS
    <3> DEFINE k == size - (j + 1)
    <3>1. k \in Nat /\ k \in i .. size - 1 /\ k + 1 = size - j /\ j <= size - i
      BY <1>3
    <3>2. te[k + 1] = td[k + 1] + carry[k + 1]
      BY <2>2, <3>1
    <3>3. Digit(e, k) + 10 * carry[k + 1] = Digit(d, k) + carry[k] /\ carry[k + 1] \in Nat
      BY <1>8, <3>1
    <3>4. te[k] = Digit(e, k) + 10 * te[k + 1] /\ td[k] = Digit(d, k) + 10 * td[k + 1]
      BY <1>6, <1>7, <3>1 DEF td, te
    <3>5. td[k + 1] \in Nat /\ Digit(d, k) \in Nat /\ carry[k] \in Nat /\ Digit(e, k) \in Nat
      <4>1. k + 1 \in Nat /\ k \in 0 .. l + 4
        BY <1>3, <3>1
      <4>2. td[k + 1] \in Nat
        BY <1>6, <4>1 DEF td
      <4>3. carry[k] \in Nat
        BY <1>4, <4>1
      <4>4. Digit(d, k) \in Digits /\ Digit(e, k) \in Digits
        BY <1>3, <3>1, DigitIs
      <4> QED
        BY <4>2, <4>3, <4>4 DEF Digits
    <3> DEFINE te0 == te[k]  te1 == te[k + 1]  td0 == td[k]  td1 == td[k + 1]
               c0 == carry[k]  c1 == carry[k + 1]  xe == Digit(e, k)  xd == Digit(d, k)
    <3>6. /\ te1 = td1 + c1 /\ xe + 10 * c1 = xd + c0 /\ te0 = xe + 10 * te1 /\ td0 = xd + 10 * td1
          /\ td1 \in Nat /\ xd \in Nat /\ c0 \in Nat /\ c1 \in Nat /\ xe \in Nat
      BY <3>2, <3>3, <3>4, <3>5
    <3> HIDE DEF te0, te1, td0, td1, c0, c1, xe, xd
    <3>7. te0 = td0 + c0
      BY <3>6
    <3> QED
      BY <3>7 DEF te0, td0, c0
  <2> HIDE DEF S
  <2>3. \A j \in Nat : j \in S
    BY <2>1, <2>2, NatSetInduction
  <2> QED
    BY <2>3 DEF S
<1>10. te[i] = td[i] + r
  <2>1. size - i \in Nat /\ size - (size - i) = i /\ size - i <= size - i
    BY <1>3
  <2> QED
    BY <1>4, <1>9, <2>1
<1>11. ASSUME NEW k \in 0 .. i - 1 PROVE Digit(e, k) = Digit(d, k)
  <2>1. k \in 0 .. size - 1 /\ k \in Nat
    BY <1>3
  <2>2. Digit(e, k) = (Digit(d, k) + 0) % 10 /\ Digit(d, k) \in 0 .. 9
    BY <1>3, <1>4, <1>5, <2>1
  <2> QED
    BY <2>2
<1>12. ASSUME size > l PROVE Digit(e, size - 1) > 0
  <2>1. size - 1 \in i .. size - 1 /\ (size - 1) + 1 = size /\ size - 1 \in Nat /\ size - 1 >= l
        /\ size - 1 \in 0 .. l + 4
    BY <1>3, <1>12
  <2>2. Digit(e, size - 1) = Digit(d, size - 1) + carry[size - 1]
    BY <1>3, <1>8, <2>1
  <2>3. Digit(d, size - 1) = 0 /\ carry[size - 1] > 0 /\ carry[size - 1] \in Nat
    BY <1>3, <1>4, <1>5, <1>12, <2>1
  <2> QED
    BY <2>2, <2>3
<1>13. ASSUME size = l, l > 0 PROVE Digit(e, size - 1) >= Digit(d, size - 1)
  <2>1. size - 1 \in 0 .. i - 1 \/ size - 1 \in i .. size - 1
    BY <1>3, <1>13
  <2>2. (size - 1) + 1 = size /\ size - 1 \in Nat /\ size - 1 \in 0 .. l + 4
    BY <1>3, <1>13
  <2>3. Digit(d, size - 1) \in Nat /\ carry[size - 1] \in Nat
    BY <1>4, <1>5, <2>2
  <2>4. CASE size - 1 \in 0 .. i - 1
    BY <1>11, <2>3, <2>4
  <2>5. CASE size - 1 \in i .. size - 1
    <3>1. Digit(e, size - 1) = Digit(d, size - 1) + carry[size - 1]
      BY <1>3, <1>8, <2>2, <2>5
    <3> QED
      BY <2>3, <3>1
  <2> QED
    BY <2>1, <2>4, <2>5
<1>14. AddsAt(e, d, i, r)
  <2>1. Len(e) >= Len(d)
    BY <1>3 DEF l, size
  <2> QED
    BY <1>3, <1>10, <1>11, <1>12, <1>13, <2>1 DEF AddsAt, l, size, td, te
<1> QED
  BY <1>14 DEF e

-------------------------------------------------------------------------------
\* The digits behind a place are all that counts for what they stand for.
LEMMA WorthBehind ==
  ASSUME NEW a \in Seq(Digits), NEW b \in Seq(Digits), Len(a) = Len(b),
         NEW k \in 0 .. Len(a), \A j \in k .. Len(a) - 1 : Digit(a, j) = Digit(b, j)
  PROVE  Worth(a)[k] = Worth(b)[k]
<1> DEFINE l == Len(a)  x == Worth(a)  y == Worth(b)
           S == {j \in Nat : j <= l - k => x[l - j] = y[l - j]}
<1>1. l \in Nat /\ k \in 0 .. l /\ \A j \in k .. l - 1 : Digit(a, j) = Digit(b, j)
  OBVIOUS
<1>2. /\ \A j \in Nat : x[j] = Digit(a, j) + 10 * x[j + 1]
      /\ \A j \in Nat : j >= l => x[j] = 0
  BY WorthIs DEF StandFor
<1>3. /\ \A j \in Nat : y[j] = Digit(b, j) + 10 * y[j + 1]
      /\ \A j \in Nat : j >= l => y[j] = 0
  BY WorthIs DEF StandFor
<1> HIDE DEF l, x, y
<1>4. 0 \in S
  <2>1. l - 0 = l /\ l >= l
    BY <1>1
  <2>2. x[l] = 0 /\ y[l] = 0
    BY <1>1, <1>2, <1>3, <2>1
  <2> QED
    BY <2>1, <2>2
<1>5. ASSUME NEW j \in Nat, j \in S PROVE j + 1 \in S
  <2> SUFFICES ASSUME j + 1 <= l - k PROVE x[l - (j + 1)] = y[l - (j + 1)]
    OBVIOUS
  <2> DEFINE i == l - (j + 1)
  <2>1. i \in Nat /\ i \in k .. l - 1 /\ i + 1 = l - j /\ j <= l - k
    BY <1>1
  <2>2. x[i + 1] = y[i + 1]
    BY <1>5, <2>1
  <2>3. x[i] = Digit(a, i) + 10 * x[i + 1] /\ y[i] = Digit(b, i) + 10 * y[i + 1]
    BY <1>2, <1>3, <2>1
  <2>4. Digit(a, i) = Digit(b, i)
    BY <1>1, <2>1
  <2> HIDE DEF i
  <2>5. x[i] = y[i]
    BY <2>2, <2>3, <2>4
  <2> QED
    BY <2>5 DEF i
<1> HIDE DEF S
<1>6. \A j \in Nat : j \in S
  BY <1>4, <1>5, NatSetInduction
<1>7. l - k \in Nat /\ l - k <= l - k /\ l - (l - k) = k
  BY <1>1
<1>8. x[l - (l - k)] = y[l - (l - k)]
  BY <1>6, <1>7 DEF S
<1> QED
  BY <1>7, <1>8 DEF x, y

\* One digit is multiplied, and what is in excess of 9 added behind it.
MulPlace(b, k, mul) ==
  AddFrom([b EXCEPT ![k] = (b[k] * mul) % 10], k, (b[k] * mul) \div 10)

MulsPlace(e, b, k, mul) ==
  LET product == Digit(b, k - 1) * mul
  IN  /\ e \in Seq(Digits) /\ Len(e) >= Len(b)
      /\ \A j \in 0 .. k - 2 : Digit(e, j) = Digit(b, j)
      /\ Digit(e, k - 1) = product % 10
      /\ Worth(e)[k] = Worth(b)[k] + (product \div 10)
      /\ Len(e) > Len(b) => Digit(e, Len(e) - 1) > 0
      /\ Len(e) = Len(b) /\ k < Len(b) => Digit(e, Len(e) - 1) >= Digit(b, Len(e) - 1)

LEMMA MulPlaceIs ==
  ASSUME NEW b \in Seq(Digits), NEW k \in 1 .. Len(b), NEW mul \in {2, 16, 256}
  PROVE  MulsPlace(MulPlace(b, k, mul), b, k, mul)
<1> DEFINE l == Len(b)
           product == b[k] * mul
           x == product % 10
           r == product \div 10
           c == [b EXCEPT ![k] = x]
           e == AddFrom(c, k, r)
<1>1. l \in Nat /\ k \in 1 .. l /\ \A j \in 1 .. l : b[j] \in Digits
  OBVIOUS
<1>2. x \in Digits /\ r \in 0 .. 255 /\ product \in Nat
  <2> DEFINE y == b[k]
  <2>1. y \in 0 .. 9
    BY <1>1 DEF Digits
  <2> HIDE DEF y
  <2>2. y * mul \in 0 .. 2304
    <3>1. CASE mul = 2
      BY <2>1, <3>1
    <3>2. CASE mul = 16
      BY <2>1, <3>2
    <3>3. CASE mul = 256
      BY <2>1, <3>3
    <3> QED
      BY <3>1, <3>2, <3>3
  <2> DEFINE z == y * mul
  <2>3. z \in 0 .. 2304
    BY <2>2
  <2> HIDE DEF z
  <2>4. z % 10 \in Digits /\ z \div 10 \in 0 .. 255 /\ z \in Nat
    BY <2>3 DEF Digits
  <2> QED
    BY <2>4 DEF z, y
<1>3. MulPlace(b, k, mul) = e
  BY DEF MulPlace
<1>4. Digit(b, k - 1) = b[k]
  <2>1. k - 1 \in Nat /\ k - 1 < l /\ (k - 1) + 1 = k
    BY <1>1
  <2> QED
    BY <2>1, DigitIs
<1>5. Digit(b, k - 1) * mul = product
  BY <1>4
<1> HIDE DEF product, x, r
<1>6. c \in Seq(Digits) /\ Len(c) = l /\ \A j \in 1 .. l : c[j] = IF j = k THEN x ELSE b[j]
  BY <1>1, <1>2
<1> HIDE DEF c
<1>7. /\ \A j \in Nat : j # k - 1 => Digit(c, j) = Digit(b, j)
      /\ Digit(c, k - 1) = x
  <2>1. ASSUME NEW j \in Nat, j # k - 1 PROVE Digit(c, j) = Digit(b, j)
    <3>1. CASE j < l
      <4>1. j + 1 \in 1 .. l /\ j + 1 # k
        BY <1>1, <2>1, <3>1
      <4> QED
        BY <1>6, <3>1, <4>1, DigitIs
    <3>2. CASE ~(j < l)
      BY <1>1, <1>6, <3>2 DEF Digit
    <3> QED
      BY <3>1, <3>2
  <2>2. k - 1 \in Nat /\ k - 1 < l /\ (k - 1) + 1 = k
    BY <1>1
  <2>3. Digit(c, k - 1) = x
    BY <1>6, <2>2, DigitIs
  <2> QED
    BY <2>1, <2>3
<1>8. AddsAt(e, c, k, r)
  <2>1. k \in 0 .. Len(c)
    BY <1>1, <1>6
  <2> QED
    BY <1>2, <1>6, <2>1, AddFromIs
<1> HIDE DEF e
<1>9. /\ e \in Seq(Digits) /\ Len(e) >= Len(c)
      /\ \A j \in 0 .. k - 1 : Digit(e, j) = Digit(c, j)
      /\ Worth(e)[k] = Worth(c)[k] + r
      /\ Len(e) > Len(c) => Digit(e, Len(e) - 1) > 0
      /\ Len(e) = Len(c) /\ Len(c) > 0 => Digit(e, Len(e) - 1) >= Digit(c, Len(e) - 1)
  BY <1>8 DEF AddsAt
<1>10. Worth(c)[k] = Worth(b)[k]
  <2>1. k \in 0 .. Len(c) /\ Len(c) = Len(b)
    BY <1>1, <1>6
  <2>2. \A j \in k .. Len(c) - 1 : Digit(c, j) = Digit(b, j)
    <3> TAKE j \in k .. Len(c) - 1
    <3>1. j \in Nat /\ j # k - 1
      BY <1>1
    <3> QED
      BY <1>7, <3>1
  <2> QED
    BY <1>6, <2>1, <2>2, WorthBehind
<1>11. \A j \in 0 .. k - 2 : Digit(e, j) = Digit(b, j)
  <2> TAKE j \in 0 .. k - 2
  <2>1. j \in 0 .. k - 1 /\ j \in Nat /\ j # k - 1
    BY <1>1
  <2> QED
    BY <1>7, <1>9, <2>1
<1>12. Digit(e, k - 1) = x
  <2>1. k - 1 \in 0 .. k - 1
    BY <1>1
  <2> QED
    BY <1>7, <1>9, <2>1
<1>13. ASSUME Len(e) = l, k < l PROVE Digit(e, Len(e) - 1) >= Digit(b, Len(e) - 1)
  <2>1. Len(e) - 1 \in Nat /\ Len(e) - 1 # k - 1 /\ l > 0
    BY <1>1, <1>13
  <2>2. Digit(c, Len(e) - 1) = Digit(b, Len(e) - 1)
    BY <1>7, <2>1
  <2> QED
    BY <1>6, <1>9, <1>13, <2>1, <2>2
<1>14. MulsPlace(e, b, k, mul)
  BY <1>5, <1>6, <1>9, <1>10, <1>11, <1>12, <1>13 DEF MulsPlace, l, x, r
<1> QED
  BY <1>3, <1>14

\* There are digits, and the last of several is not 0.
NoZeros(d) ==
  d \in Seq(Digits) /\ Len(d) > 0 /\ (Len(d) = 1 \/ Digit(d, Len(d) - 1) > 0)

\* The digits behind the first k places are multiplied, the others are those of d.
MulDone(b, d, mul, k) ==
  /\ NoZeros(b) /\ Len(b) >= Len(d)
  /\ \A j \in 0 .. k - 1 : Digit(b, j) = Digit(d, j)
  /\ Worth(b)[k] = mul * Worth(d)[k]

LEMMA MulStep ==
  ASSUME NEW d, NoZeros(d), NEW mul \in {2, 16, 256}, NEW k \in 1 .. Len(d),
         NEW b, MulDone(b, d, mul, k)
  PROVE  MulDone(MulPlace(b, k, mul), d, mul, k - 1)
<1> DEFINE l == Len(d)  m == Len(b)
           e == MulPlace(b, k, mul)
           size == Len(e)
           x == Digit(d, k - 1)
           product == x * mul
           wd == Worth(d)  wb == Worth(b)  we == Worth(e)
<1>1. /\ d \in Seq(Digits) /\ l \in Nat /\ k \in 1 .. l /\ (l = 1 \/ Digit(d, l - 1) > 0)
      /\ b \in Seq(Digits) /\ m \in Nat /\ m >= l /\ (m = 1 \/ Digit(b, m - 1) > 0)
      /\ \A j \in 0 .. k - 1 : Digit(b, j) = Digit(d, j)
      /\ wb[k] = mul * wd[k]
  BY DEF MulDone, NoZeros
<1>2. k \in 1 .. m /\ k - 1 \in Nat /\ k - 1 \in 0 .. k - 1 /\ (k - 1) + 1 = k /\ k \in Nat
  BY <1>1
<1>3. Digit(b, k - 1) = x
  BY <1>1, <1>2
<1>4. MulsPlace(e, b, k, mul)
  BY <1>1, <1>2, MulPlaceIs
<1> HIDE DEF e
<1>5. /\ e \in Seq(Digits) /\ size \in Nat /\ size >= m
      /\ \A j \in 0 .. k - 2 : Digit(e, j) = Digit(b, j)
      /\ Digit(e, k - 1) = product % 10
      /\ we[k] = wb[k] + (product \div 10)
      /\ size > m => Digit(e, size - 1) > 0
      /\ size = m /\ k < m => Digit(e, size - 1) >= Digit(b, size - 1)
  BY <1>3, <1>4 DEF MulsPlace
<1>6. x \in 0 .. 9 /\ product \in Nat
  <2>1. x \in 0 .. 9
    BY <1>1, <1>2, DigitIs DEF Digits
  <2> HIDE DEF x
  <2> QED
    BY <2>1
<1>7. wd[k] \in Nat /\ wd[k - 1] = x + 10 * wd[k]
  <2>1. d \in Seq(Digits) /\ k \in Nat /\ k - 1 \in Nat
    BY <1>1, <1>2
  <2> HIDE DEF wd, x, l
  <2>2. Worth(d)[k] \in Nat
    BY <2>1, WorthAt
  <2>3. Worth(d)[k - 1] = Digit(d, k - 1) + 10 * Worth(d)[(k - 1) + 1]
    <3> DEFINE j == k - 1
    <3>1. j \in Nat
      BY <2>1
    <3> HIDE DEF j
    <3>2. Worth(d)[j] = Digit(d, j) + 10 * Worth(d)[j + 1]
      BY <2>1, <3>1, WorthAt
    <3> QED
      BY <3>2 DEF j
  <2> QED
    BY <1>2, <2>2, <2>3 DEF x, wd
<1>8. we[k - 1] = (product % 10) + 10 * we[k] /\ (k >= size => we[k] = 0)
  <2>1. e \in Seq(Digits) /\ k \in Nat /\ k - 1 \in Nat
    BY <1>2, <1>5
  <2> HIDE DEF we, product, size
  <2>2. k >= Len(e) => Worth(e)[k] = 0
    BY <2>1, WorthAt
  <2>3. Worth(e)[k - 1] = Digit(e, k - 1) + 10 * Worth(e)[(k - 1) + 1]
    <3> DEFINE j == k - 1
    <3>1. j \in Nat
      BY <2>1
    <3> HIDE DEF j
    <3>2. Worth(e)[j] = Digit(e, j) + 10 * Worth(e)[j + 1]
      BY <2>1, <3>1, WorthAt
    <3> QED
      BY <3>2 DEF j
  <2>4. we[k - 1] = Digit(e, k - 1) + 10 * we[k] /\ (k >= size => we[k] = 0)
    BY <1>2, <2>2, <2>3 DEF we, size
  <2> QED
    BY <1>5, <2>4
<1> HIDE DEF x, wd, wb, we, l, m, size
<1>9. we[k - 1] = mul * wd[k - 1]
  <2> DEFINE t == wd[k]
  <2>1. t \in Nat /\ we[k] = mul * t + (product \div 10)
    BY <1>1, <1>5, <1>7
  <2> HIDE DEF t
  <2>2. product = (product % 10) + 10 * (product \div 10) /\ product \div 10 \in Nat /\ product % 10 \in Nat
    <3> HIDE DEF product
    <3> QED
      BY <1>6
  <2> DEFINE q == product \div 10  y == product % 10
  <2>3. q \in Nat /\ y \in Nat /\ x * mul = y + 10 * q /\ we[k] = mul * t + q /\ we[k - 1] = y + 10 * we[k]
    BY <1>8, <2>1, <2>2
  <2> HIDE DEF q, y
  <2>4. y + 10 * (mul * t + q) = mul * (x + 10 * t)
    <3>1. CASE mul = 2
      BY <1>6, <2>1, <2>3, <3>1
    <3>2. CASE mul = 16
      BY <1>6, <2>1, <2>3, <3>2
    <3>3. CASE mul = 256
      BY <1>6, <2>1, <2>3, <3>3
    <3> QED
      BY <3>1, <3>2, <3>3
  <2> QED
    BY <1>7, <2>3, <2>4 DEF t
<1>10. \A j \in 0 .. (k - 1) - 1 : Digit(e, j) = Digit(d, j)
  <2> TAKE j \in 0 .. (k - 1) - 1
  <2>1. j \in 0 .. k - 2 /\ j \in 0 .. k - 1
    BY <1>1
  <2> QED
    BY <1>1, <1>5, <2>1
<1>11. size = 1 \/ Digit(e, size - 1) > 0
  <2>1. CASE size > m
    BY <1>5, <2>1
  <2>2. CASE size = m /\ k < m
    <3>1. Digit(b, m - 1) \in Nat /\ Digit(e, size - 1) \in Nat
      <4>1. m - 1 \in Nat /\ size - 1 \in Nat
        BY <1>1, <2>2
      <4>2. Digit(b, m - 1) \in Digits
        BY <1>1, <4>1, DigitIs
      <4>3. Digit(e, size - 1) \in Digits
        BY <1>5, <4>1, DigitIs
      <4> QED
        BY <4>2, <4>3 DEF Digits
    <3> QED
      BY <1>1, <1>5, <2>2, <3>1
  <2>3. CASE size = m /\ ~(k < m)
    <3>1. k = m /\ l = m /\ k >= size /\ k = size
      BY <1>1, <1>2, <2>3
    <3> DEFINE q == product \div 10  t == wd[k]
    <3>2. mul * t + q = 0 /\ t \in Nat
      BY <1>1, <1>5, <1>7, <1>8, <3>1
    <3>3. q = 0 /\ product % 10 = product
      <4> HIDE DEF product, t
      <4>1. q \in Nat /\ mul * t \in Nat /\ (q = 0 => product % 10 = product)
        BY <1>6, <3>2
      <4> HIDE DEF q
      <4> DEFINE mt == mul * t
      <4> HIDE DEF mt
      <4>2. mt \in Nat /\ mt + q = 0
        BY <3>2, <4>1 DEF mt
      <4>3. q = 0
        BY <4>1, <4>2
      <4> QED
        BY <4>1, <4>3
    <3>4. l = 1 \/ x > 0
      BY <1>1, <3>1 DEF x
    <3>5. x > 0 => x * mul > 0
      BY <1>6
    <3>6. Digit(e, size - 1) = product
      BY <1>5, <3>1, <3>3
    <3> QED
      BY <3>1, <3>4, <3>5, <3>6
  <2> QED
    BY <1>5, <1>1, <2>1, <2>2, <2>3
<1>12. NoZeros(e) /\ size >= l
  <2>1. size >= l /\ size > 0
    BY <1>1, <1>5
  <2> QED
    BY <1>5, <1>11, <2>1 DEF NoZeros, size
<1> QED
  BY <1>9, <1>10, <1>12 DEF MulDone, e, size, l, we, wd

\* MulAdd runs through the places of d from the last on.
MulsAll(after, d, mul, add) ==
  /\ MulAdd(d, mul, add) = AddFrom(after[Len(d)], 0, add)
  /\ MulDone(after[Len(d)], d, mul, 0)

LEMMA MulRuns ==
  ASSUME NEW d, NoZeros(d), NEW mul \in {2, 16, 256}, NEW add \in 0 .. 255
  PROVE  \E after : MulsAll(after, d, mul, add)
<1> DEFINE l == Len(d)
           Body(g) == [n \in 0 .. l |->
                        IF n = 0 THEN d ELSE MulPlace(g[n - 1], l - n + 1, mul)]
           V == {b \in Seq(Digits) : Len(b) >= l}
           step == [n \in 1 .. l |-> [b \in V |-> MulPlace(b, l - n + 1, mul)]]
           after == CHOOSE g : g = Body(g)
<1>1. MulAdd(d, mul, add) = AddFrom(after[l], 0, add)
  BY Zenon DEF MulAdd, MulPlace
<1> HIDE DEF after
<1>2. l \in Nat /\ d \in Seq(Digits) /\ d \in V
  BY DEF NoZeros
<1> HIDE DEF l
<1>3. \A n \in 1 .. l : l - n + 1 \in 1 .. l
  BY <1>2
<1>4. step \in [1 .. l -> [V -> V]]
  <2>1. ASSUME NEW n \in 1 .. l, NEW b \in V PROVE MulPlace(b, l - n + 1, mul) \in V
    <3> DEFINE k == l - n + 1
    <3>1. b \in Seq(Digits) /\ k \in 1 .. Len(b) /\ Len(b) >= l /\ Len(b) \in Nat
      BY <1>2, <1>3
    <3> HIDE DEF k
    <3>2. MulsPlace(MulPlace(b, k, mul), b, k, mul)
      BY <3>1, MulPlaceIs
    <3>3. MulPlace(b, k, mul) \in Seq(Digits) /\ Len(MulPlace(b, k, mul)) >= Len(b)
      BY <3>2 DEF MulsPlace
    <3> DEFINE e == MulPlace(b, k, mul)
    <3>4. e \in Seq(Digits) /\ Len(e) >= Len(b)
      BY <3>3
    <3> HIDE DEF e
    <3>5. Len(e) \in Nat
      BY <3>4
    <3>6. e \in V
      BY <1>2, <3>1, <3>4, <3>5
    <3> QED
      BY <3>6 DEF e, k
  <2> HIDE DEF V
  <2> QED
    BY <2>1
<1>5. \E g : g = Body(g)
  <2> HIDE DEF V
  <2>1. PICK g \in [0 .. l -> V] : Runs(g, l, d, step)
    <3> HIDE DEF step
    <3> QED
      BY <1>2, <1>4, Recursion
  <2>2. \A n \in 0 .. l : g[n] = Body(g)[n]
    <3> TAKE n \in 0 .. l
    <3>1. CASE n = 0
      BY <2>1, <3>1 DEF Runs
    <3>2. CASE n # 0
      <4>1. n \in 1 .. l /\ n - 1 \in 0 .. l /\ g[n - 1] \in V
        BY <1>2, <3>2
      <4>2. g[n] = step[n][g[n - 1]]
        BY <2>1, <4>1 DEF Runs
      <4> QED
        BY <3>2, <4>1, <4>2
    <3> QED
      BY <3>1, <3>2
  <2>3. g = [n \in 0 .. l |-> g[n]] /\ Body(g) = [n \in 0 .. l |-> Body(g)[n]]
    OBVIOUS
  <2>4. g = Body(g)
    <3> HIDE DEF Body
    <3> QED
      BY <2>2, <2>3
  <2> QED
    BY <2>4
<1>6. after = Body(after)
  <2>1. after = CHOOSE g : g = Body(g)
    BY Zenon DEF after
  <2> HIDE DEF Body
  <2> QED
    BY <1>5, <2>1, Zenon
<1>7. after[0] = d /\ \A n \in 1 .. l : after[n] = MulPlace(after[n - 1], l - n + 1, mul)
  <2>1. \A n \in 0 .. l : after[n] = Body(after)[n]
    <3> HIDE DEF Body
    <3> QED
      BY <1>6
  <2>2. 0 \in 0 .. l /\ \A n \in 1 .. l : n \in 0 .. l /\ n # 0
    BY <1>2
  <2> QED
    BY <2>1, <2>2
<1> HIDE DEF Body, step, V
<1>8. \A n \in Nat : n <= l => MulDone(after[n], d, mul, l - n)
  <2> DEFINE S == {n \in Nat : n <= l => MulDone(after[n], d, mul, l - n)}
  <2>1. 0 \in S
    <3>1. l - 0 = l /\ Worth(d)[l] = 0
      BY <1>2, WorthAt DEF l
    <3>2. mul * 0 = 0
      OBVIOUS
    <3>3. Worth(d)[l] = mul * Worth(d)[l]
      BY <3>1, <3>2
    <3>4. Len(d) >= Len(d)
      BY <1>2 DEF l
    <3>5. MulDone(d, d, mul, l)
      BY <3>3, <3>4 DEF MulDone
    <3> QED
      BY <1>7, <3>1, <3>5
  <2>2. ASSUME NEW n \in Nat, n \in S PROVE n + 1 \in S
    <3> SUFFICES ASSUME n + 1 <= l PROVE MulDone(after[n + 1], d, mul, l - (n + 1))
      OBVIOUS
    <3> DEFINE k == l - n  b == after[n]
    <3>1. /\ n <= l /\ k \in 1 .. l /\ k - 1 = l - (n + 1) /\ n + 1 \in 1 .. l
          /\ l - (n + 1) + 1 = k /\ (n + 1) - 1 = n
      BY <1>2
    <3>2. MulDone(b, d, mul, k)
      BY <2>2, <3>1
    <3>3. after[n + 1] = MulPlace(b, k, mul)
      BY <1>7, <3>1
    <3>4. k \in 1 .. Len(d)
      BY <3>1 DEF l
    <3> HIDE DEF k, b
    <3>5. MulDone(MulPlace(b, k, mul), d, mul, k - 1)
      BY <3>2, <3>4, MulStep
    <3> QED
      BY <3>1, <3>3, <3>5
  <2> HIDE DEF S
  <2>3. \A n \in Nat : n \in S
    BY <2>1, <2>2, NatSetInduction
  <2> QED
    BY <2>3 DEF S
<1>9. MulDone(after[l], d, mul, 0)
  <2>1. l - l = 0 /\ l <= l
    BY <1>2
  <2> QED
    BY <1>2, <1>8, <2>1
<1>10. MulsAll(after, d, mul, add)
  BY <1>1, <1>9 DEF MulsAll, l
<1> QED
  BY <1>10

\* MulAdd multiplies the number and adds to it.
MultipliesAdds(e, d, mul, add) == NoZeros(e) /\ Worth(e)[0] = mul * Worth(d)[0] + add

LEMMA MulAddIs ==
  ASSUME NEW d, NoZeros(d), NEW mul \in {2, 16, 256}, NEW add \in 0 .. 255
  PROVE  MultipliesAdds(MulAdd(d, mul, add), d, mul, add)
<1>1. PICK after : MulsAll(after, d, mul, add)
  BY MulRuns
<1> DEFINE b == after[Len(d)]
           e == AddFrom(b, 0, add)
<1>2. MulAdd(d, mul, add) = e /\ MulDone(b, d, mul, 0)
  BY <1>1 DEF MulsAll
<1> HIDE DEF b
<1>3. /\ b \in Seq(Digits) /\ Len(b) > 0 /\ Len(b) \in Nat
      /\ Len(b) = 1 \/ Digit(b, Len(b) - 1) > 0
      /\ Worth(b)[0] = mul * Worth(d)[0]
  BY <1>2 DEF MulDone, NoZeros
<1>4. AddsAt(e, b, 0, add)
  <2>1. 0 \in 0 .. Len(b)
    BY <1>3
  <2> QED
    BY <1>3, <2>1, AddFromIs
<1> HIDE DEF e
<1>5. /\ e \in Seq(Digits) /\ Len(e) >= Len(b)
      /\ Worth(e)[0] = Worth(b)[0] + add
      /\ Len(e) > Len(b) => Digit(e, Len(e) - 1) > 0
      /\ Len(e) = Len(b) => Digit(e, Len(e) - 1) >= Digit(b, Len(e) - 1)
  BY <1>3, <1>4 DEF AddsAt
<1>6. Len(e) \in Nat /\ Len(e) > 0
  BY <1>3, <1>5
<1>7. Len(e) = 1 \/ Digit(e, Len(e) - 1) > 0
  <2>1. CASE Len(e) > Len(b)
    BY <1>5, <2>1
  <2>2. CASE Len(e) = Len(b)
    <3> DEFINE k == Len(b) - 1
    <3>1. k \in Nat /\ Len(e) - 1 = k
      BY <1>3, <2>2
    <3> HIDE DEF k
    <3>2. Digit(e, k) \in Digits /\ Digit(b, k) \in Digits
      BY <1>3, <1>5, <3>1, DigitIs
    <3>3. Digit(e, k) >= Digit(b, k)
      BY <1>5, <2>2, <3>1
    <3>4. Len(b) = 1 \/ Digit(b, k) > 0
      BY <1>3 DEF k
    <3>5. Len(b) = 1 \/ Digit(e, k) > 0
      BY <3>2, <3>3, <3>4 DEF Digits
    <3> QED
      BY <2>2, <3>1, <3>5
  <2> QED
    BY <1>3, <1>5, <1>6, <2>1, <2>2
<1>8. NoZeros(e)
  BY <1>5, <1>6, <1>7 DEF NoZeros
<1> QED
  BY <1>2, <1>3, <1>5, <1>8 DEF MultipliesAdds

\* The digits of "%I", the last first.
WritesNumber(d, b) ==
  /\ NoZeros(d)
  /\ Worth(d)[0] = NumberOf(Content(b), b.width)
  /\ b.len > 0 => FormatInteger(b) = [i \in 1 .. Len(d) |-> d[Len(d) + 1 - i]]

LEMMA FormatRuns ==
  ASSUME NEW b, Sound(b)
  PROVE  \E d : WritesNumber(d, b)
<1> DEFINE s == Content(b)
           l == b.len
           base == 2 ^ b.width
           zero == <<0>>
           Body(g) == [n \in 0 .. l |-> IF n = 0 THEN zero ELSE MulAdd(g[n - 1], base, b.data[n])]
           V == {d \in Seq(Digits) : NoZeros(d)}
           step == [n \in 1 .. l |-> [d \in V |-> MulAdd(d, base, b.data[n])]]
           digits == CHOOSE g : g = Body(g)
           d0 == digits[l]
<1>1. l > 0 => FormatInteger(b) = [i \in 1 .. Len(d0) |-> d0[Len(d0) + 1 - i]]
  <2> HIDE DEF V, step
  <2> QED
    BY DEF FormatInteger
<1> HIDE DEF digits
<1>2. s \in Seq(Nat) /\ Len(s) = l /\ l \in Nat /\ b.width \in Widths
      /\ \A k \in 1 .. l : b.data[k] = s[k]
  <2>1. s \in Seq(Nat) /\ Len(s) = l /\ l \in Nat /\ b.width \in Widths /\ Holds(b, b.width, s)
    BY SoundContent
  <2> HIDE DEF s
  <2> QED
    BY <2>1 DEF Holds
<1>3. base \in {2, 16, 256} /\ \A k \in 1 .. l : s[k] \in 0 .. 255
  <2>1. base \in {2, 16, 256}
    BY <1>2, Bases
  <2>2. s \in Seq(Byte)
    BY SoundContent
  <2> HIDE DEF s, base
  <2>3. \A k \in 1 .. l : s[k] \in 0 .. 255
    <3> TAKE k \in 1 .. l
    <3>1. k \in 1 .. Len(s)
      BY <1>2
    <3> QED
      BY <2>2, <3>1, ElementOfSeq DEF Byte
  <2> QED
    BY <2>1, <2>3
<1>4. PICK sum : NumberOf(s, b.width) = sum[Len(s)] /\ SumsUp(sum, s, base)
  BY <1>2, NumberRuns
<1> HIDE DEF s, base, l
<1>5. NoZeros(zero) /\ zero \in V /\ Worth(zero)[0] = 0
  <2>1. zero \in Seq(Digits) /\ Len(zero) = 1
    BY DEF Digits
  <2>2. NoZeros(zero)
    <3> HIDE DEF zero
    <3> QED
      BY <2>1 DEF NoZeros
  <2>3. Digit(zero, 0) = 0
    BY DEF Digit
  <2> HIDE DEF zero
  <2>4. Worth(zero)[0 + 1] = 0
    <3>1. 0 + 1 \in Nat /\ 0 + 1 >= Len(zero)
      BY <2>1
    <3> QED
      BY <2>1, <3>1, WorthAt
  <2>5. Worth(zero)[0] = Digit(zero, 0) + 10 * Worth(zero)[0 + 1]
    BY <2>1, WorthAt
  <2>6. Worth(zero)[0] = 0
    BY <2>3, <2>4, <2>5
  <2> QED
    BY <2>1, <2>2, <2>6
<1> HIDE DEF zero
<1>6. step \in [1 .. l -> [V -> V]]
  <2>1. ASSUME NEW n \in 1 .. l, NEW d \in V PROVE MulAdd(d, base, b.data[n]) \in V
    <3> DEFINE x == b.data[n]
    <3>1. x \in 0 .. 255 /\ NoZeros(d)
      BY <1>2, <1>3
    <3> HIDE DEF x
    <3>2. NoZeros(MulAdd(d, base, x))
      BY <1>3, <3>1, MulAddIs DEF MultipliesAdds
    <3> DEFINE e == MulAdd(d, base, x)
    <3>3. NoZeros(e)
      BY <3>2
    <3> HIDE DEF e
    <3>4. e \in V
      BY <3>3 DEF NoZeros
    <3> QED
      BY <3>4 DEF e, x
  <2> HIDE DEF V
  <2> QED
    BY <2>1
<1>7. \E g : g = Body(g)
  <2> HIDE DEF V
  <2>1. PICK g \in [0 .. l -> V] : Runs(g, l, zero, step)
    <3> HIDE DEF step
    <3> QED
      BY <1>2, <1>5, <1>6, Recursion
  <2>2. \A n \in 0 .. l : g[n] = Body(g)[n]
    <3> TAKE n \in 0 .. l
    <3>1. CASE n = 0
      BY <2>1, <3>1 DEF Runs
    <3>2. CASE n # 0
      <4>1. n \in 1 .. l /\ n - 1 \in 0 .. l /\ g[n - 1] \in V
        BY <1>2, <3>2
      <4>2. g[n] = step[n][g[n - 1]]
        BY <2>1, <4>1 DEF Runs
      <4> QED
        BY <3>2, <4>1, <4>2
    <3> QED
      BY <3>1, <3>2
  <2>3. g = [n \in 0 .. l |-> g[n]] /\ Body(g) = [n \in 0 .. l |-> Body(g)[n]]
    OBVIOUS
  <2>4. g = Body(g)
    <3> HIDE DEF Body
    <3> QED
      BY <2>2, <2>3
  <2> QED
    BY <2>4
<1>8. digits = Body(digits)
  <2>1. digits = CHOOSE g : g = Body(g)
    BY Zenon DEF digits, l, zero, base
  <2> HIDE DEF Body
  <2> QED
    BY <1>7, <2>1, Zenon
<1>9. digits[0] = zero /\ \A n \in 1 .. l : digits[n] = MulAdd(digits[n - 1], base, s[n])
  <2>1. \A n \in 0 .. l : digits[n] = Body(digits)[n]
    <3> HIDE DEF Body
    <3> QED
      BY <1>8
  <2>2. 0 \in 0 .. l /\ \A n \in 1 .. l : n \in 0 .. l /\ n # 0
    BY <1>2
  <2> QED
    BY <1>2, <2>1, <2>2
<1> HIDE DEF Body, step, V, d0
<1>10. \A n \in Nat : n <= l => NoZeros(digits[n]) /\ Worth(digits[n])[0] = sum[n]
  <2> DEFINE S == {n \in Nat : n <= l => NoZeros(digits[n]) /\ Worth(digits[n])[0] = sum[n]}
  <2>1. 0 \in S
    <3>1. sum[0] = 0
      BY <1>4 DEF SumsUp
    <3> QED
      BY <1>5, <1>9, <3>1
  <2>2. ASSUME NEW n \in Nat, n \in S PROVE n + 1 \in S
    <3> SUFFICES ASSUME n + 1 <= l
                 PROVE  NoZeros(digits[n + 1]) /\ Worth(digits[n + 1])[0] = sum[n + 1]
      OBVIOUS
    <3>1. n + 1 \in 1 .. l /\ (n + 1) - 1 = n /\ n <= l /\ n \in 0 .. l
      BY <1>2
    <3> DEFINE d == digits[n]  x == s[n + 1]  e == MulAdd(d, base, x)
    <3>2. NoZeros(d) /\ Worth(d)[0] = sum[n]
      BY <2>2, <3>1
    <3>3. digits[n + 1] = e /\ x \in 0 .. 255
      BY <1>3, <1>9, <3>1
    <3>4. sum[n + 1] = sum[n] * base + x /\ sum[n] \in Nat
      BY <1>2, <1>4, <3>1 DEF SumsUp
    <3> HIDE DEF d, x
    <3>5. NoZeros(e) /\ Worth(e)[0] = base * Worth(d)[0] + x
      <4>1. NoZeros(d) /\ base \in {2, 16, 256} /\ x \in 0 .. 255
        BY <1>3, <3>2, <3>3
      <4>2. MultipliesAdds(MulAdd(d, base, x), d, base, x)
        BY <4>1, MulAddIs
      <4> HIDE DEF e
      <4>3. MultipliesAdds(e, d, base, x)
        BY <4>2 DEF e
      <4> QED
        BY <4>3 DEF MultipliesAdds
    <3> HIDE DEF e
    <3> DEFINE y == sum[n]
    <3>6. Worth(e)[0] = base * y + x /\ sum[n + 1] = y * base + x /\ y \in Nat
      BY <3>2, <3>4, <3>5
    <3> HIDE DEF y
    <3>7. base * y + x = y * base + x
      BY <1>3, <3>3, <3>6
    <3> QED
      BY <3>3, <3>5, <3>6, <3>7
  <2> HIDE DEF S
  <2>3. \A n \in Nat : n \in S
    BY <2>1, <2>2, NatSetInduction
  <2> QED
    BY <2>3 DEF S
<1>11. NoZeros(d0) /\ Worth(d0)[0] = NumberOf(Content(b), b.width)
  <2>1. l \in Nat /\ l <= l /\ Len(s) = l
    BY <1>2
  <2>2. NoZeros(d0) /\ Worth(d0)[0] = sum[l]
    BY <1>10, <2>1 DEF d0
  <2> QED
    BY <1>4, <2>1, <2>2 DEF s
<1>12. WritesNumber(d0, b)
  <2>1. d0 = digits[l]
    BY DEF d0
  <2> QED
    BY <1>1, <1>11, <2>1 DEF WritesNumber, l
<1> QED
  BY <1>12

-------------------------------------------------------------------------------
\* A power of ten is above all powers of a smaller exponent.
LEMMA PowersGrow ==
  ASSUME NEW m \in Nat, NEW n \in Nat, m <= n
  PROVE  Power(10, m) <= Power(10, n)
<1>1. \A k \in Nat : Power(10, k) \in Nat /\ Power(10, k + 1) = 10 * Power(10, k)
  BY PowerIs
<1> DEFINE S == {j \in Nat : Power(10, m) <= Power(10, m + j)}
<1>2. 0 \in S
  <2>1. m + 0 = m
    OBVIOUS
  <2>2. Power(10, m) \in Nat /\ Power(10, m) <= Power(10, m)
    BY <1>1
  <2> QED
    BY <2>1, <2>2
<1>3. ASSUME NEW j \in Nat, j \in S PROVE j + 1 \in S
  <2>1. m + (j + 1) = (m + j) + 1 /\ m + j \in Nat
    OBVIOUS
  <2>2. Power(10, m) <= Power(10, m + j)
    BY <1>3
  <2> DEFINE x == Power(10, m)  y == Power(10, m + j)  z == Power(10, m + (j + 1))
  <2>3. x \in Nat /\ y \in Nat /\ z = 10 * y /\ x <= y
    BY <1>1, <2>1, <2>2
  <2> HIDE DEF x, y, z
  <2>4. x <= z
    BY <2>3
  <2> QED
    BY <2>4 DEF x, z
<1> HIDE DEF S
<1>4. \A j \in Nat : j \in S
  BY <1>2, <1>3, NatSetInduction
<1>5. n - m \in Nat /\ m + (n - m) = n
  OBVIOUS
<1> QED
  BY <1>4, <1>5 DEF S

\* Three decimal digits hold more than an element.
LEMMA PowersBelow ==
  ASSUME NEW base \in {2, 16, 256}, NEW m \in Nat
  PROVE  Power(base, m) <= Power(10, 3 * m)
<1>1. /\ Power(base, 0) = 1
      /\ \A k \in Nat : Power(base, k) \in Nat /\ Power(base, k + 1) = base * Power(base, k)
  <2>1. base \in Nat \ {0}
    OBVIOUS
  <2> QED
    BY <2>1, PowerIs
<1>2. /\ Power(10, 0) = 1
      /\ \A k \in Nat : Power(10, k) \in Nat /\ Power(10, k + 1) = 10 * Power(10, k)
  BY PowerIs
<1> DEFINE S == {j \in Nat : Power(base, j) <= Power(10, 3 * j)}
<1>3. 0 \in S
  <2>1. 3 * 0 = 0
    OBVIOUS
  <2> QED
    BY <1>1, <1>2, <2>1
<1>4. ASSUME NEW j \in Nat, j \in S PROVE j + 1 \in S
  <2> DEFINE k == 3 * j
  <2>1. k \in Nat /\ 3 * (j + 1) = ((k + 1) + 1) + 1 /\ k + 1 \in Nat /\ (k + 1) + 1 \in Nat
    OBVIOUS
  <2>2. Power(base, j) <= Power(10, k)
    BY <1>4
  <2> HIDE DEF k
  <2> DEFINE x == Power(base, j)  y == Power(base, j + 1)
             u == Power(10, k)  v == Power(10, ((k + 1) + 1) + 1)
  <2>3. x \in Nat /\ y = base * x /\ u \in Nat /\ x <= u
    BY <1>1, <1>2, <2>1, <2>2
  <2>4. v = 10 * (10 * (10 * u))
    BY <1>2, <2>1
  <2> HIDE DEF x, y, u, v
  <2>5. y <= v
    <3>1. CASE base = 2
      BY <2>3, <2>4, <3>1
    <3>2. CASE base = 16
      BY <2>3, <2>4, <3>2
    <3>3. CASE base = 256
      BY <2>3, <2>4, <3>3
    <3> QED
      BY <3>1, <3>2, <3>3
  <2> QED
    BY <2>1, <2>5 DEF y, v
<1> HIDE DEF S
<1>5. m \in S
  <2>1. \A j \in Nat : j \in S
    BY <1>3, <1>4, NatSetInduction
  <2> QED
    BY <2>1
<1> QED
  BY <1>5 DEF S

\* Digits are those of their number, which is as long as they are.
IsLong(n, k) == n < Power(10, k) /\ (k = 1 \/ n >= Power(10, k - 1))

Spells(d, n) ==
  /\ Len(d) \in Nat /\ Len(d) > 0 /\ n \in Nat
  /\ IsLong(n, Len(d))
  /\ \A i \in 1 .. Len(d) : (n \div Power(10, Len(d) - i)) % 10 = d[Len(d) + 1 - i]

LEMMA DigitsSpell ==
  ASSUME NEW d, NoZeros(d)
  PROVE  Spells(d, Worth(d)[0])
<1> DEFINE l == Len(d)
           base == 10
           n == Worth(d)[0]
           t == Worth(d)
           s == [i \in 1 .. l |-> d[l + 1 - i]]
           h == [k \in 0 .. l |-> t[l - k]]
<1>1. d \in Seq(Digits) /\ l \in Nat /\ l > 0 /\ (l = 1 \/ Digit(d, l - 1) > 0)
  BY DEF NoZeros
<1>2. t[l] = 0 /\ \A k \in Nat : t[k] \in Nat /\ t[k] = Digit(d, k) + 10 * t[k + 1]
  <2>1. Worth(d)[l] = 0
    BY <1>1, WorthAt
  <2>2. \A k \in Nat : Worth(d)[k] \in Nat /\ Worth(d)[k] = Digit(d, k) + 10 * Worth(d)[k + 1]
    BY <1>1, WorthAt
  <2> QED
    BY <2>1, <2>2
<1>3. n = t[0] /\ n \in Nat
  BY <1>2
<1> HIDE DEF t, n
<1>4. \A i \in 1 .. l : d[l + 1 - i] \in 0 .. 9 /\ d[l + 1 - i] = Digit(d, l - i)
  <2> TAKE i \in 1 .. l
  <2> DEFINE k == l - i
  <2>1. k \in Nat /\ k < l /\ k + 1 = l + 1 - i
    BY <1>1
  <2> HIDE DEF k
  <2>2. Digit(d, k) \in Digits /\ Digit(d, k) = d[k + 1]
    BY <1>1, <2>1, DigitIs
  <2> QED
    BY <2>1, <2>2 DEF Digits, k
<1> HIDE DEF l
<1>5. s \in Seq(0 .. 9) /\ Len(s) = l /\ \A i \in 1 .. l : s[i] = d[l + 1 - i]
  <2> DEFINE D == 0 .. 9
  <2>1. \A i \in 1 .. l : d[l + 1 - i] \in D
    BY <1>4
  <2> HIDE DEF D
  <2>2. s \in Seq(D) /\ Len(s) = l
    BY <1>1, <2>1
  <2> QED
    BY <2>2 DEF D
<1>6. \A k \in 0 .. l : h[k] = t[l - k] /\ h[k] \in Nat
  <2> TAKE k \in 0 .. l
  <2>1. l - k \in Nat
    BY <1>1
  <2> QED
    BY <1>2, <2>1
<1> HIDE DEF s, h
<1>7. SumsUp(h, s, base)
  <2>1. h[0] = 0
    <3>1. 0 \in 0 .. l /\ l - 0 = l
      BY <1>1
    <3> QED
      BY <1>2, <1>6, <3>1
  <2>2. ASSUME NEW k \in 1 .. l PROVE h[k] = h[k - 1] * 10 + s[k]
    <3> DEFINE j == l - k
    <3>1. k \in 0 .. l /\ k - 1 \in 0 .. l /\ j \in Nat /\ j + 1 = l - (k - 1) /\ j = l - k
      BY <1>1
    <3> HIDE DEF j
    <3>2. h[k] = t[j] /\ h[k - 1] = t[j + 1] /\ h[k - 1] \in Nat
      BY <1>6, <3>1
    <3>3. t[j] = Digit(d, j) + 10 * t[j + 1]
      BY <1>2, <3>1
    <3>4. s[k] = Digit(d, j) /\ s[k] \in 0 .. 9
      BY <1>4, <1>5, <3>1
    <3> DEFINE x == t[j]  y == t[j + 1]  c == s[k]
    <3>5. x = c + 10 * y /\ y \in Nat /\ c \in Nat /\ h[k] = x /\ h[k - 1] = y
      BY <3>2, <3>3, <3>4
    <3> HIDE DEF x, y
    <3> QED
      BY <3>5
  <2> QED
    BY <1>5, <1>6, <2>1, <2>2 DEF SumsUp
<1>8. h[l] = n
  <2>1. l \in 0 .. l /\ l - l = 0
    BY <1>1
  <2> QED
    BY <1>3, <1>6, <2>1
<1>9. /\ \A k \in 1 .. l : (n \div Power(10, l - k)) % 10 = s[k]
      /\ n < Power(10, l)
  <2>1. base \in Nat /\ base >= 2 /\ s \in Seq(0 .. base - 1)
    BY <1>5
  <2> HIDE DEF base
  <2>2. /\ \A k \in 1 .. Len(s) : (h[Len(s)] \div Power(base, Len(s) - k)) % base = s[k]
        /\ h[Len(s)] < Power(base, Len(s))
    BY <1>7, <2>1, ElementsBack
  <2>3. /\ \A k \in 1 .. l : (n \div Power(base, l - k)) % base = s[k]
        /\ n < Power(base, l)
    BY <1>5, <1>8, <2>2
  <2> QED
    BY <2>3 DEF base
<1>10. ASSUME l # 1 PROVE n >= Power(10, l - 1)
  <2> DEFINE p == Power(10, l - 1)
  <2>1. l - 1 \in Nat /\ 1 \in 1 .. l /\ l + 1 - 1 = l
    BY <1>1
  <2>2. p \in Nat \ {0}
    <3> DEFINE q == l - 1  ten == 10
    <3>1. q \in Nat /\ ten \in Nat \ {0}
      BY <2>1
    <3> HIDE DEF q, ten
    <3>2. Power(ten, q) \in Nat \ {0}
      BY <3>1, PowerIs
    <3> QED
      BY <3>2 DEF q, ten
  <2>3. (n \div p) % 10 = s[1]
    BY <1>9, <2>1
  <2>4. s[1] > 0
    BY <1>1, <1>4, <1>5, <1>10, <2>1
  <2> HIDE DEF p
  <2>5. n >= p
    <3> SUFFICES ASSUME n < p PROVE FALSE
      BY <1>3, <2>2
    <3>1. n \div p = 0
      BY <1>3, <2>2
    <3>2. (n \div p) % 10 = 0
      BY <3>1
    <3> QED
      BY <2>3, <2>4, <3>2
  <2> QED
    BY <2>5 DEF p
<1>11. IsLong(n, l)
  BY <1>9, <1>10 DEF IsLong
<1>12. \A k \in 1 .. l : (n \div Power(10, l - k)) % 10 = d[l + 1 - k]
  BY <1>5, <1>9
<1>13. Spells(d, n)
  BY <1>1, <1>3, <1>11, <1>12 DEF Spells, l
<1> QED
  BY <1>13 DEF n

\* A number has one length.
LEMMA OneLength ==
  ASSUME NEW n \in Nat, NEW k \in Nat \ {0}, NEW l \in Nat \ {0}, IsLong(n, k), IsLong(n, l)
  PROVE  k >= l
<1> SUFFICES ASSUME k < l PROVE FALSE
  OBVIOUS
<1> DEFINE j == l - 1
<1>1. j \in Nat /\ k <= j /\ l # 1
  OBVIOUS
<1>2. n < Power(10, k) /\ n >= Power(10, j)
  BY <1>1 DEF IsLong
<1> HIDE DEF j
<1>3. Power(10, k) <= Power(10, j)
  BY <1>1, PowersGrow
<1>4. Power(10, k) \in Nat /\ Power(10, j) \in Nat
  <2> DEFINE ten == 10
  <2>1. ten \in Nat \ {0}
    OBVIOUS
  <2> HIDE DEF ten
  <2>2. Power(ten, k) \in Nat /\ Power(ten, j) \in Nat
    BY <1>1, <2>1, PowerIs
  <2> QED
    BY <2>2 DEF ten
<1> QED
  BY <1>2, <1>3, <1>4

\* "%I" writes the number, with as many digits as it has.
LEMMA FormatKeeps ==
  ASSUME NEW b, Sound(b), b.len > 0
  PROVE  Format("I", b) = InDecimal(NumberOf(Content(b), b.width), 3 * b.len)
<1> DEFINE n == NumberOf(Content(b), b.width)
           m == b.len
           most == 3 * m
<1>1. PICK d : WritesNumber(d, b)
  BY FormatRuns
<1>2. NoZeros(d) /\ Worth(d)[0] = n /\ FormatInteger(b) = [i \in 1 .. Len(d) |-> d[Len(d) + 1 - i]]
  BY <1>1 DEF WritesNumber
<1> DEFINE l == Len(d)
<1>3. /\ l \in Nat /\ l > 0 /\ n \in Nat /\ IsLong(n, l)
      /\ \A i \in 1 .. l : (n \div Power(10, l - i)) % 10 = d[l + 1 - i]
  BY <1>2, DigitsSpell DEF Spells
<1>4. m \in Nat /\ m > 0 /\ most \in Nat
  BY SoundContent
<1>5. n < Power(10, most)
  <2> DEFINE base == 2 ^ b.width  s == Content(b)
  <2>1. base \in {2, 16, 256} /\ s \in Seq(0 .. base - 1) /\ s \in Seq(Nat) /\ Len(s) = m /\ b.width \in Widths
    BY SoundContent, Bases DEF Holds
  <2>2. PICK sum : n = sum[Len(s)] /\ SumsUp(sum, s, base)
    BY <2>1, NumberRuns
  <2> HIDE DEF base, s, n, m, most
  <2>3. base \in Nat /\ base >= 2
    BY <2>1
  <2>4. sum[Len(s)] < Power(base, Len(s))
    BY <2>1, <2>2, <2>3, ElementsBack
  <2>5. n < Power(base, m)
    BY <2>1, <2>2, <2>4
  <2>6. Power(base, m) <= Power(10, 3 * m)
    BY <1>4, <2>1, PowersBelow
  <2>7. Power(base, m) \in Nat
    <3>1. base \in Nat \ {0}
      BY <2>3
    <3> QED
      BY <1>4, <3>1, PowerIs
  <2> DEFINE ten == 10  j == 3 * m
  <2>8. ten \in Nat \ {0} /\ j \in Nat
    BY <1>4
  <2> HIDE DEF ten, j
  <2>9. Power(ten, j) \in Nat
    BY <2>8, PowerIs
  <2>10. Power(10, 3 * m) \in Nat
    BY <2>9 DEF ten, j
  <2> QED
    BY <1>3, <2>5, <2>6, <2>7, <2>10 DEF most
<1> HIDE DEF n, m, most, l
<1>6. l \in 1 .. most
  <2> SUFFICES ASSUME l > most PROVE FALSE
    BY <1>3, <1>4
  <2> DEFINE j == l - 1
  <2>1. j \in Nat /\ most <= j /\ l # 1
    BY <1>3, <1>4 DEF most
  <2>2. n >= Power(10, j)
    BY <1>3, <2>1 DEF IsLong
  <2> HIDE DEF j
  <2>3. Power(10, most) <= Power(10, j)
    BY <1>4, <2>1, PowersGrow
  <2> DEFINE ten == 10
  <2>4. ten \in Nat \ {0}
    OBVIOUS
  <2> HIDE DEF ten
  <2>5. Power(ten, most) \in Nat /\ Power(ten, j) \in Nat
    BY <1>4, <2>1, <2>4, PowerIs
  <2>6. Power(10, most) \in Nat /\ Power(10, j) \in Nat
    BY <2>5 DEF ten
  <2> QED
    BY <1>3, <1>5, <2>2, <2>3, <2>6
<1> DEFINE length == CHOOSE k \in 1 .. most : IsLong(n, k)
<1>7. length = l
  <2>1. length \in 1 .. most /\ IsLong(n, length)
    BY <1>3, <1>6
  <2> HIDE DEF length
  <2>2. length \in Nat \ {0} /\ l \in Nat \ {0}
    BY <1>3, <1>4, <2>1
  <2>3. length >= l /\ l >= length
    BY <1>3, <2>1, <2>2, OneLength
  <2> QED
    BY <2>2, <2>3
<1>8. InDecimal(n, most) = [i \in 1 .. length |-> (n \div Power(10, length - i)) % 10]
  BY Zenon DEF InDecimal, IsLong
<1> HIDE DEF length
<1>9. InDecimal(n, most) = [i \in 1 .. l |-> d[l + 1 - i]]
  <2>1. [i \in 1 .. l |-> (n \div Power(10, l - i)) % 10] = [i \in 1 .. l |-> d[l + 1 - i]]
    BY <1>3
  <2> QED
    BY <1>7, <1>8, <2>1
<1>10. Format("I", b) = FormatInteger(b)
  BY DEF Format
<1> QED
  BY <1>2, <1>9, <1>10 DEF n, m, most, l

\* Conversions to a width that the bits of a string can be divided in,
\* bytes.tonumber() up to 53 bits and "%I" keep the number of a string of any
\* length: nothing is lost between the elements, and no carry between the
\* decimal digits.
THEOREM NumbersOfAnySize == Spec => [](\A v \in Holders : KeepsNumber(held[v]))
<1>1. ASSUME NEW b, Sound(b) PROVE KeepsNumber(b)
  <2>1. \A w \in Widths :
          (b.len * b.width) % w = 0 => Content(Convert(b, w)) = Converted(Content(b), b.width, w)
    BY <1>1, ConvertKeeps
  <2>2. ToNumber(b) = NumberOf(Content(b), b.width)
    BY <1>1, ToNumberKeeps
  <2>3. b.len > 0 => Format("I", b) = InDecimal(NumberOf(Content(b), b.width), 3 * b.len)
    BY <1>1, FormatKeeps
  <2> QED
    BY <2>1, <2>2, <2>3, Zenon DEF KeepsNumber
<1>2. BytesTypeOK => \A v \in Holders : KeepsNumber(held[v])
  BY <1>1, KeptSound
<1> QED
  BY <1>2, BytesTyped, PTL

\* So they do for the strings short enough for TLC to count with.
THEOREM NumbersKept == Spec => []NumbersAreKept
<1>1. (\A v \in Holders : KeepsNumber(held[v])) => NumbersAreKept
  BY DEF NumbersAreKept
<1> QED
  BY <1>1, NumbersOfAnySize, PTL

===============================================================================

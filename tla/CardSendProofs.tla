---------------------------- MODULE CardSendProofs ----------------------------
(***************************************************************************)
(* What is proved of card.send(), for all commands, responses and numbers  *)
(* of interruptions: it handles byte strings only, it never hands a status *)
(* to the script that asks for another command, and what it returns is a   *)
(* beginning of the card's response, all of it when it says so.            *)
(***************************************************************************)
EXTENDS CardSend, SequenceTheorems, TLAPS

-------------------------------------------------------------------------------
(***************************************************************************)
(* The commands: the parser and the correction of iso7816.c and lua_card.c *)
(* against the reference, for commands of every length.                    *)
(***************************************************************************)
\* A command that the parser accepts has a header, and an extended one at least
\* seven bytes: what luax_card_send() relies on when it shortens and overwrites.
LEMMA AcceptedLength ==
  ASSUME NEW apdu \in Seq(Byte), Class(apdu) # "ERROR"
  PROVE  Class(apdu) \in Classes /\ Len(apdu) >= 4 /\ (HasLongLe(apdu) => Len(apdu) >= 7)
<1>1. Len(apdu) \in Nat
  OBVIOUS
<1>2. Len(apdu) >= 4
  BY <1>1 DEF Class
<1>3. HasLongLe(apdu) => Len(apdu) >= 7
  BY <1>1 DEF HasLongLe, Class, ShortClass, ExtendedClass
<1>4. Class(apdu) \in Classes
  BY DEF Class, ShortClass, ExtendedClass, Classes
<1> QED
  BY <1>2, <1>3, <1>4

\* The bytes of a command are numbers, and one of at most five bytes has no data.
LEMMA Bytes ==
  ASSUME NEW apdu \in Seq(Byte)
  PROVE  Len(apdu) \in Nat /\ \A i \in 1..Len(apdu) : apdu[i] \in Nat
<1>1. Len(apdu) \in Nat /\ \A i \in 1..Len(apdu) : apdu[i] \in Byte
  OBVIOUS
<1>2. \A b \in Byte : b \in Nat
  BY DEF Byte
<1> QED
  BY <1>1, <1>2

LEMMA LongerThanHeader ==
  ASSUME NEW apdu \in Seq(Byte), Class(apdu) \in Classes \ {"1"}
  PROVE  /\ Len(apdu) >= 5 /\ apdu[5] \in Nat
         /\ Class(apdu) # "2S" => Len(apdu) > 5
<1>1. PICK n \in Nat : n = Len(apdu)
  OBVIOUS
<1>2. n < 4 => Class(apdu) = "ERROR"
  BY <1>1 DEF Class
<1>3. n = 4 => Class(apdu) = "1"
  BY <1>1 DEF Class
<1>4. n = 5 => Class(apdu) = "2S"
  BY <1>1 DEF Class
<1>5. Class(apdu) # "ERROR" /\ Class(apdu) # "1"
  BY DEF Classes
<1>6. n >= 5 /\ (Class(apdu) # "2S" => n > 5)
  BY <1>2, <1>3, <1>4, <1>5
<1>7. apdu[5] \in Nat
  BY <1>1, <1>6, Bytes
<1> QED
  BY <1>1, <1>6, <1>7

\* The corrected command is a byte string again.
LEMMA CorrectedType ==
  ASSUME NEW apdu \in Seq(Byte), Class(apdu) # "ERROR", NEW sw2 \in Byte
  PROVE  /\ Corrected(apdu, sw2) \in Seq(Byte)
         /\ Len(Corrected(apdu, sw2)) = Len(Shortened(apdu))
         /\ Shortened(apdu) \in Seq(Byte) /\ Len(Shortened(apdu)) >= 4
         /\ Len(Shortened(apdu)) = IF HasLongLe(apdu) THEN Len(apdu) - 2 ELSE Len(apdu)
         /\ \A i \in 1..Len(Shortened(apdu)) :
              Corrected(apdu, sw2)[i] = IF i = Len(Shortened(apdu)) THEN sw2 ELSE apdu[i]
<1>1. Len(apdu) \in Nat /\ Len(apdu) >= 4 /\ (HasLongLe(apdu) => Len(apdu) >= 7)
  BY AcceptedLength
<1>2. /\ Shortened(apdu) \in Seq(Byte)
      /\ Len(Shortened(apdu)) = IF HasLongLe(apdu) THEN Len(apdu) - 2 ELSE Len(apdu)
      /\ \A i \in 1..Len(Shortened(apdu)) : Shortened(apdu)[i] = apdu[i]
  <2>1. CASE HasLongLe(apdu)
    BY <1>1, <2>1, SubSeqProperties DEF Shortened
  <2>2. CASE ~HasLongLe(apdu)
    BY <1>1, <2>2 DEF Shortened
  <2> QED
    BY <2>1, <2>2
<1>3. Len(Shortened(apdu)) \in Nat /\ Len(Shortened(apdu)) >= 4
  BY <1>1, <1>2
<1> DEFINE s == Shortened(apdu)
<1>4. /\ [s EXCEPT ![Len(s)] = sw2] \in Seq(Byte)
      /\ Len([s EXCEPT ![Len(s)] = sw2]) = Len(s)
      /\ \A i \in 1..Len(s) : [s EXCEPT ![Len(s)] = sw2][i] = IF i = Len(s) THEN sw2 ELSE s[i]
  BY <1>2, <1>3, ExceptSeq
<1> QED
  BY <1>2, <1>3, <1>4 DEF Corrected
-------------------------------------------------------------------------------
\* Two sequences that agree on an interval have the same slice there.
LEMMA SameSlice ==
  ASSUME NEW s \in Seq(Byte), NEW t \in Seq(Byte), NEW m \in Nat \ {0}, NEW n \in Nat,
         n <= Len(s), n <= Len(t), \A i \in m..n : s[i] = t[i]
  PROVE  SubSeq(s, m, n) = SubSeq(t, m, n)
<1>1. m \in Int /\ n \in Int /\ Len(s) \in Nat /\ Len(t) \in Nat
  OBVIOUS
<1>2. \A i \in m..n : s[i] \in Byte /\ t[i] \in Byte
  BY <1>1, ElementOfSeq
<1>3. /\ SubSeq(s, m, n) \in Seq(Byte) /\ SubSeq(t, m, n) \in Seq(Byte)
      /\ Len(SubSeq(s, m, n)) = IF m <= n THEN n - m + 1 ELSE 0
      /\ Len(SubSeq(t, m, n)) = IF m <= n THEN n - m + 1 ELSE 0
      /\ \A i \in 1..n - m + 1 : SubSeq(s, m, n)[i] = s[m + i - 1]
      /\ \A i \in 1..n - m + 1 : SubSeq(t, m, n)[i] = t[m + i - 1]
  BY <1>1, <1>2, SubSeqProperties
<1>4. \A i \in 1..Len(SubSeq(s, m, n)) : SubSeq(s, m, n)[i] = SubSeq(t, m, n)[i]
  <2>1. SUFFICES ASSUME NEW i \in 1..n - m + 1, m <= n
                 PROVE  SubSeq(s, m, n)[i] = SubSeq(t, m, n)[i]
    BY <1>1, <1>3
  <2>2. m + i - 1 \in m..n
    BY <1>1
  <2> QED
    BY <1>3, <2>2
<1> HIDE DEF Byte
<1> QED
  BY <1>3, <1>4, SeqEqual

(***************************************************************************)
(* After 6Cxx, a short command with an expected length, or an extended one *)
(* without data, is issued again with the same header and data and with    *)
(* the length that the card gave.                                          *)
(***************************************************************************)
THEOREM CorrectionSetsLe ==
  ASSUME NEW apdu \in Seq(Byte), Class(apdu) \in {"2S", "4S", "2E"}, NEW sw2 \in Byte
  PROVE  /\ Class(Corrected(apdu, sw2)) = IF Class(apdu) = "4S" THEN "4S" ELSE "2S"
         /\ SubSeq(Corrected(apdu, sw2), 1, 4) = SubSeq(apdu, 1, 4)
         /\ DataOf(Corrected(apdu, sw2)) = DataOf(apdu)
         /\ Le(Corrected(apdu, sw2)) = sw2
<1> DEFINE again == Corrected(apdu, sw2)
<1>1. /\ again \in Seq(Byte)
      /\ Len(again) = IF Class(apdu) = "2E" THEN Len(apdu) - 2 ELSE Len(apdu)
      /\ \A i \in 1..Len(again) : again[i] = IF i = Len(again) THEN sw2 ELSE apdu[i]
  BY CorrectedType DEF HasLongLe
<1>2. Len(apdu) \in Nat /\ Len(apdu) >= 5 /\ apdu[5] \in Nat
  BY Bytes, LongerThanHeader DEF Classes
<1> HIDE DEF again
<1>3. CASE Class(apdu) \in {"2S", "2E"}
  <2>1. Len(again) = 5
    BY <1>1, <1>2, <1>3 DEF Class, ShortClass, ExtendedClass
  <2>2. again[5] = sw2 /\ \A i \in 1..4 : again[i] = apdu[i]
    <3>1. \A i \in 1..5 : again[i] = IF i = 5 THEN sw2 ELSE apdu[i]
      BY <1>1, <2>1
    <3> QED
      BY <3>1
  <2>3. Class(again) = "2S"
    BY <2>1, <2>2 DEF Class
  <2>a. Le(again) = sw2
    BY <2>1, <2>2, <2>3 DEF Le, WithLe, Extended
  <2>4. SubSeq(again, 1, 4) = SubSeq(apdu, 1, 4)
    BY <1>1, <1>2, <2>1, <2>2, SameSlice
  <2>5. Lc(again) = 0 /\ Lc(apdu) = 0
    BY <1>3, <2>3 DEF Lc, WithData
  <2>6. DataOf(again) = <<>> /\ DataOf(apdu) = <<>>
    BY <2>5, SubSeqEmpty DEF DataOf
  <2> QED
    BY <1>3, <2>3, <2>a, <2>4, <2>6 DEF again
<1>4. CASE Class(apdu) = "4S"
  <2>1. Len(apdu) = apdu[5] + 6 /\ apdu[5] > 0 /\ apdu[5] \in Nat
    BY <1>2, <1>4 DEF Class, ShortClass, ExtendedClass
  <2>2. Len(again) = Len(apdu) /\ again[5] = apdu[5] /\ again[Len(again)] = sw2
    BY <1>1, <1>2, <1>4, <2>1
  <2>3. Class(again) = "4S"
    BY <2>1, <2>2 DEF Class, ShortClass
  <2>4. Le(again) = sw2 /\ Lc(again) = apdu[5] /\ Lc(apdu) = apdu[5]
    BY <1>4, <2>2, <2>3 DEF Le, Lc, WithLe, WithData, Extended
  <2>5. \A i \in 1..Len(apdu) - 1 : again[i] = apdu[i]
    BY <1>1, <1>2, <2>2
  <2>6. SubSeq(again, 1, 4) = SubSeq(apdu, 1, 4)
    BY <1>1, <1>2, <2>1, <2>2, <2>5, SameSlice
  <2>7. SubSeq(again, 6, 5 + apdu[5]) = SubSeq(apdu, 6, 5 + apdu[5])
    BY <1>1, <1>2, <2>1, <2>2, <2>5, SameSlice
  <2>8. DataOf(again) = DataOf(apdu)
    <3>1. Class(again) \notin Extended /\ Class(apdu) \notin Extended
      BY <1>4, <2>3 DEF Extended
    <3>2. 6 = 5 + 1
      OBVIOUS
    <3> QED
      BY <2>4, <2>7, <3>1, <3>2 DEF DataOf
  <2> QED
    BY <1>4, <2>3, <2>4, <2>6, <2>8 DEF again
<1> QED
  BY <1>3, <1>4

(***************************************************************************)
(* An extended command with data is not issued again: what the correction  *)
(* makes of it is no command, and card.send() returns CARDPEEK_ERROR_SW    *)
(* without an exchange.                                                    *)
(***************************************************************************)
THEOREM CorrectionBreaksExtended ==
  ASSUME NEW apdu \in Seq(Byte), Class(apdu) = "4E", NEW sw2 \in Byte
  PROVE  Class(Corrected(apdu, sw2)) = "ERROR"
<1> DEFINE again == Corrected(apdu, sw2)
<1>1. /\ Len(again) = Len(apdu) - 2
      /\ \A i \in 1..Len(again) : again[i] = IF i = Len(again) THEN sw2 ELSE apdu[i]
  BY CorrectedType DEF HasLongLe
<1>2. /\ Len(apdu) \in Nat /\ Len(apdu) >= 7
      /\ \A i \in 1..Len(apdu) : apdu[i] \in Nat
  BY Bytes, AcceptedLength DEF HasLongLe
<1>a. apdu[5] \in Nat /\ ExtendedLc(apdu) \in Nat
  BY <1>2 DEF ExtendedLc
<1>3. Len(apdu) = ExtendedLc(apdu) + 10 /\ Len(apdu) > 7 /\ ~(apdu[5] > 0)
  BY <1>2, <1>a DEF Class, ShortClass, ExtendedClass
<1> HIDE DEF again
<1>5. Len(again) = ExtendedLc(apdu) + 8
  BY <1>1, <1>3, <1>a
<1>6. again[5] = apdu[5] /\ again[6] = apdu[6] /\ again[7] = apdu[7]
  BY <1>1, <1>a, <1>5
<1>7. ExtendedLc(again) = ExtendedLc(apdu)
  BY <1>6 DEF ExtendedLc
<1> QED
  <2>1. ExtendedClass(again) = "ERROR"
    BY <1>a, <1>5, <1>7 DEF ExtendedClass
  <2>2. Class(again) = "ERROR"
    BY <1>3, <1>a, <1>5, <1>6, <2>1 DEF Class
  <2> QED
    BY <2>2 DEF again
-------------------------------------------------------------------------------
\* A concatenation, its second part addressed from its own start.
LEMMA TwoParts ==
  ASSUME NEW a \in Seq(Byte), NEW b \in Seq(Byte)
  PROVE  /\ a \o b \in Seq(Byte)
         /\ Len(a \o b) = Len(a) + Len(b)
         /\ \A i \in 1..Len(a) : (a \o b)[i] = a[i]
         /\ \A i \in 1..Len(b) : (a \o b)[Len(a) + i] = b[i]
<1>1. PICK m \in Nat, n \in Nat : m = Len(a) /\ n = Len(b)
  OBVIOUS
<1>2. /\ a \o b \in Seq(Byte) /\ Len(a \o b) = m + n
      /\ \A i \in 1..m + n : (a \o b)[i] = IF i <= m THEN a[i] ELSE b[i - m]
  BY <1>1, ConcatProperties
<1>3. ASSUME NEW i \in 1..m PROVE (a \o b)[i] = a[i]
  <2>1. i \in 1..m + n /\ i <= m
    OBVIOUS
  <2> QED
    BY <1>2, <2>1
<1>4. ASSUME NEW i \in 1..n PROVE (a \o b)[m + i] = b[i]
  <2>1. m + i \in 1..m + n /\ ~(m + i <= m) /\ m + i - m = i
    OBVIOUS
  <2> QED
    BY <1>2, <2>1
<1> QED
  BY <1>1, <1>2, <1>3, <1>4

LEMMA LongLengthBytes ==
  ASSUME NEW n \in Nat, n <= 65535
  PROVE  /\ LongLength(n) \in Seq(Byte) /\ Len(LongLength(n)) = 3
         /\ LongLength(n)[1] = 0
         /\ 256 * LongLength(n)[2] + LongLength(n)[3] = n
<1>1. n \div 256 \in Byte /\ (n % 256) \in Byte /\ 256 * (n \div 256) + (n % 256) = n
  BY DEF Byte
<1>2. 0 \in Byte
  BY DEF Byte
<1> QED
  BY <1>1, <1>2 DEF LongLength

LEMMA ShortLengthBytes ==
  ASSUME NEW n \in 0..255
  PROVE  ShortLength(n) \in Seq(Byte) /\ Len(ShortLength(n)) = 1 /\ ShortLength(n)[1] = n
  BY DEF ShortLength, Byte
\* Where the fields of a command that was put together end up: b, of n bytes,
\* has after its header nx bytes x, nd bytes of data and ny bytes y.
Placed(b, n, x, nx, nd, y, ny) ==
  /\ n = 4 + nx + nd + ny
  /\ \A i \in 1..nx : b[4 + i] = x[i]
  /\ \A i \in 1..ny : b[4 + nx + nd + i] = y[i]

\* Where the parts of a command that was put together end up.
LEMMA BuiltParts ==
  ASSUME NEW h \in Seq(Byte), NEW lcf \in Seq(Byte), NEW d \in Seq(Byte), NEW lef \in Seq(Byte),
         Len(h) = 4
  PROVE  \E b \in Seq(Byte) :
           /\ b = h \o lcf \o d \o lef
           /\ Placed(b, Len(b), lcf, Len(lcf), Len(d), lef, Len(lef))
<1> DEFINE p == h \o lcf
           q == p \o d
           b == q \o lef
<1>0. PICK nc \in Nat, nd \in Nat, ne \in Nat :
        nc = Len(lcf) /\ nd = Len(d) /\ ne = Len(lef)
  OBVIOUS
<1>1. /\ p \in Seq(Byte) /\ Len(p) = 4 + nc
      /\ \A i \in 1..4 : p[i] = h[i]
      /\ \A i \in 1..nc : p[4 + i] = lcf[i]
  <2>1. /\ p \in Seq(Byte) /\ Len(p) = Len(h) + Len(lcf)
        /\ \A i \in 1..Len(h) : p[i] = h[i]
        /\ \A i \in 1..Len(lcf) : p[Len(h) + i] = lcf[i]
    BY TwoParts
  <2> HIDE DEF p
  <2> QED
    BY <1>0, <2>1
<1> HIDE DEF p
<1>2. /\ q \in Seq(Byte) /\ Len(q) = 4 + nc + nd
      /\ \A i \in 1..4 + nc : q[i] = p[i]
      /\ \A i \in 1..nd : q[4 + nc + i] = d[i]
  <2>1. /\ q \in Seq(Byte) /\ Len(q) = Len(p) + Len(d)
        /\ \A i \in 1..Len(p) : q[i] = p[i]
        /\ \A i \in 1..Len(d) : q[Len(p) + i] = d[i]
    BY <1>1, TwoParts
  <2> HIDE DEF q
  <2> QED
    BY <1>0, <1>1, <2>1
<1> HIDE DEF q
<1>3. /\ b \in Seq(Byte) /\ Len(b) = 4 + nc + nd + ne
      /\ \A i \in 1..4 + nc + nd : b[i] = q[i]
      /\ \A i \in 1..ne : b[4 + nc + nd + i] = lef[i]
  <2>1. /\ b \in Seq(Byte) /\ Len(b) = Len(q) + Len(lef)
        /\ \A i \in 1..Len(q) : b[i] = q[i]
        /\ \A i \in 1..Len(lef) : b[Len(q) + i] = lef[i]
    BY <1>2, TwoParts
  <2> HIDE DEF b
  <2> QED
    BY <1>0, <1>2, <2>1
<1> HIDE DEF b
<1>5. \A i \in 1..nc : b[4 + i] = lcf[i]
  <2>1. \A i \in 1..nc : 4 + i \in 1..4 + nc /\ 4 + i \in 1..4 + nc + nd
    OBVIOUS
  <2> QED
    BY <1>1, <1>2, <1>3, <2>1
<1>6. \A i \in 1..nd : b[4 + nc + i] = d[i]
  <2>1. \A i \in 1..nd : 4 + nc + i \in 1..4 + nc + nd
    OBVIOUS
  <2> QED
    BY <1>2, <1>3, <2>1
<1>7. b = h \o lcf \o d \o lef
  BY DEF b, q, p
<1>8. PICK n \in Nat : n = Len(b)
  BY <1>3
<1>9. n = 4 + nc + nd + ne
  BY <1>3, <1>8
<1>10. Placed(b, n, lcf, nc, nd, lef, ne)
  BY <1>5, <1>3, <1>9 DEF Placed
<1>11. Placed(b, Len(b), lcf, Len(lcf), Len(d), lef, Len(lef))
  BY <1>0, <1>8, <1>10, Zenon
<1> QED
  BY <1>3, <1>7, <1>11

LEMMA LengthFieldBytes ==
  ASSUME NEW class, NEW n \in Nat, n \in 0..MaxLength(class)
  PROVE  /\ LengthField(class, n) \in Seq(Byte)
         /\ class \notin Extended =>
              Len(LengthField(class, n)) = 1 /\ LengthField(class, n)[1] = n
         /\ class \in Extended =>
              /\ Len(LengthField(class, n)) = 3
              /\ LengthField(class, n)[1] = 0
              /\ 256 * LengthField(class, n)[2] + LengthField(class, n)[3] = n
<1>1. CASE class \in Extended
  <2>1. LengthField(class, n) = LongLength(n)
    BY <1>1 DEF LengthField
  <2>2. MaxLength(class) = 65535
    BY <1>1 DEF MaxLength
  <2>3. /\ LongLength(n) \in Seq(Byte) /\ Len(LongLength(n)) = 3
        /\ LongLength(n)[1] = 0
        /\ 256 * LongLength(n)[2] + LongLength(n)[3] = n
    <3>1. MaxLength(class) \in Nat
      BY <2>2
    <3>2. n <= 65535
      <4>1. ASSUME NEW m \in Nat, n \in 0..m PROVE n <= m
        BY <4>1
      <4> QED
        BY <2>2, <3>1, <4>1
    <3> QED
      BY <3>2, LongLengthBytes
  <2> QED
    BY <1>1, <2>1, <2>3
<1>2. CASE class \notin Extended
  <2>1. LengthField(class, n) = ShortLength(n)
    BY <1>2 DEF LengthField
  <2>2. n \in 0..255
    BY <1>2 DEF MaxLength
  <2>3. /\ ShortLength(n) \in Seq(Byte) /\ Len(ShortLength(n)) = 1
        /\ ShortLength(n)[1] = n
    BY <2>2, ShortLengthBytes
  <2> QED
    BY <1>2, <2>1, <2>3
<1> QED
  BY <1>1, <1>2

\* The length fields of a command that fits its class: nx bytes x before its
\* data, nd bytes of data, ny bytes y after them.
Fields(class, x, nx, nd, y, ny, le) ==
  /\ class \notin WithData => nx = 0 /\ nd = 0
  /\ class \in WithData => nd >= 1
  /\ class \in WithData /\ class \notin Extended => nx = 1 /\ x[1] = nd
  /\ class \in WithData /\ class \in Extended =>
       nx = 3 /\ x[1] = 0 /\ 256 * x[2] + x[3] = nd
  /\ class \notin WithLe => ny = 0 /\ le = 0
  /\ class \in WithLe /\ class \notin Extended => ny = 1 /\ y[1] = le
  /\ class \in WithLe /\ class \in Extended =>
       ny = 3 /\ y[1] = 0 /\ 256 * y[2] + y[3] = le

LEMMA FieldBytes ==
  ASSUME NEW class, NEW d \in Seq(Byte), NEW le \in Nat, Fits(class, d, le)
  PROVE  \E x \in Seq(Byte), y \in Seq(Byte) :
           /\ x = LcField(class, Len(d)) /\ y = LeField(class, le)
           /\ Fields(class, x, Len(x), Len(d), y, Len(y), le)
<1>0. <<>> \in Seq(Byte) /\ Len(<<>>) = 0
  OBVIOUS
<1>1. PICK nd \in Nat : nd = Len(d)
  OBVIOUS
<1>2. MaxLength(class) \in Nat
  BY DEF MaxLength
<1>3. PICK x \in Seq(Byte) :
        /\ x = LcField(class, nd)
        /\ class \notin WithData => Len(x) = 0 /\ nd = 0
        /\ class \in WithData => nd >= 1
        /\ class \in WithData /\ class \notin Extended => Len(x) = 1 /\ x[1] = nd
        /\ class \in WithData /\ class \in Extended =>
             Len(x) = 3 /\ x[1] = 0 /\ 256 * x[2] + x[3] = nd
  <2>1. CASE class \in WithData
    <3>1. nd \in 1..MaxLength(class)
      BY <1>1, <2>1 DEF Fits
    <3>2. nd >= 1 /\ nd \in 0..MaxLength(class)
      BY <1>2, <3>1
    <3>3. LcField(class, nd) = LengthField(class, nd)
      BY <2>1 DEF LcField
    <3> QED
      BY <2>1, <3>2, <3>3, LengthFieldBytes
  <2>2. CASE class \notin WithData
    <3>1. d = <<>>
      BY <2>2 DEF Fits
    <3>2. LcField(class, nd) = <<>> /\ nd = 0
      BY <1>0, <1>1, <2>2, <3>1 DEF LcField
    <3> QED
      BY <1>0, <2>2, <3>2
  <2> QED
    BY <2>1, <2>2
<1>4. PICK y \in Seq(Byte) :
        /\ y = LeField(class, le)
        /\ class \notin WithLe => Len(y) = 0 /\ le = 0
        /\ class \in WithLe /\ class \notin Extended => Len(y) = 1 /\ y[1] = le
        /\ class \in WithLe /\ class \in Extended =>
             Len(y) = 3 /\ y[1] = 0 /\ 256 * y[2] + y[3] = le
  <2>1. CASE class \in WithLe
    <3>1. le \in 0..MaxLength(class)
      BY <2>1 DEF Fits
    <3>2. LeField(class, le) = LengthField(class, le)
      BY <2>1 DEF LeField
    <3> QED
      BY <2>1, <3>1, <3>2, LengthFieldBytes
  <2>2. CASE class \notin WithLe
    <3>1. LeField(class, le) = <<>> /\ le = 0
      BY <2>2 DEF Fits, LeField
    <3> QED
      BY <1>0, <2>2, <3>1
  <2> QED
    BY <2>1, <2>2
<1>5. PICK nx \in Nat : nx = Len(x)
  BY <1>3
<1>6. PICK ny \in Nat : ny = Len(y)
  BY <1>4
<1>7. Fields(class, x, nx, nd, y, ny, le)
  BY <1>3, <1>4, <1>5, <1>6 DEF Fields
<1>8. Fields(class, x, Len(x), Len(d), y, Len(y), le)
  BY <1>1, <1>5, <1>6, <1>7, Zenon
<1> QED
  BY <1>1, <1>3, <1>4, <1>8

(***************************************************************************)
(* iso7816_describe_apdu() reads every command that ISO 7816-3 can put     *)
(* together, of any class and any length, as what it is.                   *)
(***************************************************************************)
THEOREM ParserReadsBuilt ==
  ASSUME NEW class \in Classes, NEW h \in Seq(Byte), Len(h) = 4, NEW d \in Seq(Byte),
         NEW le \in Nat, Fits(class, d, le)
  PROVE  /\ Built(class, h, d, le) \in Seq(Byte)
         /\ Class(Built(class, h, d, le)) = class
         /\ Lc(Built(class, h, d, le)) = Len(d)
         /\ Le(Built(class, h, d, le)) = le
<1>1. PICK x \in Seq(Byte), y \in Seq(Byte) :
        /\ x = LcField(class, Len(d)) /\ y = LeField(class, le)
        /\ Fields(class, x, Len(x), Len(d), y, Len(y), le)
  BY FieldBytes
<1>2. x \in Seq(Byte) /\ y \in Seq(Byte)
  BY <1>1
<1>3. PICK b \in Seq(Byte) :
        /\ b = h \o x \o d \o y
        /\ Placed(b, Len(b), x, Len(x), Len(d), y, Len(y))
  BY <1>2, BuiltParts
<1>4. b = Built(class, h, d, le)
  BY <1>1, <1>3 DEF Built
<1>5. PICK n \in Nat, nx \in Nat, nd \in Nat, ny \in Nat :
        n = Len(b) /\ nx = Len(x) /\ nd = Len(d) /\ ny = Len(y)
  BY <1>2, <1>3
<1>6. Fields(class, x, nx, nd, y, ny, le) /\ Placed(b, n, x, nx, nd, y, ny)
  BY <1>1, <1>3, <1>5, Zenon
<1>7. /\ n = 4 + nx + nd + ny
      /\ \A i \in 1..nx : b[4 + i] = x[i]
      /\ \A i \in 1..ny : b[4 + nx + nd + i] = y[i]
  BY <1>6 DEF Placed
<1>8. /\ class \notin WithData => nx = 0 /\ nd = 0
      /\ class \in WithData => nd >= 1
      /\ class \in WithData /\ class \notin Extended => nx = 1 /\ b[5] = nd
      /\ class \in WithData /\ class \in Extended =>
           nx = 3 /\ b[5] = 0 /\ 256 * b[6] + b[7] = nd
  <2>1. nx = 1 => b[5] = x[1]
    BY <1>7
  <2>2. nx = 3 => b[5] = x[1] /\ b[6] = x[2] /\ b[7] = x[3]
    BY <1>7
  <2> QED
    BY <1>6, <2>1, <2>2 DEF Fields
<1>9. /\ class \notin WithLe => ny = 0 /\ le = 0
      /\ class \in WithLe /\ class \notin Extended => ny = 1 /\ b[n] = le
      /\ class \in WithLe /\ class \in Extended =>
           ny = 3 /\ b[n - 2] = 0 /\ 256 * b[n - 1] + b[n] = le
  <2>1. ny = 1 => b[n] = y[1]
    BY <1>7
  <2>2. ny = 3 => b[n - 2] = y[1] /\ b[n - 1] = y[2] /\ b[n] = y[3]
    BY <1>7
  <2> QED
    BY <1>6, <2>1, <2>2 DEF Fields
<1>10. Class(b) = class
  <2>1. CASE class = "1"
    <3>1. n = 4
      BY <1>7, <1>8, <1>9, <2>1 DEF WithData, WithLe, Extended
    <3> QED
      BY <1>5, <2>1, <3>1 DEF Class
  <2>2. CASE class = "2S"
    <3>1. n = 5
      BY <1>7, <1>8, <1>9, <2>2 DEF WithData, WithLe, Extended
    <3> QED
      BY <1>5, <2>2, <3>1 DEF Class
  <2>3. CASE class = "3S"
    <3>1. n = 5 + nd /\ b[5] = nd /\ nd >= 1
      BY <1>7, <1>8, <1>9, <2>3 DEF WithData, WithLe, Extended
    <3> QED
      BY <1>5, <2>3, <3>1 DEF Class, ShortClass
  <2>4. CASE class = "4S"
    <3>1. n = 6 + nd /\ b[5] = nd /\ nd >= 1
      BY <1>7, <1>8, <1>9, <2>4 DEF WithData, WithLe, Extended
    <3> QED
      BY <1>5, <2>4, <3>1 DEF Class, ShortClass
  <2>5. CASE class = "2E"
    <3>1. n = 7 /\ b[5] = 0
      BY <1>7, <1>8, <1>9, <2>5 DEF WithData, WithLe, Extended
    <3> QED
      BY <1>5, <2>5, <3>1 DEF Class, ExtendedClass
  <2>6. CASE class = "3E"
    <3>1. n = 7 + nd /\ b[5] = 0 /\ nd >= 1 /\ 256 * b[6] + b[7] = nd
      BY <1>7, <1>8, <1>9, <2>6 DEF WithData, WithLe, Extended
    <3> QED
      BY <1>5, <2>6, <3>1 DEF Class, ExtendedClass, ExtendedLc
  <2>7. CASE class = "4E"
    <3>1. n = 10 + nd /\ b[5] = 0 /\ nd >= 1 /\ 256 * b[6] + b[7] = nd /\ b[n - 2] = 0
      BY <1>7, <1>8, <1>9, <2>7 DEF WithData, WithLe, Extended
    <3> QED
      BY <1>5, <2>7, <3>1 DEF Class, ExtendedClass, ExtendedLc
  <2> QED
    BY <2>1, <2>2, <2>3, <2>4, <2>5, <2>6, <2>7 DEF Classes
<1>11. Lc(b) = nd
  BY <1>8, <1>10 DEF Lc, ExtendedLc
<1>12. Le(b) = le
  BY <1>5, <1>9, <1>10 DEF Le
<1> QED
  BY <1>4, <1>5, <1>10, <1>11, <1>12

-------------------------------------------------------------------------------
(***************************************************************************)
(* The calls.                                                              *)
(***************************************************************************)

\* A command was parsed before anything was done with it, and a status that
\* came back from an inner call is final.
Sound(frame) ==
  /\ frame.pc # "start" => Class(frame.apdu) # "ERROR"
  /\ frame.pc \in {"loop", "done"} => Final(frame.status)

SoundFrames == {f \in Frames : Sound(f)}

\* The outer calls wait for an inner one.
OthersWait ==
  \A i \in 1..Len(stack) : i < Len(stack) => stack[i].pc \in {"reissued", "fetching"}

RestOK ==
  /\ script \in Commands \cup {NoCommand}
  /\ total \in Nat /\ given \in Nat /\ open \in BOOLEAN
  /\ open => given < total
  /\ sw \in Statuses
  /\ outcome \in [status : Statuses, result : Results]
  /\ overtaken \in BOOLEAN /\ interrupts \in 0..MaxInterrupts

SendInv == stack \in Seq(SoundFrames) /\ OthersWait /\ RestOK /\ StatusIsFinal

-------------------------------------------------------------------------------
LEMMA StatusesMade ==
  /\ Success \in Statuses /\ Final(Success)
  /\ Refused \in Statuses /\ Final(Refused)
  /\ Failed \in Statuses /\ Final(Failed)
  /\ \A n \in Nat : Status("61", n % 256) \in Statuses /\ Status("6C", n % 256) \in Statuses
<1>1. 0 \in Byte /\ \A n \in Nat : (n % 256) \in Byte
  BY DEF Byte
<1> QED
  BY <1>1 DEF Success, Refused, Failed, Status, Statuses, Final

LEMMA EmptyResult == <<>> \in Results
  BY DEF Results

\* The innermost call, and what becomes of the stack when it changes.
LEMMA TopOfStack ==
  ASSUME stack \in Seq(SoundFrames), Depth > 0
  PROVE  Top \in Frames /\ Sound(Top)
<1>1. Depth \in 1..Len(stack)
  BY DEF Depth
<1>2. Top \in SoundFrames
  BY <1>1, ElementOfSeq DEF Top
<1> QED
  BY <1>2 DEF SoundFrames

LEMMA TopChanges ==
  ASSUME stack \in Seq(SoundFrames), OthersWait, Depth > 0,
         NEW f \in Frames, Sound(f), stack' = TopBecomes(f)
  PROVE  stack' \in Seq(SoundFrames) /\ OthersWait' /\ Len(stack') = Depth
<1>1. Depth \in 1..Len(stack) /\ Depth = Len(stack)
  BY DEF Depth
<1>2. f \in SoundFrames
  BY DEF SoundFrames
<1>3. /\ [stack EXCEPT ![Depth] = f] \in Seq(SoundFrames)
      /\ Len([stack EXCEPT ![Depth] = f]) = Len(stack)
      /\ \A j \in 1..Len(stack) : [stack EXCEPT ![Depth] = f][j] = IF j = Depth THEN f ELSE stack[j]
  BY <1>1, <1>2, ExceptSeq
<1>4. stack' = [stack EXCEPT ![Depth] = f]
  BY DEF TopBecomes
<1>5. \A j \in 1..Len(stack) : j < Len(stack) => stack'[j] = stack[j]
  BY <1>1, <1>3, <1>4
<1> QED
  BY <1>1, <1>3, <1>4, <1>5 DEF OthersWait

-------------------------------------------------------------------------------
(***************************************************************************)
(* The constants have their types, and so do the initial state and a new   *)
(* command.                                                                *)
(***************************************************************************)
LEMMA CommandIsBytes ==
  ASSUME NEW c \in Commands
  PROVE  Built(c.class, c.header, c.data, c.le) \in Seq(Byte)
<1>1. /\ c.class \in Classes /\ c.header \in Seq(Byte) /\ c.data \in Seq(Byte) /\ c.le \in Nat
      /\ Len(c.header) = 4 /\ Fits(c.class, c.data, c.le)
  BY CommandsAssumption
<1> QED
  BY <1>1, ParserReadsBuilt

LEMMA StartFrame ==
  ASSUME NEW apdu \in Seq(Byte), NEW r \in Results
  PROVE  Frame(apdu, r) \in Frames /\ Sound(Frame(apdu, r))
  BY StatusesMade DEF Frame, Frames, Sound, Pcs

LEMMA InitSound == Init => SendInv
<1> SUFFICES ASSUME Init PROVE SendInv
  OBVIOUS
<1>1. stack \in Seq(SoundFrames) /\ OthersWait
  BY DEF Init, OthersWait
<1>2. None \in [status : Statuses, result : Results] /\ Final(None.status)
  BY StatusesMade, EmptyResult DEF None
<1>3. overtaken \in BOOLEAN /\ open \in BOOLEAN
  BY Zenon DEF Init
<1>4. interrupts \in 0..MaxInterrupts /\ total \in Nat /\ given \in Nat
  BY BoundsAssumption DEF Init
<1>5. RestOK
  BY <1>2, <1>3, <1>4, StatusesMade DEF Init, RestOK
<1> QED
  BY <1>1, <1>2, <1>5 DEF Init, SendInv, StatusIsFinal

LEMMA SendSound ==
  ASSUME SendInv, NEW c \in Commands, Send(c)
  PROVE  SendInv'
<1> DEFINE f == Frame(Built(c.class, c.header, c.data, c.le), <<>>)
<1>1. f \in SoundFrames
  BY CommandIsBytes, StartFrame, EmptyResult DEF SoundFrames
<1>2. stack' = <<f>>
  BY DEF Send
<1>3. stack' \in Seq(SoundFrames) /\ OthersWait'
  <2> HIDE DEF f
  <2> QED
    BY <1>1, <1>2 DEF OthersWait
<1>4. None \in [status : Statuses, result : Results] /\ Final(None.status)
  BY StatusesMade, EmptyResult DEF None
<1>5. overtaken' \in BOOLEAN /\ open' \in BOOLEAN
  BY Zenon DEF Send
<1>6. interrupts' \in 0..MaxInterrupts /\ total' \in Nat /\ given' \in Nat
  BY BoundsAssumption DEF Send
<1>7. RestOK'
  BY <1>4, <1>5, <1>6 DEF Send, SendInv, RestOK
<1> QED
  BY <1>3, <1>4, <1>7 DEF Send, SendInv, StatusIsFinal

-------------------------------------------------------------------------------
(***************************************************************************)
(* The exchange with the card.                                             *)
(***************************************************************************)
\* An exchange leaves the call waiting for reader->sw, with pieces in its buffer.
LEMMA ExchangeSound ==
  ASSUME SendInv, WellFormed, NEW r \in Results,
         stack' = TopBecomes([Top EXCEPT !.pc = "sent", !.result = r])
  PROVE  stack' \in Seq(SoundFrames) /\ OthersWait'
<1>1. Top \in Frames /\ Sound(Top)
  BY TopOfStack DEF SendInv, WellFormed
<1>2. [Top EXCEPT !.pc = "sent", !.result = r] \in Frames
  BY <1>1 DEF Frames, Pcs
<1>3. Sound([Top EXCEPT !.pc = "sent", !.result = r])
  BY <1>1 DEF Sound, WellFormed, Frames
<1> QED
  BY <1>2, <1>3, TopChanges DEF SendInv, WellFormed

LEMMA GivesSound ==
  ASSUME SendInv, WellFormed, NEW from \in Nat, NEW n \in Nat, Gives(from, n)
  PROVE  /\ stack' \in Seq(SoundFrames) /\ OthersWait'
         /\ given' \in Nat /\ open' \in BOOLEAN /\ sw' \in Statuses
         /\ open' => given' < total
<1>1. Pieces(from, n) \in Results
  <2>1. CASE n = 0
    BY <2>1, EmptyResult DEF Pieces
  <2>2. CASE n # 0
    <3>1. Piece(from + 1, from + n) \in [from : Nat, to : Nat]
      BY DEF Piece
    <3>2. <<Piece(from + 1, from + n)>> \in Results
      BY <3>1 DEF Results
    <3> QED
      BY <2>2, <3>2 DEF Pieces
  <2> QED
    BY <2>1, <2>2
<1>2. stack' \in Seq(SoundFrames) /\ OthersWait'
  BY <1>1, ExchangeSound DEF Gives
<1>3. sw' \in Statuses
  BY StatusesMade, BoundsAssumption DEF Gives
<1>4. given' \in Nat
  BY DEF Gives
<1>5. open' \in BOOLEAN /\ (open' => given' < total)
  <2>1. open' = (from + n < total) /\ given' = from + n
    BY DEF Gives
  <2>2. open' \in BOOLEAN
    BY <2>1
  <2>3. open' => given' < total
    BY <2>1
  <2> QED
    BY <2>2, <2>3
<1> QED
  BY <1>2, <1>3, <1>4, <1>5

LEMMA CorrectsSound ==
  ASSUME SendInv, WellFormed, NEW from \in Nat, Corrects(from)
  PROVE  /\ stack' \in Seq(SoundFrames) /\ OthersWait'
         /\ given' \in Nat /\ open' \in BOOLEAN /\ sw' \in Statuses
         /\ open' => given' < total
<1>1. stack' \in Seq(SoundFrames) /\ OthersWait'
  BY EmptyResult, ExchangeSound DEF Corrects
<1>2. total - from \in Nat
  BY DEF Corrects
<1>3. sw' \in Statuses
  BY <1>2, StatusesMade DEF Corrects
<1>4. from < total
  <2>1. total \in Nat
    BY DEF SendInv, RestOK
  <2> QED
    BY <2>1 DEF Corrects
<1> QED
  BY <1>1, <1>3, <1>4 DEF Corrects

LEMMA WantedLength ==
  ASSUME NEW apdu \in Seq(Byte), Class(apdu) # "ERROR"
  PROVE  Wanted(apdu) \in Nat
<1>1. Len(apdu) \in Nat /\ Len(apdu) >= 4 /\ (HasLongLe(apdu) => Len(apdu) >= 7)
  BY AcceptedLength
<1>2. apdu[Len(apdu)] \in Nat /\ apdu[Len(apdu) - 1] \in Nat
  BY <1>1, Bytes
<1>3. Le(apdu) \in Nat
  BY <1>2 DEF Le
<1> QED
  BY <1>3 DEF Wanted

LEMMA AnswersSound ==
  ASSUME SendInv, WellFormed, NEW from \in Nat, from <= total, Answers(from)
  PROVE  /\ stack' \in Seq(SoundFrames) /\ OthersWait'
         /\ given' \in Nat /\ open' \in BOOLEAN /\ sw' \in Statuses
         /\ open' => given' < total
<1>1. Top \in Frames
  BY TopOfStack DEF SendInv, WellFormed
<1>2. Wanted(Top.apdu) \in Nat
  BY <1>1, WantedLength DEF WellFormed, Frames
<1>3. total \in Nat /\ total - from \in Nat
  BY DEF SendInv, RestOK
<1>4. Least(Wanted(Top.apdu), total - from) \in Nat
  BY <1>2, <1>3 DEF Least
<1>5. \/ Gives(from, Least(Wanted(Top.apdu), total - from))
      \/ Gives(from, 0)
      \/ Corrects(from)
  BY DEF Answers
<1> QED
  BY <1>4, <1>5, GivesSound, CorrectsSound

LEMMA CardSound ==
  ASSUME SendInv, CardStep
  PROVE  SendInv'
<1>1. CASE CardAnswers
  <2>1. WellFormed /\ \E from \in Nat : from <= total /\ Answers(from)
    <3>1. 0 \in Nat /\ 0 <= total /\ given \in Nat /\ (open => given <= total)
      BY DEF SendInv, RestOK
    <3>2. WellFormed /\ (Answers(0) \/ (open /\ Answers(given)))
      BY <1>1 DEF CardAnswers
    <3> QED
      BY <3>1, <3>2
  <2>2. /\ stack' \in Seq(SoundFrames) /\ OthersWait'
        /\ given' \in Nat /\ open' \in BOOLEAN /\ sw' \in Statuses
        /\ open' => given' < total
    BY <2>1, AnswersSound
  <2> QED
    BY <1>1, <2>2 DEF CardAnswers, SendInv, RestOK, StatusIsFinal
<1>2. CASE CardRefuses
  <2>1. stack' \in Seq(SoundFrames) /\ OthersWait'
    BY <1>2, EmptyResult, ExchangeSound DEF CardRefuses
  <2>2. sw' \in Statuses /\ open' = FALSE
    BY <1>2, StatusesMade DEF CardRefuses
  <2> QED
    BY <1>2, <2>1, <2>2 DEF CardRefuses, SendInv, RestOK, StatusIsFinal
<1>3. CASE TransmitFails
  <2>1. Top \in Frames /\ Top.result \in Results
    BY <1>3, TopOfStack DEF SendInv, WellFormed, TransmitFails, Frames
  <2>2. [Top EXCEPT !.pc = "sent"] = [Top EXCEPT !.pc = "sent", !.result = Top.result]
    BY <2>1 DEF Frames
  <2>3. stack' \in Seq(SoundFrames) /\ OthersWait'
    BY <1>3, <2>1, <2>2, ExchangeSound DEF TransmitFails
  <2>4. sw' \in Statuses /\ open' = FALSE
    BY <1>3, StatusesMade DEF TransmitFails
  <2> QED
    BY <1>3, <2>3, <2>4 DEF TransmitFails, SendInv, RestOK, StatusIsFinal
<1> QED
  BY <1>1, <1>2, <1>3 DEF CardStep

LEMMA InterruptedSound ==
  ASSUME SendInv, Interrupted
  PROVE  SendInv'
<1>1. sw' \in Statuses /\ open' = FALSE
  <2>1. \A k \in Announced : k \in Nat
    BY BoundsAssumption
  <2>2. OthersLeave \subseteq Statuses
    BY <2>1, StatusesMade DEF OthersLeave
  <2> QED
    BY <2>2 DEF Interrupted, SendInv, RestOK
<1>2. interrupts' \in 0..MaxInterrupts
  BY BoundsAssumption DEF Interrupted, SendInv, RestOK
<1>3. overtaken' \in BOOLEAN
  BY DEF Interrupted, SendInv, RestOK
<1> QED
  BY <1>1, <1>2, <1>3 DEF Interrupted, SendInv, RestOK, StatusIsFinal, OthersWait

-------------------------------------------------------------------------------
(***************************************************************************)
(* The code: calls and returns.                                            *)
(***************************************************************************)
LEMMA CallSound ==
  ASSUME SendInv, Depth > 0, Top.pc # "start", NEW pc \in {"reissued", "fetching"},
         NEW apdu \in Seq(Byte), NEW r \in Results, Calls(pc, apdu, r)
  PROVE  SendInv'
<1> DEFINE caller == [Top EXCEPT !.pc = pc]
           called == TopBecomes(caller)
           f == Frame(apdu, r)
<1>1. Top \in Frames /\ Sound(Top) /\ Depth = Len(stack) /\ Len(stack) \in Nat
  BY TopOfStack DEF SendInv, Depth
<1>2. caller \in SoundFrames /\ caller.pc = pc
  BY <1>1 DEF SoundFrames, Sound, Frames, Pcs
<1>3. /\ called \in Seq(SoundFrames) /\ Len(called) = Len(stack)
      /\ \A j \in 1..Len(stack) : called[j] = IF j = Len(stack) THEN caller ELSE stack[j]
  <2>1. Len(stack) \in 1..Len(stack) /\ called = [stack EXCEPT ![Len(stack)] = caller]
    BY <1>1 DEF TopBecomes
  <2> HIDE DEF caller, called
  <2> QED
    BY <1>2, <2>1, ExceptSeq DEF SendInv
<1>4. f \in SoundFrames
  BY StartFrame DEF SoundFrames
<1>5. stack' = Append(called, f)
  BY DEF Calls
<1>6. \A j \in 1..Len(called) : called[j].pc \in {"reissued", "fetching"}
  <2> HIDE DEF caller, called
  <2> QED
    BY <1>1, <1>2, <1>3 DEF SendInv, OthersWait
<1>7. stack' \in Seq(SoundFrames) /\ OthersWait'
  <2> HIDE DEF caller, called, f
  <2>1. /\ Append(called, f) \in Seq(SoundFrames)
        /\ Len(Append(called, f)) = Len(called) + 1
        /\ \A j \in 1..Len(called) : Append(called, f)[j] = called[j]
    BY <1>3, <1>4, AppendProperties
  <2>2. \A j \in 1..Len(stack') : j < Len(stack') => j \in 1..Len(called)
    BY <1>3, <1>5, <2>1
  <2> QED
    BY <1>5, <1>6, <2>1, <2>2 DEF OthersWait
<1> QED
  BY <1>7 DEF Calls, SendInv, RestOK, StatusIsFinal

LEMMA ReturnSound ==
  ASSUME SendInv, Depth > 0, NEW s \in Statuses, Final(s), NEW r \in Results, Return(s, r),
         UNCHANGED <<script, total, given, open, sw, overtaken, interrupts>>
  PROVE  SendInv'
<1>1. Depth = Len(stack) /\ Len(stack) \in Nat
  BY DEF SendInv, Depth
<1>2. CASE Depth = 1
  <2>1. stack' = <<>> /\ outcome' = [status |-> s, result |-> r]
    BY <1>2 DEF Return
  <2>2. stack' \in Seq(SoundFrames) /\ OthersWait'
    BY <2>1 DEF OthersWait
  <2> QED
    BY <2>1, <2>2 DEF SendInv, RestOK, StatusIsFinal
<1>3. CASE Depth # 1
  <2> DEFINE caller == stack[Depth - 1]
             outer == SubSeq(stack, 1, Depth - 1)
             back == Resumed(caller, s, r)
  <2>1. Depth - 1 \in 1..Len(stack) /\ Depth - 1 \in Nat
    BY <1>1, <1>3
  <2>2. caller \in Frames /\ Sound(caller) /\ caller.pc \in {"reissued", "fetching"}
    <3>1. caller \in SoundFrames
      BY <2>1, ElementOfSeq DEF SendInv
    <3> QED
      BY <1>1, <2>1, <3>1 DEF SendInv, OthersWait, SoundFrames
  <2>3. Appended(caller.result, r) \in Results
    <3>1. caller.result \in Results
      BY <2>2 DEF Frames
    <3> HIDE DEF caller
    <3> QED
      BY <3>1, ConcatProperties DEF Appended, Results
  <2>4. back \in SoundFrames
    BY <2>2, <2>3 DEF Resumed, SoundFrames, Sound, Frames, Pcs
  <2>5. /\ outer \in Seq(SoundFrames) /\ Len(outer) = Depth - 1
        /\ \A j \in 1..Depth - 1 : outer[j] = stack[j]
    <3>1. \A j \in 1..Depth - 1 : stack[j] \in SoundFrames
      BY <1>1, ElementOfSeq DEF SendInv
    <3> QED
      BY <2>1, <3>1, SubSeqProperties
  <2>6. /\ [outer EXCEPT ![Depth - 1] = back] \in Seq(SoundFrames)
        /\ Len([outer EXCEPT ![Depth - 1] = back]) = Depth - 1
        /\ \A j \in 1..Depth - 1 :
             [outer EXCEPT ![Depth - 1] = back][j] = IF j = Depth - 1 THEN back ELSE outer[j]
    <3> HIDE DEF outer, back
    <3>1. Depth - 1 \in 1..Len(outer)
      BY <2>1, <2>5
    <3> QED
      BY <2>4, <2>5, <3>1, ExceptSeq
  <2>7. stack' = [outer EXCEPT ![Depth - 1] = back] /\ outcome' = outcome
    BY <1>3 DEF Return
  <2>8. stack' \in Seq(SoundFrames) /\ OthersWait'
    <3> HIDE DEF outer, back
    <3> QED
      BY <1>1, <2>1, <2>5, <2>6, <2>7 DEF SendInv, OthersWait
  <2> QED
    BY <2>7, <2>8 DEF SendInv, RestOK, StatusIsFinal
<1> QED
  BY <1>2, <1>3

LEMMA CodeSound ==
  ASSUME SendInv, RejectsMalformed \/ ReadsStatus \/ Reissues \/ FetchesMore \/ Finishes
  PROVE  SendInv'
<1>0. Depth > 0 => /\ Top \in Frames /\ Sound(Top)
                   /\ Top.apdu \in Seq(Byte) /\ Top.result \in Results
                   /\ Top.status \in Statuses /\ Top.status.n \in Byte
  BY TopOfStack DEF SendInv, Frames, Statuses
<1>1. CASE RejectsMalformed
  BY <1>0, <1>1, StatusesMade, ReturnSound DEF RejectsMalformed
<1>2. CASE ReadsStatus
  <2>1. [Top EXCEPT !.pc = "check", !.status = sw] \in Frames
    BY <1>0, <1>2 DEF ReadsStatus, Frames, Pcs, SendInv, RestOK
  <2>2. Sound([Top EXCEPT !.pc = "check", !.status = sw])
    BY <1>0, <1>2 DEF ReadsStatus, Frames, Sound
  <2>3. stack' \in Seq(SoundFrames) /\ OthersWait'
    BY <1>2, <2>1, <2>2, TopChanges DEF ReadsStatus, SendInv
  <2> QED
    BY <1>2, <2>3 DEF ReadsStatus, SendInv, RestOK, StatusIsFinal
<1>3. CASE Reissues
  <2>1. Class(Top.apdu) # "ERROR"
    BY <1>0, <1>3 DEF Reissues, Sound
  <2>2. Corrected(Top.apdu, Top.status.n) \in Seq(Byte)
    BY <1>0, <1>3, <2>1, CorrectedType DEF Reissues
  <2> QED
    BY <1>0, <1>3, <2>2, CallSound DEF Reissues
<1>4. CASE FetchesMore
  <2>1. GetResponse(Top.status.n) \in Seq(Byte)
    BY <1>0, <1>4 DEF FetchesMore, GetResponse, Byte
  <2> QED
    BY <1>0, <1>4, <2>1, EmptyResult, CallSound DEF FetchesMore
<1>5. CASE Finishes
  <2>1. Final(Top.status)
    BY <1>0, <1>5 DEF Finishes, Sound, Final, MoreToFetch
  <2> QED
    BY <1>0, <1>5, <2>1, ReturnSound DEF Finishes
<1> QED
  BY <1>1, <1>2, <1>3, <1>4, <1>5

-------------------------------------------------------------------------------
THEOREM SendInvariant == Spec => []SendInv
<1>1. SendInv /\ [Next]_vars => SendInv'
  <2> SUFFICES ASSUME SendInv, [Next]_vars PROVE SendInv'
    OBVIOUS
  <2>1. CASE Step
    BY <2>1, CardSound, CodeSound DEF Step
  <2>2. CASE Interrupted
    BY <2>2, InterruptedSound
  <2>3. ASSUME NEW c \in Commands, Send(c) PROVE SendInv'
    BY <2>3, SendSound
  <2>4. CASE UNCHANGED vars
    BY <2>4 DEF vars, SendInv, RestOK, OthersWait, StatusIsFinal
  <2> QED
    BY <2>1, <2>2, <2>3, <2>4 DEF Next
<1> QED
  BY <1>1, InitSound, PTL DEF Spec

(***************************************************************************)
(* The stack holds parsable byte strings: the correction of a length finds *)
(* a byte to overwrite, whatever commands a script sends.                  *)
(***************************************************************************)
THEOREM SendTypeCorrect == Spec => []SendTypeOK
<1>1. SendInv => SendTypeOK
  <2> SUFFICES ASSUME SendInv PROVE SendTypeOK
    OBVIOUS
  <2>1. SoundFrames \subseteq Frames
    BY DEF SoundFrames
  <2>2. stack \in Seq(Frames)
    BY <2>1, SeqMonotonic DEF SendInv
  <2> QED
    BY <2>2 DEF SendInv, RestOK, SendTypeOK
<1> QED
  BY <1>1, SendInvariant, PTL

(***************************************************************************)
(* card.send() never returns 61xx or 6Cxx, for any number of interruptions *)
(* and any announced lengths.                                              *)
(***************************************************************************)
THEOREM ReturnsFinalStatus == Spec => []StatusIsFinal
<1>1. SendInv => StatusIsFinal
  BY DEF SendInv
<1> QED
  BY <1>1, SendInvariant, PTL

-------------------------------------------------------------------------------
(***************************************************************************)
(* The pieces.  `at' says how many bytes of the response were delivered    *)
(* before each call: a call's own pieces follow on from there, its inner   *)
(* call begins where they end, and the innermost one ends at `given',      *)
(* unless another send left its status and made the card drop the rest.    *)
(***************************************************************************)
Follows(pieces, b) ==
  \A i \in 1..Len(pieces) :
    pieces[i].from = (IF i = 1 THEN b + 1 ELSE pieces[i - 1].to + 1)

Upto(pieces, b) == IF pieces = <<>> THEN b ELSE pieces[Len(pieces)].to

\* A call that sends its command again gives its buffer to the inner call.
Live(f) == IF f.pc = "reissued" THEN <<>> ELSE f.result

\* Only GET RESPONSE is sent in the middle of a response.
FrameFits(f, b) ==
  /\ Follows(Live(f), b) /\ b <= Upto(Live(f), b)
  /\ ~IsGetResponse(f.apdu) => b = 0

Fitted(at) ==
  /\ at \in [1..(Depth + 1) -> Nat]
  /\ at[1] = 0 /\ at[Depth + 1] <= given
  /\ open \/ ~overtaken => at[Depth + 1] = given
  /\ \A i \in 1..Depth :
       FrameFits(stack[i], at[i]) /\ at[i + 1] = Upto(Live(stack[i]), at[i])

\* What is sent again brought nothing the first time, or the card has nothing
\* more to give.
Empty(f) == f.result = <<>> \/ (overtaken /\ ~open)

\* What the status that is on its way to the innermost call says of its pieces.
Delivered ==
  /\ \/ Top.pc = "start"
     \/ Top.pc = "sent" /\ sw.kind = "6C"
     \/ Top.pc = "check" /\ Top.status.kind = "6C"
     => Empty(Top)
  /\ \/ Top.pc = "sent" /\ sw = Success
     \/ Top.pc \in {"check", "loop", "done"} /\ Top.status = Success
     => overtaken \/ given = total

Pieced == Depth > 0 => (\E at : Fitted(at)) /\ Delivered

Ended ==
  /\ Consecutive(outcome.result)
  /\ stack = <<>> /\ outcome.status = Success /\ ~overtaken
       => Upto(outcome.result, 0) = total

PrefixInv == SendInv /\ Pieced /\ Ended

-------------------------------------------------------------------------------
LEMMA NoPieces ==
  ASSUME NEW b
  PROVE  Follows(<<>>, b) /\ Upto(<<>>, b) = b
  BY DEF Follows, Upto

LEMMA PiecesFollow ==
  ASSUME NEW b \in Nat, NEW n \in Nat
  PROVE  Follows(Pieces(b, n), b) /\ Upto(Pieces(b, n), b) = b + n
<1>1. CASE n = 0
  BY <1>1, NoPieces DEF Pieces
<1>2. CASE n # 0
  <2> DEFINE p == <<Piece(b + 1, b + n)>>
  <2>1. Pieces(b, n) = p /\ Len(p) = 1 /\ p # <<>> /\ p[1] = Piece(b + 1, b + n)
    BY <1>2 DEF Pieces
  <2>2. p[1].from = b + 1 /\ p[1].to = b + n
    BY <2>1 DEF Piece
  <2> HIDE DEF p
  <2> QED
    BY <2>1, <2>2 DEF Follows, Upto
<1> QED
  BY <1>1, <1>2

LEMMA ResultElements ==
  ASSUME NEW r \in Results
  PROVE  /\ Len(r) \in Nat /\ (r # <<>> <=> Len(r) > 0)
         /\ \A i \in 1..Len(r) : r[i].from \in Nat /\ r[i].to \in Nat
<1>1. \A i \in 1..Len(r) : r[i] \in [from : Nat, to : Nat]
  BY ElementOfSeq DEF Results
<1>2. Len(r) \in Nat /\ (r # <<>> <=> Len(r) > 0)
  BY EmptySeq DEF Results
<1> QED
  BY <1>1, <1>2

LEMMA UptoNat ==
  ASSUME NEW r \in Results, NEW b \in Nat
  PROVE  Upto(r, b) \in Nat
<1>1. r # <<>> => Len(r) \in 1..Len(r)
  BY ResultElements
<1> QED
  BY <1>1, ResultElements DEF Upto

\* The pieces of GET RESPONSE behind those that were there.
LEMMA PiecesJoin ==
  ASSUME NEW r \in Results, NEW more \in Results, NEW b \in Nat,
         Follows(r, b), Follows(more, Upto(r, b))
  PROVE  /\ Follows(r \o more, b)
         /\ Upto(r \o more, b) = Upto(more, Upto(r, b))
<1>1. /\ r \o more \in Results
      /\ Len(r \o more) = Len(r) + Len(more)
      /\ \A i \in 1..(Len(r) + Len(more)) :
           (r \o more)[i] = IF i <= Len(r) THEN r[i] ELSE more[i - Len(r)]
  BY ConcatProperties DEF Results
<1>2. /\ Len(r) \in Nat /\ Len(more) \in Nat
      /\ (r # <<>> <=> Len(r) > 0) /\ (more # <<>> <=> Len(more) > 0)
      /\ (r \o more # <<>> <=> Len(r \o more) > 0)
  BY <1>1, ResultElements
<1>3. ASSUME NEW i \in 1..Len(r \o more)
      PROVE  (r \o more)[i].from = (IF i = 1 THEN b + 1 ELSE (r \o more)[i - 1].to + 1)
  <2>1. CASE i <= Len(r)
    <3>1. i \in 1..Len(r) /\ (r \o more)[i] = r[i]
      BY <1>1, <1>2, <2>1
    <3>2. i # 1 => (r \o more)[i - 1] = r[i - 1]
      BY <1>1, <1>2, <2>1
    <3> QED
      BY <3>1, <3>2 DEF Follows
  <2>2. CASE i = Len(r) + 1
    <3>1. (r \o more)[i] = more[1] /\ 1 \in 1..Len(more)
      BY <1>1, <1>2, <2>2
    <3>2. more[1].from = Upto(r, b) + 1
      BY <3>1 DEF Follows
    <3>3. i # 1 => (r \o more)[i - 1] = r[Len(r)] /\ r # <<>>
      BY <1>1, <1>2, <2>2
    <3>4. i = 1 => r = <<>>
      BY <1>2, <2>2
    <3> QED
      BY <3>1, <3>2, <3>3, <3>4 DEF Upto
  <2>3. CASE i > Len(r) + 1
    <3>1. /\ (r \o more)[i] = more[i - Len(r)] /\ (r \o more)[i - 1] = more[i - 1 - Len(r)]
          /\ i - Len(r) \in 1..Len(more) /\ i - Len(r) # 1 /\ i # 1
          /\ i - Len(r) - 1 = i - 1 - Len(r)
      BY <1>1, <1>2, <2>3
    <3>2. more[i - Len(r)].from = more[i - Len(r) - 1].to + 1
      BY <3>1 DEF Follows
    <3> QED
      BY <3>1, <3>2
  <2> QED
    BY <1>1, <1>2, <2>1, <2>2, <2>3
<1>4. Upto(r \o more, b) = Upto(more, Upto(r, b))
  <2>1. CASE more = <<>>
    <3>1. r \o more = r
      BY <2>1, ConcatEmptySeq DEF Results
    <3> QED
      BY <2>1, <3>1 DEF Upto
  <2>2. CASE more # <<>>
    <3>1. (r \o more)[Len(r \o more)] = more[Len(more)] /\ r \o more # <<>>
      BY <1>1, <1>2, <2>2
    <3> QED
      BY <2>2, <3>1 DEF Upto
  <2> QED
    BY <2>1, <2>2
<1> QED
  BY <1>3, <1>4 DEF Follows

-------------------------------------------------------------------------------
(***************************************************************************)
(* The stack changes at its top, or by one call.                           *)
(***************************************************************************)
LEMMA StackFacts ==
  ASSUME SendInv
  PROVE  /\ Depth = Len(stack) /\ Depth \in Nat /\ (stack = <<>> <=> Depth = 0)
         /\ total \in Nat /\ given \in Nat
         /\ \A i \in 1..Depth : stack[i] \in Frames /\ stack[i].result \in Results
                                /\ stack[i].apdu \in Seq(Byte) /\ Sound(stack[i])
<1>1. Depth = Len(stack) /\ Depth \in Nat /\ (stack = <<>> <=> Depth = 0)
  BY EmptySeq DEF SendInv, Depth
<1>2. \A i \in 1..Depth : stack[i] \in SoundFrames
  BY <1>1, ElementOfSeq DEF SendInv
<1> QED
  BY <1>1, <1>2 DEF SoundFrames, Frames, SendInv, RestOK

LEMMA TopRefits ==
  ASSUME SendInv, Depth > 0, NEW at, Fitted(at),
         NEW f \in Frames, Sound(f), stack' = TopBecomes(f), f.pc # "reissued",
         FrameFits(f, at[Depth]), Upto(f.result, at[Depth]) <= given',
         open' \/ ~overtaken' => Upto(f.result, at[Depth]) = given'
  PROVE  /\ \E new : Fitted(new)'
         /\ Depth' = Depth /\ Top' = f
<1>1. Depth = Len(stack) /\ Depth \in Nat /\ Depth \in 1..Depth
  BY StackFacts
<1>2. /\ Len(stack') = Depth
      /\ \A j \in 1..Depth : stack'[j] = IF j = Depth THEN f ELSE stack[j]
  <2>1. f \in SoundFrames
    BY DEF SoundFrames
  <2>2. stack' = [stack EXCEPT ![Len(stack)] = f] /\ Len(stack) \in 1..Len(stack)
    BY <1>1 DEF TopBecomes
  <2> QED
    BY <1>1, <2>1, <2>2, ExceptSeq DEF SendInv
<1>3. Depth' = Depth /\ Top' = f
  BY <1>1, <1>2 DEF Depth, Top
<1> DEFINE u == Upto(f.result, at[Depth])
<1>new. PICK new : new = [at EXCEPT ![Depth + 1] = u]
  OBVIOUS
<1>4. u \in Nat /\ Live(f) = f.result
  <2>1. f.result \in Results /\ at[Depth] \in Nat
    BY <1>1 DEF Frames, Fitted
  <2> QED
    BY <2>1, UptoNat DEF Live
<1>u. u <= given' /\ (open' \/ ~overtaken' => u = given')
  OBVIOUS
<1>5. /\ new \in [1..(Depth + 1) -> Nat]
      /\ new[Depth + 1] = u
      /\ \A i \in 1..Depth : new[i] = at[i]
  <2> HIDE DEF u
  <2> QED
    BY <1>1, <1>4, <1>new DEF Fitted
<1>6. \A i \in 1..Depth :
        FrameFits(stack'[i], new[i]) /\ new[i + 1] = Upto(Live(stack'[i]), new[i])
  <2> SUFFICES ASSUME NEW i \in 1..Depth
               PROVE  FrameFits(stack'[i], new[i]) /\ new[i + 1] = Upto(Live(stack'[i]), new[i])
    OBVIOUS
  <2>1. CASE i = Depth
    BY <1>1, <1>2, <1>4, <1>5, <2>1
  <2>2. CASE i # Depth
    <3>1. i + 1 \in 1..Depth /\ stack'[i] = stack[i]
      BY <1>1, <1>2, <2>2
    <3>2. new[i + 1] = at[i + 1] /\ new[i] = at[i]
      BY <1>5, <3>1
    <3> QED
      BY <3>1, <3>2 DEF Fitted
  <2> QED
    BY <2>1, <2>2
<1>7. new[1] = 0
  BY <1>1, <1>5 DEF Fitted
<1>8. Fitted(new)'
  <2> HIDE DEF u
  <2> QED
    BY <1>3, <1>5, <1>6, <1>7, <1>u DEF Fitted
<1> QED
  BY <1>3, <1>8

LEMMA CallRefits ==
  ASSUME SendInv, Depth > 0, NEW at, Fitted(at), Top.pc \notin {"start", "reissued"},
         NEW pc \in {"reissued", "fetching"}, NEW apdu \in Seq(Byte), NEW r \in Results,
         Calls(pc, apdu, r), r = IF pc = "reissued" THEN Top.result ELSE <<>>,
         pc = "reissued" /\ ~IsGetResponse(apdu) => at[Depth] = 0,
         pc = "fetching" => IsGetResponse(apdu)
  PROVE  /\ \E new : Fitted(new)'
         /\ Depth' = Depth + 1 /\ Top' = Frame(apdu, r)
<1> DEFINE caller == [Top EXCEPT !.pc = pc]
           f == Frame(apdu, r)
           called == TopBecomes(caller)
           b == Upto(Live(caller), at[Depth])
<1>1. Depth = Len(stack) /\ Depth \in Nat /\ Depth \in 1..Depth /\ given \in Nat
  BY StackFacts
<1>2. Top \in Frames /\ Sound(Top) /\ Top = stack[Depth]
  BY <1>1, StackFacts DEF Top
<1>3. caller \in SoundFrames /\ caller.pc = pc /\ caller.result = Top.result /\ caller.apdu = Top.apdu
  BY <1>2 DEF SoundFrames, Sound, Frames, Pcs
<1>4. f \in SoundFrames /\ f.result = r /\ f.apdu = apdu /\ f.pc = "start"
  BY StartFrame DEF SoundFrames, Frame
<1>b. /\ FrameFits(caller, at[Depth]) /\ FrameFits(f, b) /\ Upto(Live(f), b) = at[Depth + 1]
      /\ b \in Nat
  <2>1. /\ FrameFits(Top, at[Depth]) /\ at[Depth + 1] = Upto(Live(Top), at[Depth])
        /\ at[Depth] \in Nat /\ at[Depth + 1] \in Nat
    BY <1>1, <1>2 DEF Fitted
  <2>2. Live(Top) = Top.result /\ Live(f) = r
    BY <1>4 DEF Live
  <2> HIDE DEF f
  <2>3. CASE pc = "reissued"
    <3>1. Live(caller) = <<>> /\ b = at[Depth]
      BY <1>3, <2>3, NoPieces DEF Live
    <3> HIDE DEF b, caller
    <3> QED
      BY <1>3, <1>4, <2>1, <2>2, <2>3, <3>1, NoPieces DEF FrameFits
  <2>4. CASE pc = "fetching"
    <3>1. Live(caller) = Top.result
      BY <1>3, <2>4 DEF Live
    <3>2. b = at[Depth + 1]
      BY <2>1, <2>2, <3>1
    <3> HIDE DEF b, caller
    <3> QED
      BY <1>3, <1>4, <2>1, <2>2, <2>4, <3>1, <3>2, NoPieces DEF FrameFits
  <2> QED
    BY <2>3, <2>4
<1>5. /\ called \in Seq(SoundFrames) /\ Len(called) = Depth
      /\ \A j \in 1..Depth : called[j] = IF j = Depth THEN caller ELSE stack[j]
  <2>1. called = [stack EXCEPT ![Len(stack)] = caller] /\ Len(stack) \in 1..Len(stack)
    BY <1>1 DEF TopBecomes
  <2> HIDE DEF called, caller
  <2> QED
    BY <1>1, <1>3, <2>1, ExceptSeq DEF SendInv
<1>6. /\ Len(stack') = Depth + 1
      /\ \A j \in 1..Depth : stack'[j] = IF j = Depth THEN caller ELSE stack[j]
      /\ stack'[Depth + 1] = f
  <2>1. stack' = Append(called, f)
    BY DEF Calls
  <2> HIDE DEF called, caller, f
  <2> QED
    BY <1>4, <1>5, <2>1, AppendProperties
<1>7. Depth' = Depth + 1 /\ Top' = f
  BY <1>6 DEF Depth, Top
<1>new. PICK new : new = [i \in 1..(Depth + 2) |->
                            IF i = Depth + 2 THEN at[Depth + 1] ELSE IF i = Depth + 1 THEN b ELSE at[i]]
  OBVIOUS
<1>8. /\ new \in [1..(Depth + 2) -> Nat]
      /\ new[Depth + 2] = at[Depth + 1] /\ new[Depth + 1] = b
      /\ \A i \in 1..Depth : new[i] = at[i]
  <2> HIDE DEF b, caller, f, called
  <2> QED
    BY <1>1, <1>b, <1>new DEF Fitted
<1>9. \A i \in 1..(Depth + 1) :
        FrameFits(stack'[i], new[i]) /\ new[i + 1] = Upto(Live(stack'[i]), new[i])
  <2> SUFFICES ASSUME NEW i \in 1..(Depth + 1)
               PROVE  FrameFits(stack'[i], new[i]) /\ new[i + 1] = Upto(Live(stack'[i]), new[i])
    OBVIOUS
  <2>b. b = Upto(Live(caller), at[Depth])
    OBVIOUS
  <2> HIDE DEF b, f, caller, called
  <2>1. CASE i = Depth + 1
    BY <1>1, <1>6, <1>8, <1>b, <2>1
  <2>2. CASE i = Depth
    <3>1. i \in 1..Depth /\ i + 1 = Depth + 1
      BY <1>1, <2>2
    <3>2. stack'[i] = caller /\ new[i] = at[Depth] /\ new[i + 1] = b
      BY <1>6, <1>8, <2>2, <3>1
    <3> QED
      BY <1>b, <2>b, <3>2
  <2>3. CASE i < Depth
    <3>1. i \in 1..Depth /\ i + 1 \in 1..Depth /\ i # Depth
      BY <1>1, <2>3
    <3>2. stack'[i] = stack[i] /\ new[i] = at[i] /\ new[i + 1] = at[i + 1]
      BY <1>6, <1>8, <3>1
    <3> QED
      BY <3>1, <3>2 DEF Fitted
  <2> QED
    BY <1>1, <2>1, <2>2, <2>3
<1>10. new[1] = 0
  <2>1. 1 \in 1..Depth /\ at[1] = 0
    BY <1>1 DEF Fitted
  <2> QED
    BY <1>8, <2>1
<1>11. given' = given /\ open' = open /\ overtaken' = overtaken
  BY DEF Calls
<1>12. Fitted(new)'
  <2>1. Depth + 1 + 1 = Depth + 2
    BY <1>1
  <2>2. at[Depth + 1] <= given /\ (open \/ ~overtaken => at[Depth + 1] = given)
    BY DEF Fitted
  <2> HIDE DEF b
  <2> QED
    BY <1>7, <1>8, <1>9, <1>10, <1>11, <2>1, <2>2 DEF Fitted
<1> QED
  BY <1>7, <1>12

LEMMA ReturnRefits ==
  ASSUME PrefixInv, SendInv', Depth > 0, NEW at, Fitted(at),
         NEW s \in Statuses, NEW r \in Results, Return(s, r),
         Follows(r, at[Depth]), at[Depth] <= at[Depth + 1], Upto(r, at[Depth]) = at[Depth + 1],
         s = Success => overtaken \/ given = total,
         UNCHANGED <<script, total, given, open, sw, overtaken, interrupts>>
  PROVE  PrefixInv'
<1>1. Depth = Len(stack) /\ Depth \in Nat /\ Depth \in 1..Depth /\ given \in Nat
  BY StackFacts DEF PrefixInv
<1> DEFINE e == at[Depth + 1]
<1>9. at[Depth] \in Nat /\ e \in Nat /\ e <= given /\ (open \/ ~overtaken => e = given)
  BY <1>1 DEF Fitted
<1> HIDE DEF e
<1>2. CASE Depth = 1
  <2>1. stack' = <<>> /\ outcome' = [status |-> s, result |-> r]
    BY <1>2 DEF Return
  <2>2. at[1] = 0
    BY DEF Fitted
  <2>3. Follows(r, 0) /\ (~overtaken => Upto(r, 0) = given)
    BY <1>2, <1>9, <2>2 DEF e
  <2>4. Consecutive(r)
    BY <2>3 DEF Follows, Consecutive
  <2>5. Depth' = 0
    BY <2>1 DEF Depth
  <2> QED
    BY <2>1, <2>3, <2>4, <2>5 DEF PrefixInv, Ended, Pieced
<1>3. CASE Depth # 1
  <2> DEFINE d == Depth - 1
             caller == stack[d]
             outer == SubSeq(stack, 1, d)
             back == Resumed(caller, s, r)
  <2>1. d \in 1..Depth /\ d \in Nat /\ d + 1 = Depth /\ d < Len(stack) /\ d \in 1..Len(stack)
    BY <1>1, <1>3
  <2>2. /\ caller \in Frames /\ caller.result \in Results
        /\ caller.pc \in {"reissued", "fetching"}
        /\ FrameFits(caller, at[d]) /\ at[Depth] = Upto(Live(caller), at[d]) /\ at[d] \in Nat
    <3>1. caller.pc \in {"reissued", "fetching"}
      BY <2>1 DEF PrefixInv, SendInv, OthersWait
    <3>2. caller \in Frames /\ caller.result \in Results
      BY <2>1, StackFacts DEF PrefixInv
    <3>3. FrameFits(caller, at[d]) /\ at[d + 1] = Upto(Live(caller), at[d])
      BY <2>1 DEF Fitted
    <3>4. at[d] \in Nat
      <4>1. d \in 1..(Depth + 1)
        BY <1>1, <2>1
      <4> HIDE DEF d
      <4> QED
        BY <4>1 DEF Fitted
    <3> QED
      BY <2>1, <3>1, <3>2, <3>3, <3>4
  <2>3. /\ FrameFits(back, at[d]) /\ Upto(Live(back), at[d]) = e
        /\ back.pc \in {"loop", "done"} /\ back.status = s
    <3>r. Follows(r, at[Depth]) /\ at[Depth] <= e /\ Upto(r, at[Depth]) = e
      BY DEF e
    <3>1. CASE caller.pc = "reissued"
      <4>1. /\ back.result = r /\ back.pc = "done" /\ back.status = s /\ back.apdu = caller.apdu
        BY <2>2, <3>1 DEF Resumed, Frames
      <4>2. at[Depth] = at[d]
        BY <2>2, <3>1 DEF Live, Upto
      <4> HIDE DEF back, caller, d
      <4>3. Live(back) = r
        BY <4>1 DEF Live
      <4> QED
        BY <2>2, <3>r, <4>1, <4>2, <4>3 DEF FrameFits
    <3>2. CASE caller.pc = "fetching"
      <4>1. /\ back.result = caller.result \o r /\ back.pc = "loop" /\ back.status = s
            /\ back.apdu = caller.apdu
        BY <2>2, <3>2 DEF Resumed, Appended, Frames
      <4>2. Live(caller) = caller.result /\ Follows(caller.result, at[d]) /\ at[d] <= at[Depth]
        BY <2>2, <3>2 DEF FrameFits, Live
      <4>3. /\ Follows(caller.result \o r, at[d])
            /\ Upto(caller.result \o r, at[d]) = e
        <5> HIDE DEF caller, d
        <5> QED
          BY <2>2, <3>r, <4>2, PiecesJoin
      <4> HIDE DEF back, caller, d
      <4>4. Live(back) = caller.result \o r
        BY <4>1 DEF Live
      <4> QED
        BY <1>9, <2>2, <3>r, <4>1, <4>2, <4>3, <4>4 DEF FrameFits
    <3> QED
      BY <2>2, <3>1, <3>2
  <2>4. back \in SoundFrames /\ outer \in Seq(SoundFrames) /\ Len(outer) = d
        /\ \A j \in 1..d : outer[j] = stack[j]
    <3>1. back \in SoundFrames
      <4>1. stack' = [outer EXCEPT ![d] = back]
        BY <1>3 DEF Return
      <4>2. \A j \in 1..d : stack[j] \in SoundFrames
        BY <2>1, ElementOfSeq DEF PrefixInv, SendInv
      <4>3. Len(outer) = d /\ outer \in Seq(SoundFrames)
        <5> HIDE DEF back
        <5> QED
          BY <2>1, <4>2, SubSeqProperties
      <4>4. d \in 1..Len(stack') /\ stack'[d] = back
        <5> HIDE DEF back, outer, d
        <5> QED
          BY <2>1, <4>1, <4>3
      <4>5. stack' \in Seq(SoundFrames)
        BY DEF SendInv
      <4> HIDE DEF back, outer, d
      <4> QED
        BY <4>4, <4>5, ElementOfSeq
    <3>2. \A j \in 1..d : stack[j] \in SoundFrames
      BY <2>1, ElementOfSeq DEF PrefixInv, SendInv
    <3>3. /\ outer \in Seq(SoundFrames) /\ Len(outer) = d
          /\ \A j \in 1..d : outer[j] = stack[j]
      <4> HIDE DEF back
      <4> QED
        BY <2>1, <3>2, SubSeqProperties
    <3> QED
      BY <3>1, <3>3
  <2>5. /\ Len(stack') = d /\ outcome' = outcome
        /\ \A j \in 1..d : stack'[j] = IF j = d THEN back ELSE stack[j]
    <3>1. stack' = [outer EXCEPT ![d] = back] /\ outcome' = outcome
      BY <1>3 DEF Return
    <3> HIDE DEF back, outer, caller, d
    <3> QED
      BY <2>1, <2>4, <3>1, ExceptSeq
  <2>6. Depth' = d /\ Top' = back /\ stack' # <<>>
    <3>1. Depth' = d
      BY <2>5 DEF Depth
    <3>2. Top' = stack'[d]
      BY <3>1 DEF Top
    <3>3. d \in 1..d
      BY <1>1, <1>3
    <3>4. stack'[d] = back
      BY <2>5, <3>3
    <3>5. stack' # <<>>
      BY <2>5, <3>3
    <3> QED
      BY <3>1, <3>2, <3>4, <3>5
  <2>new. PICK new : new = [i \in 1..Depth |-> IF i = Depth THEN e ELSE at[i]]
    OBVIOUS
  <2>7. /\ new \in [1..(d + 1) -> Nat] /\ new[d + 1] = e /\ new[1] = 0
        /\ \A i \in 1..d : new[i] = at[i]
    <3>1. \A i \in 1..d : i \in 1..(Depth + 1) /\ i # Depth /\ i \in 1..Depth
      BY <2>1
    <3>2. \A i \in 1..d : new[i] = at[i] /\ at[i] \in Nat
      BY <2>new, <3>1 DEF Fitted
    <3>3. 1 \in 1..d /\ 1..Depth = 1..(d + 1)
      BY <2>1
    <3>4. at[1] = 0
      BY DEF Fitted
    <3>5. new[d + 1] = e
      BY <1>1, <2>1, <2>new
    <3> HIDE DEF d
    <3>6. new \in [1..(d + 1) -> Nat]
      <4>1. \A i \in 1..(d + 1) : i = d + 1 \/ i \in 1..d
        BY <2>1
      <4>2. \A i \in 1..(d + 1) : new[i] \in Nat
        BY <1>9, <3>2, <3>5, <4>1
      <4> QED
        BY <2>new, <3>3, <4>2
    <3> QED
      BY <3>2, <3>3, <3>4, <3>5, <3>6
  <2>8. \A i \in 1..d :
          FrameFits(stack'[i], new[i]) /\ new[i + 1] = Upto(Live(stack'[i]), new[i])
    <3> SUFFICES ASSUME NEW i \in 1..d
                 PROVE  FrameFits(stack'[i], new[i]) /\ new[i + 1] = Upto(Live(stack'[i]), new[i])
      OBVIOUS
    <3> HIDE DEF back, caller, outer
    <3>1. CASE i = d
      BY <2>3, <2>5, <2>7, <3>1
    <3>2. CASE i # d
      <4>1. i \in 1..Depth /\ i + 1 \in 1..d
        BY <2>1, <3>2
      <4>2. stack'[i] = stack[i] /\ new[i] = at[i] /\ new[i + 1] = at[i + 1]
        BY <2>5, <2>7, <3>2, <4>1
      <4> QED
        BY <4>1, <4>2 DEF Fitted
    <3> QED
      BY <3>1, <3>2
  <2>9. Fitted(new)'
    <3> HIDE DEF d, back
    <3> QED
      BY <1>9, <2>6, <2>7, <2>8 DEF Fitted
  <2>10. Delivered'
    <3> HIDE DEF d, back
    <3> QED
      BY <2>3, <2>6 DEF Delivered
  <2>11. Ended'
    BY <2>5, <2>6 DEF PrefixInv, Ended
  <2> QED
    BY <2>9, <2>10, <2>11 DEF PrefixInv, Pieced
<1> QED
  BY <1>2, <1>3

-------------------------------------------------------------------------------
(***************************************************************************)
(* Every action.  A call about to start is at the byte the card is at.     *)
(***************************************************************************)
LEMMA TopStarts ==
  ASSUME PrefixInv, WellFormed, NEW at, Fitted(at)
  PROVE  /\ at[Depth] \in Nat /\ at[Depth + 1] \in Nat /\ given \in Nat /\ total \in Nat
         /\ Top \in Frames /\ Top.pc = "start" /\ Top.result \in Results
         /\ Follows(Top.result, at[Depth]) /\ Upto(Top.result, at[Depth]) = at[Depth + 1]
         /\ at[Depth] <= at[Depth + 1] /\ at[Depth + 1] <= given
         /\ ~IsGetResponse(Top.apdu) => at[Depth] = 0
         /\ open \/ ~overtaken => at[Depth] = given /\ at[Depth + 1] = given
<1>1. /\ Depth \in 1..Depth /\ Depth \in Nat /\ Depth \in 1..(Depth + 1) /\ Depth + 1 \in 1..(Depth + 1)
      /\ given \in Nat /\ total \in Nat /\ Top = stack[Depth] /\ Top \in Frames /\ Top.pc = "start"
      /\ Top.result \in Results
  BY StackFacts DEF PrefixInv, WellFormed, Top
<1>2. FrameFits(Top, at[Depth]) /\ at[Depth + 1] = Upto(Top.result, at[Depth]) /\ Live(Top) = Top.result
  BY <1>1 DEF Fitted, Live
<1>3. /\ at[Depth] \in Nat /\ at[Depth + 1] \in Nat /\ at[Depth + 1] <= given
      /\ (open \/ ~overtaken => at[Depth + 1] = given)
  BY <1>1 DEF Fitted
<1>4. open \/ ~overtaken => Top.result = <<>>
  BY <1>1 DEF PrefixInv, Pieced, Delivered, Empty, WellFormed
<1> QED
  BY <1>1, <1>2, <1>3, <1>4, NoPieces DEF FrameFits

LEMMA ExchangeRefits ==
  ASSUME PrefixInv, WellFormed, NEW at, Fitted(at), NEW r \in Results,
         stack' = TopBecomes([Top EXCEPT !.pc = "sent", !.result = r]),
         Follows(r, at[Depth]), at[Depth] <= Upto(r, at[Depth]), Upto(r, at[Depth]) <= given',
         open' \/ ~overtaken => Upto(r, at[Depth]) = given',
         sw'.kind = "6C" => r = <<>>,
         sw' = Success => given' = total,
         UNCHANGED <<script, total, outcome, overtaken, interrupts>>
  PROVE  Pieced' /\ Ended'
<1> DEFINE f == [Top EXCEPT !.pc = "sent", !.result = r]
           b == at[Depth]
<1>2. Top \in Frames /\ b \in Nat /\ (~IsGetResponse(Top.apdu) => b = 0)
  BY TopStarts
<1>3. f \in Frames /\ f.pc = "sent" /\ f.result = r /\ f.apdu = Top.apdu
  BY <1>2 DEF Frames, Pcs
<1>4. Sound(f)
  BY <1>3 DEF Sound, WellFormed
<1>5. FrameFits(f, b) /\ f.pc # "reissued"
  <2>1. Live(f) = r
    BY <1>3 DEF Live
  <2> HIDE DEF f
  <2> QED
    BY <1>2, <1>3, <2>1 DEF FrameFits
<1>6. (\E new : Fitted(new)') /\ Top' = f /\ Depth' = Depth
  <2>1. stack' = TopBecomes(f)
    OBVIOUS
  <2>2. Upto(f.result, b) <= given' /\ (open' \/ ~overtaken' => Upto(f.result, b) = given')
    BY <1>3
  <2> HIDE DEF f
  <2> QED
    BY <1>3, <1>4, <1>5, <2>1, <2>2, TopRefits DEF PrefixInv, WellFormed
<1>7. Delivered'
  <2> HIDE DEF f
  <2> QED
    BY <1>3, <1>6 DEF Delivered, Empty
<1>8. stack' # <<>>
  <2>1. Depth \in Nat /\ Depth > 0
    BY StackFacts DEF PrefixInv, WellFormed
  <2> QED
    BY <1>6, <2>1 DEF Depth
<1>9. Ended'
  BY <1>8 DEF PrefixInv, Ended
<1> QED
  BY <1>6, <1>7, <1>9 DEF Pieced

LEMMA GivesRefits ==
  ASSUME PrefixInv, WellFormed, NEW at, Fitted(at), NEW b, b = at[Depth], b <= total,
         NEW n \in Nat, n <= total - b, Gives(b, n),
         UNCHANGED <<script, total, outcome, overtaken, interrupts>>
  PROVE  Pieced' /\ Ended'
<1>1. b \in Nat /\ total \in Nat
  BY TopStarts
<1>2. Pieces(b, n) \in Results
  <2>1. Piece(b + 1, b + n) \in [from : Nat, to : Nat]
    BY <1>1 DEF Piece
  <2>2. <<Piece(b + 1, b + n)>> \in Results
    BY <2>1 DEF Results
  <2> QED
    BY <2>2, EmptyResult DEF Pieces
<1>3. Follows(Pieces(b, n), b) /\ given' = Upto(Pieces(b, n), b) /\ given' = b + n
  BY <1>1, PiecesFollow DEF Gives
<1>4. sw'.kind # "6C"
  BY DEF Gives, Success, Status
<1>5. sw' = Success => given' = total
  <2>1. SUFFICES ASSUME sw' = Success PROVE given' = total
    OBVIOUS
  <2>2. ~open'
    BY <2>1 DEF Gives, Success, Status
  <2>3. open' = (b + n < total)
    BY DEF Gives
  <2>4. ~(b + n < total)
    BY <2>2, <2>3
  <2> QED
    BY <1>1, <1>3, <2>4
<1>6. b <= Upto(Pieces(b, n), b) /\ Upto(Pieces(b, n), b) <= given'
  BY <1>1, <1>3
<1> QED
  BY <1>2, <1>3, <1>4, <1>5, <1>6, ExchangeRefits DEF Gives

LEMMA AnswersRefits ==
  ASSUME PrefixInv, WellFormed, NEW at, Fitted(at), NEW b, b = at[Depth], b <= total, Answers(b),
         UNCHANGED <<script, total, outcome, overtaken, interrupts>>
  PROVE  Pieced' /\ Ended'
<1>1. b \in Nat /\ total \in Nat
  BY TopStarts
<1>2. CASE Corrects(b)
  <2>1. sw' # Success
    BY <1>2 DEF Corrects, Success, Status
  <2>2. given' = b /\ Upto(<<>>, b) = b /\ Follows(<<>>, b) /\ b <= b
    BY <1>1, <1>2, NoPieces DEF Corrects
  <2> QED
    BY <1>2, <2>1, <2>2, EmptyResult, ExchangeRefits DEF Corrects
<1>3. CASE Gives(b, 0)
  BY <1>1, <1>3, GivesRefits
<1>4. CASE Gives(b, Least(Wanted(Top.apdu), total - b))
  <2>1. Top \in Frames
    BY TopOfStack DEF PrefixInv, SendInv, WellFormed
  <2>2. Wanted(Top.apdu) \in Nat
    BY <2>1, WantedLength DEF WellFormed, Frames
  <2>3. /\ Least(Wanted(Top.apdu), total - b) \in Nat
        /\ Least(Wanted(Top.apdu), total - b) <= total - b
    BY <1>1, <2>2 DEF Least
  <2> QED
    BY <1>4, <2>3, GivesRefits
<1> QED
  BY <1>2, <1>3, <1>4 DEF Answers

LEMMA CardRefits ==
  ASSUME PrefixInv, CardStep
  PROVE  Pieced' /\ Ended'
<1>0. WellFormed
  BY DEF CardStep, CardAnswers, CardRefuses, TransmitFails
<1>1. PICK at : Fitted(at)
  BY <1>0 DEF PrefixInv, Pieced, WellFormed
<1> DEFINE b == at[Depth]
           e == at[Depth + 1]
<1>2. /\ b \in Nat /\ e \in Nat /\ given \in Nat /\ total \in Nat
      /\ Top \in Frames /\ Top.pc = "start" /\ Top.result \in Results
      /\ Follows(Top.result, b) /\ Upto(Top.result, b) = e /\ b <= e /\ e <= given
      /\ ~IsGetResponse(Top.apdu) => b = 0
      /\ open \/ ~overtaken => b = given /\ e = given
  BY <1>0, <1>1, TopStarts
<1> HIDE DEF b, e
<1>3. CASE CardAnswers
  <2>1. CASE IsGetResponse(Top.apdu) /\ open /\ Answers(given)
    <3>1. given <= total /\ b = given
      BY <1>2, <2>1, StackFacts DEF PrefixInv, SendInv, RestOK
    <3> QED
      BY <1>0, <1>1, <1>3, <2>1, <3>1, AnswersRefits DEF CardAnswers, b
  <2>2. CASE (IsGetResponse(Top.apdu) => given = 0) /\ Answers(0)
    <3>1. b = 0
      BY <1>2, <2>2
    <3>2. 0 <= total
      BY <1>2
    <3> QED
      BY <1>0, <1>1, <1>3, <2>2, <3>1, <3>2, AnswersRefits DEF CardAnswers, b
  <2> QED
    BY <1>3, <2>1, <2>2 DEF CardAnswers
<1>4. CASE CardRefuses
  <2>1. sw'.kind # "6C" /\ sw' # Success
    BY <1>4 DEF CardRefuses, Refused, Success, Status
  <2>2. given' = given /\ ~open' /\ Follows(<<>>, b) /\ Upto(<<>>, b) = b /\ b <= b /\ b <= given
    BY <1>2, <1>4, NoPieces DEF CardRefuses
  <2>3. ~overtaken => b = given
    BY <1>2
  <2> QED
    BY <1>0, <1>1, <1>4, <2>1, <2>2, <2>3, EmptyResult, ExchangeRefits DEF CardRefuses, b
<1>5. CASE TransmitFails
  <2>1. sw'.kind # "6C" /\ sw' # Success
    BY <1>5 DEF TransmitFails, Failed, Success, Status
  <2>2. [Top EXCEPT !.pc = "sent"] = [Top EXCEPT !.pc = "sent", !.result = Top.result]
    BY <1>2 DEF Frames
  <2>3. given' = given /\ ~open' /\ (~overtaken => e = given)
    BY <1>2, <1>5 DEF TransmitFails
  <2> QED
    BY <1>0, <1>1, <1>2, <1>5, <2>1, <2>2, <2>3, ExchangeRefits DEF TransmitFails, b
<1> QED
  BY <1>3, <1>4, <1>5 DEF CardStep

LEMMA SendRefits ==
  ASSUME PrefixInv, NEW c \in Commands, Send(c)
  PROVE  Pieced' /\ Ended'
<1> DEFINE f == Frame(Built(c.class, c.header, c.data, c.le), <<>>)
<1>1. f.pc = "start" /\ f.result = <<>>
  BY DEF Frame
<1>2. stack' = <<f>> /\ given' = 0 /\ outcome' = None
  BY DEF Send
<1>3. Depth' = 1 /\ Top' = f
  <2> HIDE DEF f
  <2> QED
    BY <1>2 DEF Depth, Top
<1>new. PICK at : at = [i \in 1..2 |-> 0]
  OBVIOUS
<1>4. FrameFits(f, 0) /\ Upto(Live(f), 0) = 0
  <2> HIDE DEF f
  <2>1. Live(f) = <<>> /\ 0 <= 0
    BY <1>1 DEF Live
  <2> QED
    BY <2>1, NoPieces DEF FrameFits
<1>5. Fitted(at)'
  <2> HIDE DEF f
  <2>1. at \in [1..2 -> Nat] /\ at[1] = 0 /\ at[2] = 0
    BY <1>new
  <2>2. \A i \in 1..1 : i = 1 /\ i + 1 = 2 /\ stack'[i] = f
    BY <1>2
  <2> QED
    BY <1>2, <1>3, <1>4, <2>1, <2>2 DEF Fitted
<1>6. Delivered'
  <2> HIDE DEF f
  <2> QED
    BY <1>1, <1>3 DEF Delivered, Empty
<1>7. Ended'
  BY <1>2 DEF Ended, None, Consecutive, Failed, Success, Status
<1> QED
  BY <1>5, <1>6, <1>7 DEF Pieced

LEMMA InterruptedRefits ==
  ASSUME PrefixInv, Interrupted
  PROVE  Pieced' /\ Ended'
<1>1. Depth' = Depth /\ Top' = Top /\ stack # <<>>
  BY StackFacts DEF PrefixInv, Interrupted, Depth, Top
<1>2. ASSUME NEW at, Fitted(at) PROVE Fitted(at)'
  BY <1>1, <1>2 DEF Interrupted, Fitted
<1>3. CASE Top.pc = "sent"
  <2>1. overtaken' /\ ~open'
    BY <1>3 DEF Interrupted
  <2> QED
    BY <1>1, <1>2, <1>3, <2>1 DEF PrefixInv, Pieced, Delivered, Empty, Ended, Interrupted
<1>4. CASE Top.pc # "sent"
  BY <1>1, <1>2, <1>4 DEF PrefixInv, Pieced, Delivered, Empty, Ended, Interrupted
<1> QED
  BY <1>3, <1>4

\* What GET RESPONSE is sent again as.
LEMMA GetResponseCorrected ==
  ASSUME NEW apdu, IsGetResponse(apdu), NEW m \in Byte
  PROVE  IsGetResponse(Corrected(apdu, m))
<1>1. PICK n \in Byte : apdu = GetResponse(n)
  BY DEF IsGetResponse
<1>2. apdu = <<0, 192, 0, 0, n>> /\ Len(apdu) = 5
  BY <1>1 DEF GetResponse
<1>3. Class(apdu) = "2S"
  BY <1>2 DEF Class
<1>4. Shortened(apdu) = <<0, 192, 0, 0, n>>
  BY <1>2, <1>3 DEF Shortened, HasLongLe
<1>5. Corrected(apdu, m) = [<<0, 192, 0, 0, n>> EXCEPT ![5] = m]
  <2>1. Len(Shortened(apdu)) = 5
    BY <1>2, <1>4
  <2> QED
    BY <1>4, <2>1 DEF Corrected
<1>6. [<<0, 192, 0, 0, n>> EXCEPT ![5] = m] = <<0, 192, 0, 0, m>>
  OBVIOUS
<1> QED
  BY <1>5, <1>6 DEF IsGetResponse, GetResponse

LEMMA CodeRefits ==
  ASSUME PrefixInv, RejectsMalformed \/ ReadsStatus \/ Reissues \/ FetchesMore \/ Finishes
  PROVE  PrefixInv'
<1>0. /\ Depth > 0 /\ Depth \in 1..Depth /\ Top = stack[Depth] /\ SendInv' /\ given \in Nat
      /\ Top \in Frames /\ Sound(Top) /\ Top.apdu \in Seq(Byte)
      /\ Top.result \in Results /\ Top.status \in Statuses /\ Top.status.n \in Byte
      /\ stack # <<>>
  <2>1. Depth > 0 /\ SendInv'
    BY CodeSound DEF PrefixInv, RejectsMalformed, ReadsStatus, Reissues, FetchesMore, Finishes
  <2>2. Depth \in 1..Depth /\ given \in Nat /\ stack # <<>>
    BY <2>1, StackFacts DEF PrefixInv
  <2> QED
    BY <2>1, <2>2, TopOfStack DEF PrefixInv, SendInv, Frames, Statuses, Top
<1>1. PICK at : Fitted(at)
  BY <1>0 DEF PrefixInv, Pieced
<1>2. Top.pc # "reissued" =>
        /\ FrameFits(Top, at[Depth]) /\ Follows(Top.result, at[Depth])
        /\ at[Depth] <= at[Depth + 1] /\ Upto(Top.result, at[Depth]) = at[Depth + 1]
        /\ at[Depth] \in Nat /\ at[Depth + 1] \in Nat /\ at[Depth + 1] <= given
        /\ open \/ ~overtaken => at[Depth + 1] = given
  <2>1. FrameFits(Top, at[Depth]) /\ at[Depth + 1] = Upto(Live(Top), at[Depth])
    BY <1>0, <1>1 DEF Fitted
  <2>2. Depth \in 1..(Depth + 1) /\ Depth + 1 \in 1..(Depth + 1)
    BY <1>0
  <2>3. Top.pc # "reissued" => Live(Top) = Top.result
    BY DEF Live
  <2> QED
    BY <1>1, <2>1, <2>2, <2>3 DEF Fitted, FrameFits
<1>3. Delivered
  BY <1>0 DEF PrefixInv, Pieced
<1>4. CASE RejectsMalformed
  <2>1. Failed # Success
    BY DEF Failed, Success, Status
  <2> QED
    BY <1>0, <1>1, <1>2, <1>4, <2>1, StatusesMade, ReturnRefits DEF RejectsMalformed
<1>5. CASE ReadsStatus
  <2> DEFINE f == [Top EXCEPT !.pc = "check", !.status = sw]
  <2>1. sw \in Statuses /\ Top.pc = "sent" /\ stack' = TopBecomes(f) /\ given' = given
    BY <1>5 DEF ReadsStatus, PrefixInv, SendInv, RestOK
  <2>2. /\ f \in Frames /\ f.pc = "check" /\ f.status = sw
        /\ f.result = Top.result /\ f.apdu = Top.apdu
    BY <1>0, <2>1 DEF Frames, Pcs
  <2>3. Sound(f)
    BY <1>0, <2>1, <2>2 DEF Sound
  <2>4. /\ FrameFits(f, at[Depth]) /\ f.pc # "reissued"
        /\ Upto(f.result, at[Depth]) <= given'
        /\ (open' \/ ~overtaken' => Upto(f.result, at[Depth]) = given')
    <3>1. Live(f) = Top.result /\ Live(Top) = Top.result
      BY <2>1, <2>2 DEF Live
    <3>2. given' = given /\ open' = open /\ overtaken' = overtaken /\ Top.pc # "reissued"
      BY <1>5 DEF ReadsStatus
    <3> HIDE DEF f
    <3> QED
      BY <1>2, <2>2, <3>1, <3>2 DEF FrameFits
  <2>5. (\E new : Fitted(new)') /\ Depth' = Depth /\ Top' = f
    <3> HIDE DEF f
    <3> QED
      BY <1>0, <1>1, <2>1, <2>2, <2>3, <2>4, TopRefits DEF PrefixInv
  <2>6. Delivered'
    <3> HIDE DEF f
    <3> QED
      BY <1>3, <1>5, <2>1, <2>2, <2>5 DEF Delivered, Empty, ReadsStatus
  <2>7. Ended'
    <3>1. stack' # <<>>
      BY <1>0, <2>5 DEF Depth
    <3> QED
      BY <1>5, <3>1 DEF PrefixInv, Ended, ReadsStatus
  <2> QED
    BY <1>0, <2>5, <2>6, <2>7 DEF PrefixInv, Pieced
<1>6. ASSUME NEW pc \in {"reissued", "fetching"}, NEW apdu \in Seq(Byte), NEW r \in Results,
             Calls(pc, apdu, r), Top.pc \notin {"start", "reissued"},
             r = IF pc = "reissued" THEN Top.result ELSE <<>>,
             r = <<>> \/ (overtaken /\ ~open),
             pc = "reissued" /\ ~IsGetResponse(apdu) => at[Depth] = 0,
             pc = "fetching" => IsGetResponse(apdu)
      PROVE  PrefixInv'
  <2>1. (\E new : Fitted(new)') /\ Depth' = Depth + 1 /\ Top' = Frame(apdu, r)
    BY <1>0, <1>1, <1>6, CallRefits DEF PrefixInv
  <2>2. Delivered'
    <3>1. Top'.pc = "start" /\ Top'.result = r /\ overtaken' = overtaken /\ open' = open
      BY <1>6, <2>1 DEF Frame, Calls
    <3> QED
      BY <1>6, <3>1 DEF Delivered, Empty
  <2>3. Ended'
    <3>1. stack' # <<>>
      BY <1>0, <2>1 DEF Depth
    <3> QED
      BY <1>6, <3>1 DEF PrefixInv, Ended, Calls
  <2> QED
    BY <1>0, <2>1, <2>2, <2>3 DEF PrefixInv, Pieced
<1>7. CASE Reissues
  <2> DEFINE again == Corrected(Top.apdu, Top.status.n)
  <2>1. Class(Top.apdu) # "ERROR"
    BY <1>0, <1>7 DEF Reissues, Sound
  <2>2. again \in Seq(Byte)
    BY <1>0, <2>1, CorrectedType
  <2>3. Empty(Top)
    BY <1>3, <1>7 DEF Reissues, Delivered
  <2>4. ~IsGetResponse(again) => at[Depth] = 0
    <3>1. ~IsGetResponse(again) => ~IsGetResponse(Top.apdu)
      BY <1>0, GetResponseCorrected
    <3> QED
      BY <1>2, <1>7, <3>1 DEF Reissues, FrameFits
  <2>5. Calls("reissued", again, Top.result) /\ Top.pc \notin {"start", "reissued"}
    BY <1>7 DEF Reissues
  <2> HIDE DEF again
  <2> QED
    BY <1>0, <1>6, <2>2, <2>3, <2>4, <2>5 DEF Empty
<1>8. CASE FetchesMore
  <2>1. GetResponse(Top.status.n) \in Seq(Byte) /\ IsGetResponse(GetResponse(Top.status.n))
    BY <1>0 DEF GetResponse, IsGetResponse, Byte
  <2>2. Calls("fetching", GetResponse(Top.status.n), <<>>) /\ Top.pc \notin {"start", "reissued"}
    BY <1>8 DEF FetchesMore
  <2> QED
    BY <1>6, <2>1, <2>2, EmptyResult
<1>9. CASE Finishes
  <2>1. Top.status = Success => overtaken \/ given = total
    BY <1>3, <1>9 DEF Finishes, Delivered
  <2>2. Return(Top.status, Top.result)
    BY <1>9 DEF Finishes
  <2>3. Top.pc # "reissued"
    BY <1>9 DEF Finishes
  <2> QED
    BY <1>0, <1>1, <1>2, <1>9, <2>1, <2>2, <2>3, ReturnRefits DEF Finishes
<1> QED
  BY <1>4, <1>5, <1>7, <1>8, <1>9

-------------------------------------------------------------------------------
THEOREM PrefixInvariant == Spec => []PrefixInv
<1>1. Init => PrefixInv
  <2> SUFFICES ASSUME Init PROVE PrefixInv
    OBVIOUS
  <2>1. stack = <<>> /\ outcome = None /\ Depth = 0
    BY DEF Init, Depth
  <2>2. Ended
    BY <2>1 DEF Ended, None, Consecutive, Failed, Success, Status
  <2> QED
    BY <2>1, <2>2, InitSound DEF PrefixInv, Pieced
<1>2. PrefixInv /\ [Next]_vars => PrefixInv'
  <2> SUFFICES ASSUME PrefixInv, [Next]_vars PROVE PrefixInv'
    OBVIOUS
  <2>1. CASE CardStep
    BY <2>1, CardSound, CardRefits DEF PrefixInv
  <2>2. CASE RejectsMalformed \/ ReadsStatus \/ Reissues \/ FetchesMore \/ Finishes
    BY <2>2, CodeRefits
  <2>3. CASE Interrupted
    BY <2>3, InterruptedSound, InterruptedRefits DEF PrefixInv
  <2>4. ASSUME NEW c \in Commands, Send(c) PROVE PrefixInv'
    BY <2>4, SendSound, SendRefits DEF PrefixInv
  <2>5. CASE UNCHANGED vars
    <3>1. SendInv'
      BY <2>5 DEF vars, PrefixInv, SendInv, RestOK, OthersWait, StatusIsFinal
    <3>2. Depth' = Depth /\ Top' = Top
      BY <2>5 DEF vars, Depth, Top
    <3>3. ASSUME NEW at, Fitted(at) PROVE Fitted(at)'
      BY <2>5, <3>2, <3>3 DEF vars, Fitted
    <3> QED
      BY <2>5, <3>1, <3>2, <3>3 DEF vars, PrefixInv, Pieced, Delivered, Empty, Ended
  <2> QED
    BY <2>1, <2>2, <2>3, <2>4, <2>5 DEF Next, Step
<1> QED
  BY <1>1, <1>2, PTL DEF Spec

(***************************************************************************)
(* What card.send() returns is a beginning of the card's response, in      *)
(* order and without repetition, for any command, any lengths of response, *)
(* any number of pieces and corrections, whatever error or other send cuts *)
(* in.                                                                     *)
(***************************************************************************)
THEOREM ReturnsPrefix == Spec => []ResultIsPrefix
<1>1. PrefixInv => ResultIsPrefix
  BY DEF PrefixInv, Ended, ResultIsPrefix
<1> QED
  BY <1>1, PrefixInvariant, PTL

(***************************************************************************)
(* When it returns 9000, and no other send left that status, the result is *)
(* the whole response.                                                     *)
(***************************************************************************)
THEOREM SuccessReturnsAll == Spec => []SuccessIsComplete
<1>1. Upto(outcome.result, 0) = Reaches(outcome.result)
  BY DEF Upto, Reaches
<1>2. PrefixInv => SuccessIsComplete
  BY <1>1 DEF PrefixInv, Ended, SuccessIsComplete
<1> QED
  BY <1>2, PrefixInvariant, PTL

===============================================================================

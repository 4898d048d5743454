----------------------------- MODULE BytePromise ------------------------------
(***************************************************************************)
(* What the bytes library of Lua promises to a script, in terms of the     *)
(* sequence of elements that a byte string is.                             *)
(***************************************************************************)
EXTENDS Integers, Sequences, SequencesExt

\* base to the power of n.
Power(base, n) ==
  LET power[k \in Nat] == IF k = 0 THEN 1 ELSE base * power[k - 1] IN power[n]

\* The number that elements are the digits of, in the base 2^width.
NumberOf(s, width) ==
  LET sum[k \in 0 .. Len(s)] == IF k = 0 THEN 0 ELSE sum[k - 1] * (2 ^ width) + s[k]
  IN  sum[Len(s)]

Fitted(s, width) == [i \in DOMAIN s |-> s[i] % (2 ^ width)]

\* The elements that fill s up to a multiple of block.
Filler(s, block, x, width) ==
  Fitted([i \in 1 .. (block - (Len(s) % block)) % block |-> x], width)

\* The conversion keeps the number, and takes as many elements as hold all
\* bits of the string.
Converted(s, from, to) ==
  LET n == NumberOf(s, from)
      count == (Len(s) * from + to - 1) \div to
  IN  [k \in 1 .. count |-> (n \div Power(2 ^ to, count - k)) % (2 ^ to)]

\* The elements from start to end, both of which count from the end of the
\* string when negative; Nothing when there can be none.
Between(s, start, end, Nothing) ==
  LET index(i) == IF i < 0 THEN Len(s) + i ELSE i
  IN  IF index(start) < 0 \/ index(start) > Len(s) \/ index(start) > index(end) THEN Nothing
      ELSE [k \in 1 .. Cardinality({i \in 1 .. Len(s) : i - 1 \in index(start) .. index(end)}) |->
              s[index(start) + k]]

\* The elements from i on replaced, and what is left over appended.
Replaced(s, i, elems, width) ==
  [k \in 1 .. (IF i + Len(elems) > Len(s) THEN i + Len(elems) ELSE Len(s)) |->
     IF k > i /\ k <= i + Len(elems) THEN Fitted(elems, width)[k - i] ELSE s[k]]

Reversed(s) == Reverse(s)

\* The number written with decimal digits, without leading zeros; most is as
\* many as it can need.
InDecimal(n, most) ==
  LET length == CHOOSE k \in 1 .. most : n < Power(10, k) /\ (k = 1 \/ n >= Power(10, k - 1))
  IN  [i \in 1 .. length |-> (n \div Power(10, length - i)) % 10]
===============================================================================

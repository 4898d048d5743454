--------------------------------- MODULE Apdu ---------------------------------
(***************************************************************************)
(* Command APDUs: how iso7816_describe_apdu() reads one, how card.send()   *)
(* corrects its length field, and, as the reference both are compared      *)
(* with, how ISO 7816-3 puts the seven classes of commands together.       *)
(***************************************************************************)
EXTENDS Integers, Sequences

Byte == 0..255

Classes == {"1", "2S", "3S", "4S", "2E", "3E", "4E"}

\* The classes that end with an expected length, and those with data.
WithLe == {"2S", "4S", "2E", "4E"}
WithData == {"3S", "4S", "3E", "4E"}
Extended == {"2E", "3E", "4E"}

-------------------------------------------------------------------------------
(***************************************************************************)
(* The reference: a command with header h (CLA INS P1 P2), data d and      *)
(* expected length le, in each class.                                      *)
(***************************************************************************)
ShortLength(n) == <<n>>
LongLength(n) == <<0, n \div 256, n % 256>>

LengthField(class, n) ==
  IF class \in Extended THEN LongLength(n) ELSE ShortLength(n)

LcField(class, lc) == IF class \in WithData THEN LengthField(class, lc) ELSE <<>>

LeField(class, le) == IF class \in WithLe THEN LengthField(class, le) ELSE <<>>

Built(class, h, d, le) == h \o LcField(class, Len(d)) \o d \o LeField(class, le)

MaxLength(class) == IF class \in Extended THEN 65535 ELSE 255

\* The data and the expected length that a class can carry.
Fits(class, d, le) ==
  /\ class \in WithData => Len(d) \in 1..MaxLength(class)
  /\ class \notin WithData => d = <<>>
  /\ class \in WithLe => le \in 0..MaxLength(class)
  /\ class \notin WithLe => le = 0

-------------------------------------------------------------------------------
(***************************************************************************)
(* iso7816_describe_apdu(): the class is told from the length of the       *)
(* command and from its fifth byte, where a zero announces an extended     *)
(* length.                                                                 *)
(***************************************************************************)
ExtendedLc(apdu) == 256 * apdu[6] + apdu[7]

ShortClass(apdu) ==
  IF Len(apdu) = apdu[5] + 5 THEN "3S"
  ELSE IF Len(apdu) = apdu[5] + 6 THEN "4S"
  ELSE "ERROR"

ExtendedClass(apdu) ==
  IF Len(apdu) < 7 THEN "ERROR"
  ELSE IF Len(apdu) = 7 THEN "2E"
  ELSE IF Len(apdu) = ExtendedLc(apdu) + 7 THEN "3E"
  ELSE IF Len(apdu) = ExtendedLc(apdu) + 10 /\ apdu[Len(apdu) - 2] = 0 THEN "4E"
  ELSE "ERROR"

Class(apdu) ==
  IF Len(apdu) < 4 THEN "ERROR"
  ELSE IF Len(apdu) = 4 THEN "1"
  ELSE IF Len(apdu) = 5 THEN "2S"
  ELSE IF apdu[5] > 0 THEN ShortClass(apdu)
  ELSE ExtendedClass(apdu)

Lc(apdu) ==
  IF Class(apdu) \notin WithData THEN 0
  ELSE IF Class(apdu) \in Extended THEN ExtendedLc(apdu)
  ELSE apdu[5]

Le(apdu) ==
  IF Class(apdu) \notin WithLe THEN 0
  ELSE IF Class(apdu) \in Extended THEN 256 * apdu[Len(apdu) - 1] + apdu[Len(apdu)]
  ELSE apdu[Len(apdu)]

\* The data field of a well-formed command.
DataOf(apdu) ==
  LET before == IF Class(apdu) \in Extended THEN 7 ELSE 5
  IN  SubSeq(apdu, before + 1, before + Lc(apdu))

-------------------------------------------------------------------------------
(***************************************************************************)
(* The command that luax_card_send() issues again after status 6Cxx: an    *)
(* extended expected length loses two bytes, then the last byte of the     *)
(* command becomes SW2, whatever that byte stood for.                      *)
(***************************************************************************)
\* le_len = 3 in the descriptor.
HasLongLe(apdu) == Class(apdu) \in {"2E", "4E"}

Shortened(apdu) == IF HasLongLe(apdu) THEN SubSeq(apdu, 1, Len(apdu) - 2) ELSE apdu

Corrected(apdu, sw2) ==
  [Shortened(apdu) EXCEPT ![Len(Shortened(apdu))] = sw2]

\* The GET RESPONSE command, always on the basic channel.
GetResponse(sw2) == <<0, 192, 0, 0, sw2>>
===============================================================================

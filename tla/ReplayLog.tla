------------------------------ MODULE ReplayLog ------------------------------
(***************************************************************************)
(* The exchange log of replay.c: a list of records, each either an exchange*)
(* (CARDREPLAY_COMMAND: query, status word and response of the card) or a  *)
(* reset (CARDREPLAY_RESET: the ATR the card gave).  Status word and       *)
(* response always travel together, so they are one "answer".              *)
(***************************************************************************)
EXTENDS RecordList

CONSTANTS
  Queries,      \* command APDUs
  Answers,      \* pairs of a status word and a response
  Atrs          \* answers to reset

Exchange(q, a) == [type |-> "COMMAND", query |-> q, answer |-> a]
ResetMark(r)   == [type |-> "RESET", atr |-> r]

Exchanges  == [type : {"COMMAND"}, query : Queries, answer : Answers]
ResetMarks == [type : {"RESET"}, atr : Atrs]
Records    == Exchanges \cup ResetMarks

IsReset(log, i) == log[i].type = "RESET"
IsAnswerTo(log, i, q) == log[i].type = "COMMAND" /\ log[i].query = q

\* cardreplay_after_atr(): the first record of the session opened by atr.
\* Mistake: the reset itself is taken for the first record of its session.
SessionFromReset(log, atr) == atr
AfterAtr(log, atr) == IF atr = NULL THEN NULL ELSE NextOf(log, atr)

\* The record tried after record i: its successor, or the start of the session.
NextOrWrap(log, atr, i) ==
  IF NextOf(log, i) # NULL THEN NextOf(log, i) ELSE AfterAtr(log, atr)

(***************************************************************************)
(* Positions of the session a reset opens: atr + 1 up to and including the *)
(* reset that closes it, or up to the end of the log.                      *)
(***************************************************************************)
InSession(log, atr, p) ==
  /\ atr < p /\ p <= Len(log)
  /\ \A k \in (atr + 1) .. (p - 1) : ~IsReset(log, k)

\* The last exchange of that session; atr itself when it has none.
SessionEnd(log, atr) ==
  CHOOSE e \in atr .. Len(log) :
    /\ \A k \in (atr + 1) .. e : ~IsReset(log, k)
    /\ e = Len(log) \/ IsReset(log, e + 1)
==============================================================================

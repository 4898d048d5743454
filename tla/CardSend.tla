------------------------------- MODULE CardSend -------------------------------
(***************************************************************************)
(* card.send() of lua_card.c: luax_card_send() sends a command, calls      *)
(* itself with the corrected command when the card answers 6Cxx (wrong     *)
(* length), and with GET RESPONSE when it answers 61xx (more data), and    *)
(* puts the pieces together.  The calls are a stack of frames.             *)
(*                                                                         *)
(* The card is the environment: it has a response of `total' bytes, which  *)
(* it gives in pieces, an interval of byte numbers each.  Another send     *)
(* (scratchpad, button) may run whenever this one logs or calls back; it   *)
(* makes the card drop what was left to fetch, and if it comes between the *)
(* exchange and the reading of reader->sw it leaves its own status there:  *)
(* the final one, or 6Cxx, if what it would send again cannot be parsed.   *)
(***************************************************************************)
EXTENDS Apdu

CONSTANTS
  Commands,        \* what scripts send: [class, header, data, le]
  Totals,          \* lengths of responses
  Announced,       \* lengths that the card announces with 61xx, or others with 6Cxx
  WrongLengthFor,  \* the classes of commands that the card answers with 6Cxx
  MaxInterrupts,   \* how many other sends may run inside of one
  NoCommand

ASSUME CommandsAssumption ==
  /\ Commands \subseteq [class : Classes, header : Seq(Byte), data : Seq(Byte), le : Nat]
  /\ \A c \in Commands : Len(c.header) = 4 /\ Fits(c.class, c.data, c.le)
  /\ NoCommand \notin Commands

ASSUME BoundsAssumption ==
  Totals \subseteq Nat /\ Announced \subseteq 1..256 /\ MaxInterrupts \in Nat

VARIABLES
  script,      \* the command of the send that is running or ran last
  total,       \* length of the card's response to it
  given,       \* how many of its bytes the card gave
  open,        \* the card holds the rest for GET RESPONSE
  sw,          \* reader->sw
  stack,       \* the running calls of luax_card_send(), innermost last
  outcome,     \* what card.send() returned to the script
  overtaken,   \* another send left its status in sw
  interrupts

vars == <<script, total, given, open, sw, stack, outcome, overtaken, interrupts>>

Status(kind, n) == [kind |-> kind, n |-> n]

Statuses == [kind : {"OK", "REFUSED", "FAILED", "61", "6C"}, n : Byte]

Success == Status("OK", 0)      \* 9000
Refused == Status("REFUSED", 0) \* an error status of the card
Failed  == Status("FAILED", 0)  \* CARDPEEK_ERROR_SW

Final(s) == s.kind \notin {"61", "6C"}

\* A piece of the response: the bytes from..to.
Piece(from, to) == [from |-> from, to |-> to]

Frame(apdu, result) ==
  [apdu |-> apdu, result |-> result, pc |-> "start", status |-> Failed]

None == [status |-> Failed, result |-> <<>>]

Init ==
  /\ script = NoCommand /\ total = 0 /\ given = 0 /\ open = FALSE
  /\ sw = Failed /\ stack = <<>> /\ outcome = None
  /\ overtaken = FALSE /\ interrupts = 0

Depth == Len(stack)
Top == stack[Depth]
TopBecomes(frame) == [stack EXCEPT ![Depth] = frame]

-------------------------------------------------------------------------------
\* subr_card_send()
Send(c) ==
  /\ stack = <<>>
  /\ script' = c
  /\ total' \in Totals
  /\ given' = 0 /\ open' = FALSE
  /\ stack' = <<Frame(Built(c.class, c.header, c.data, c.le), <<>>)>>
  /\ outcome' = None /\ overtaken' = FALSE /\ interrupts' = 0
  /\ UNCHANGED sw

-------------------------------------------------------------------------------
(***************************************************************************)
(* The card.  It takes a command for the one of the script when header and *)
(* data are the same; the expected length may differ.  A GET RESPONSE that *)
(* a script sends itself starts the response, the next one goes on with it.*)
(***************************************************************************)
IsGetResponse(apdu) == \E n \in Byte : apdu = GetResponse(n)

IsScripted(apdu) ==
  /\ SubSeq(apdu, 1, 4) = script.header
  /\ DataOf(apdu) = script.data

HasLe(apdu) == Class(apdu) \in WithLe

Wanted(apdu) ==
  IF Le(apdu) > 0 THEN Le(apdu)
  ELSE IF Class(apdu) \in Extended THEN 65536
  ELSE 256

Pieces(from, n) == IF n = 0 THEN <<>> ELSE <<Piece(from + 1, from + n)>>

\* The card gives n bytes of the response from byte `from' on, and says
\* whether there is more to fetch.
Gives(from, n) ==
  /\ given' = from + n
  /\ open' = (from + n < total)
  /\ IF open' THEN \E k \in Announced : sw' = Status("61", k % 256) ELSE sw' = Success
  /\ stack' = TopBecomes([Top EXCEPT !.pc = "sent", !.result = Pieces(from, n)])

\* The card wants a command again with the length it has left from `from' on.
Corrects(from) ==
  /\ total - from \in 1..256
  /\ given' = from /\ open' = TRUE
  /\ sw' = Status("6C", (total - from) % 256)
  /\ stack' = TopBecomes([Top EXCEPT !.pc = "sent", !.result = <<>>])

Least(m, n) == IF m < n THEN m ELSE n

Answers(from) ==
  LET apdu == Top.apdu left == total - from
  IN  \/ HasLe(apdu) /\ Gives(from, Least(Wanted(apdu), left))
      \/ ~IsGetResponse(apdu) /\ (HasLe(apdu) => left > 0) /\ Gives(from, 0)
      \/ /\ Class(apdu) \in WrongLengthFor
         /\ HasLe(apdu) => Wanted(apdu) # left
         /\ Corrects(from)

WellFormed == Depth > 0 /\ Top.pc = "start" /\ Class(Top.apdu) # "ERROR"

\* cardreader_transmit() and the answer of the card, to the script's command or
\* to GET RESPONSE; a command that is neither is refused.
CardAnswers ==
  /\ WellFormed
  /\ \/ IsScripted(Top.apdu) /\ (IsGetResponse(Top.apdu) => given = 0) /\ Answers(0)
     \/ IsGetResponse(Top.apdu) /\ open /\ Answers(given)
  /\ UNCHANGED <<script, total, outcome, overtaken, interrupts>>

CardRefuses ==
  /\ WellFormed
  /\ sw' = Refused /\ open' = FALSE
  /\ stack' = TopBecomes([Top EXCEPT !.pc = "sent", !.result = <<>>])
  /\ UNCHANGED <<script, total, given, outcome, overtaken, interrupts>>

\* The driver reports an error and does not touch the result.
TransmitFails ==
  /\ WellFormed
  /\ sw' = Failed /\ open' = FALSE
  /\ stack' = TopBecomes([Top EXCEPT !.pc = "sent"])
  /\ UNCHANGED <<script, total, given, outcome, overtaken, interrupts>>

\* What another send leaves in reader->sw.  An extended command with data that
\* is answered 6Cxx cannot be parsed when it is shortened: nothing is sent
\* again, and that status stays.
OthersLeave == {Success, Refused, Failed} \cup {Status("6C", k % 256) : k \in Announced}

\* Another send runs to its end within a log line or the callback.
Interrupted ==
  /\ Depth > 0 /\ Top.pc \in {"start", "sent", "check"}
  /\ interrupts < MaxInterrupts
  /\ interrupts' = interrupts + 1
  /\ open' = FALSE
  /\ IF Top.pc = "sent"
     THEN sw' \in OthersLeave /\ overtaken' = TRUE
     ELSE UNCHANGED <<sw, overtaken>>
  /\ UNCHANGED <<script, total, given, stack, outcome>>
-------------------------------------------------------------------------------
(***************************************************************************)
(* The code of luax_card_send().  Return(s, r) leaves the innermost call   *)
(* with status s and its result buffer holding r.  A corrected command was *)
(* given the caller's own buffer; GET RESPONSE was given one whose content *)
(* the caller appends to its own.                                          *)
(***************************************************************************)
\* Mistake: the last piece replaces what was there.
LastPieceOnly(result, more) == more

\* Mistake: the last piece goes to the front.
LastPieceFirst(result, more) == more \o result

Appended(result, more) == result \o more

\* Mistake: the caller looks at its own status again, not at the one returned.
ResumedUnaware(caller, s, r) ==
  IF caller.pc = "reissued"
  THEN [caller EXCEPT !.pc = "done", !.status = s, !.result = r]
  ELSE [caller EXCEPT !.pc = "loop", !.result = Appended(caller.result, r)]

Resumed(caller, s, r) ==
  IF caller.pc = "reissued"
  THEN [caller EXCEPT !.pc = "done", !.status = s, !.result = r]
  ELSE [caller EXCEPT !.pc = "loop", !.status = s, !.result = Appended(caller.result, r)]

Return(s, r) ==
  IF Depth = 1
  THEN /\ stack' = <<>>
       /\ outcome' = [status |-> s, result |-> r]
  ELSE /\ stack' = [SubSeq(stack, 1, Depth - 1) EXCEPT
                      ![Depth - 1] = Resumed(stack[Depth - 1], s, r)]
       /\ UNCHANGED outcome

\* The command could not be parsed: no exchange, the buffer is left alone.
RejectsMalformed ==
  /\ Depth > 0 /\ Top.pc = "start" /\ Class(Top.apdu) = "ERROR"
  /\ Return(Failed, Top.result)
  /\ UNCHANGED <<script, total, given, open, sw, overtaken, interrupts>>

\* cardreader_transmit() returns reader->sw.
ReadsStatus ==
  /\ Depth > 0 /\ Top.pc = "sent"
  /\ stack' = TopBecomes([Top EXCEPT !.pc = "check", !.status = sw])
  /\ UNCHANGED <<script, total, given, open, sw, outcome, overtaken, interrupts>>

Calls(pc, apdu, result) ==
  /\ stack' = Append(TopBecomes([Top EXCEPT !.pc = pc]), Frame(apdu, result))
  /\ UNCHANGED <<script, total, given, open, sw, outcome, overtaken, interrupts>>

Reissues ==
  /\ Depth > 0 /\ Top.pc = "check" /\ Top.status.kind = "6C"
  /\ Calls("reissued", Corrected(Top.apdu, Top.status.n), Top.result)

\* Mistake: 6100 is taken for nothing left, where it stands for 256 bytes or more.
MoreUnlessZero(s) == s.kind = "61" /\ s.n # 0

MoreToFetch(s) == s.kind = "61"

FetchesMore ==
  /\ Depth > 0 /\ Top.pc \in {"check", "loop"} /\ MoreToFetch(Top.status)
  /\ Calls("fetching", GetResponse(Top.status.n), <<>>)

Finishes ==
  /\ Depth > 0
  /\ \/ Top.pc = "check" /\ Top.status.kind # "6C" /\ ~MoreToFetch(Top.status)
     \/ Top.pc = "loop" /\ ~MoreToFetch(Top.status)
     \/ Top.pc = "done"
  /\ Return(Top.status, Top.result)
  /\ UNCHANGED <<script, total, given, open, sw, overtaken, interrupts>>

-------------------------------------------------------------------------------
CardStep == CardAnswers \/ CardRefuses \/ TransmitFails

Step == CardStep \/ RejectsMalformed \/ ReadsStatus \/ Reissues \/ FetchesMore \/ Finishes

Next == Step \/ Interrupted \/ \E c \in Commands : Send(c)

Spec == Init /\ [][Next]_vars

\* A call in progress goes on: the interpreter runs nothing else, a driver call
\* returns, and an interrupting send comes to its end.
FairSpec == Spec /\ WF_vars(Step)

-------------------------------------------------------------------------------
Pcs == {"start", "sent", "check", "reissued", "fetching", "loop", "done"}

Results == Seq([from : Nat, to : Nat])

Frames == [apdu : Seq(Byte), result : Results, pc : Pcs, status : Statuses]

\* The stack holds parsable byte strings and pieces, for the code that reads them.
SendTypeOK ==
  /\ script \in Commands \cup {NoCommand}
  /\ total \in Nat /\ given \in Nat /\ open \in BOOLEAN
  /\ sw \in Statuses
  /\ stack \in Seq(Frames)
  /\ outcome \in [status : Statuses, result : Results]
  /\ overtaken \in BOOLEAN /\ interrupts \in 0..MaxInterrupts

\* The pieces follow each other from the first byte of the response on.
Consecutive(pieces) ==
  \A i \in 1..Len(pieces) :
    pieces[i].from = (IF i = 1 THEN 1 ELSE pieces[i - 1].to + 1)

Reaches(pieces) == IF pieces = <<>> THEN 0 ELSE pieces[Len(pieces)].to

\* A script never sees 61xx or 6Cxx: the recursion ends with a status that
\* asks for nothing, whoever else used the card meanwhile.
StatusIsFinal == Final(outcome.status)

\* What card.send() returns is a beginning of the card's response, its bytes
\* in order and each once, whatever error or interruption ended the send.
ResultIsPrefix == Consecutive(outcome.result)

\* Success means the whole response, unless another send left its status.
SuccessIsComplete ==
  stack = <<>> /\ outcome.status = Success /\ ~overtaken
    => Consecutive(outcome.result) /\ Reaches(outcome.result) = total

\* "Re-issue with right length": a command issued again after 6Cxx is the
\* command that was refused but for its length, which is the one the card gave.
ReissueOnlyCorrectsLength ==
  \A i \in 2..Depth :
    stack[i - 1].pc = "reissued" /\ Class(stack[i].apdu) # "ERROR" =>
      LET again == stack[i].apdu first == stack[i - 1].apdu
      IN  /\ SubSeq(again, 1, 4) = SubSeq(first, 1, 4)
          /\ DataOf(again) = DataOf(first)
          /\ Le(again) = stack[i - 1].status.n

\* Every send comes to its end, with a card that keeps to the announced lengths.
SendReturns == stack # <<>> ~> stack = <<>>
===============================================================================

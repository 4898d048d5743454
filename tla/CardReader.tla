------------------------------ MODULE CardReader ------------------------------
(***************************************************************************)
(* The reader layer of smartcard.c over a PC/SC reader: it passes calls to *)
(* the driver, records every exchange and reset in a log, and tells the    *)
(* user interface of each through a callback.                              *)
(*                                                                         *)
(* The program has one thread, but both the callback and log_printf() end  *)
(* in ui_update(), which runs pending GTK events; a toolbar button or a    *)
(* command typed in the scratchpad then makes a new reader call while the  *)
(* present one is still on the stack.  So a call is modelled in the pieces *)
(* between two such points, "stack" holds the calls that are out, only the *)
(* innermost one can go on, and a new one may start at any time.           *)
(*                                                                         *)
(* What an exchange or a reset carries does not matter here, only which    *)
(* one it is: driver calls are numbered in the order the card sees them.   *)
(***************************************************************************)
EXTENDS RecordList

CONSTANTS
  MaxCalls,     \* bound on the driver calls that are numbered
  MaxDepth,     \* bound on the calls that are out at a time
  MaxSaves      \* bound on the files saved

ASSUME BoundsAssumption == MaxCalls \in Nat /\ MaxDepth \in Nat /\ MaxSaves \in Nat

VARIABLES
  seen,         \* the number of the last driver call (auxiliary)
  handle,       \* whether the driver has a card: without one nothing answers
  cardlog,      \* reader->cardlog
  cpos,         \* reader->cardlog->pos
  sw,           \* the exchange whose status word reader->sw is, 0 at first
  view,         \* the records shown in the reader tab
  files,        \* the logs saved so far
  stack,        \* the reader calls that are out, innermost last
  result        \* the last transmission that returned: its number, and that of
                \* the exchange whose status word it returned

readerVars == <<seen, handle, cardlog, cpos, sw, view, files, stack, result>>

Kinds == {"RESET", "ANSWERED", "FAILED"}
Entries == [kind : Kinds, nr : Nat]
Entry(kind, nr) == [kind |-> kind, nr |-> nr]

Procs == {"connect", "disconnect", "reset", "transmit", "last_atr", "clear", "save"}
Frames == [call : Procs, at : {"driver", "atr", "shown"}, nr : Nat]

ReaderInit ==
  /\ seen = 0 /\ handle = FALSE
  /\ cardlog = <<>> /\ cpos = NULL
  /\ sw = 0
  /\ view = <<>> /\ files = <<>> /\ stack = <<>>
  /\ result = [own |-> 0, status |-> 0]

\* A new call is made and gets as far as its first yield.
Enters(call, at, nr) ==
  /\ Len(stack) < MaxDepth
  /\ stack' = Append(stack, [call |-> call, at |-> at, nr |-> nr])

Top == stack[Len(stack)]
IsAt(call, at) == stack # <<>> /\ Top.call = call /\ Top.at = at
MovesTo(at) == stack' = [stack EXCEPT ![Len(stack)].at = at]
Returns == stack' = SubSeq(stack, 1, Len(stack) - 1)

DriverCall == seen < MaxCalls /\ seen' = seen + 1

\* cardreplay_add_command() or cardreplay_add_reset(), then the text the
\* callback appends to the reader tab before it yields.
Adds(entry) ==
  /\ cardlog' = Linked(cardlog, cpos, entry)
  /\ cpos' = LinkedPos(cardlog, cpos)
  /\ view' = Append(view, entry)

-------------------------------------------------------------------------------

\* The driver reports what it did through log_printf(), whatever the outcome.
ConnectBegins ==
  /\ DriverCall
  /\ handle' \in {handle, TRUE}
  /\ Enters("connect", "driver", seen')
  /\ UNCHANGED <<cardlog, cpos, sw, view, files, result>>

WarmResetBegins ==
  /\ DriverCall
  /\ Enters("reset", "driver", seen')
  /\ UNCHANGED <<handle, cardlog, cpos, sw, view, files, result>>

\* The ATR is asked for.  cardreader_last_atr() logs it, the driver logs when
\* it cannot get it: there is another yield before the reset is recorded.
AtrLogged ==
  /\ IsAt("connect", "driver") \/ IsAt("reset", "driver")
  /\ MovesTo("atr")
  /\ UNCHANGED <<seen, handle, cardlog, cpos, sw, view, files, result>>

\* A reset is recorded even if the driver could not connect or reset.
RecordsReset ==
  /\ IsAt("connect", "driver") \/ IsAt("connect", "atr") \/ IsAt("reset", "atr")
  /\ Adds(Entry("RESET", Top.nr))
  /\ MovesTo("shown")
  /\ UNCHANGED <<seen, handle, sw, files, result>>

LastAtrBegins ==
  /\ Enters("last_atr", "atr", 0)
  /\ UNCHANGED <<seen, handle, cardlog, cpos, sw, view, files, result>>

\* The disconnection is shown first and yields, then the driver disconnects,
\* or fails to, and logs that.
DisconnectBegins ==
  /\ Enters("disconnect", "shown", 0)
  /\ UNCHANGED <<seen, handle, cardlog, cpos, sw, view, files, result>>

DriverDisconnects ==
  /\ IsAt("disconnect", "shown")
  /\ handle' \in {handle, FALSE}
  /\ MovesTo("driver")
  /\ UNCHANGED <<seen, cardlog, cpos, sw, view, files, result>>

CallEnds ==
  /\ \/ IsAt("connect", "shown") \/ IsAt("reset", "shown")
     \/ IsAt("disconnect", "driver") \/ IsAt("last_atr", "atr")
  /\ Returns
  /\ UNCHANGED <<seen, handle, cardlog, cpos, sw, view, files, result>>

-------------------------------------------------------------------------------

\* The card answered: the driver has nothing to log and the exchange is
\* recorded and shown before anything else can run.
\* Mistake: reader->sw is set by the caller, after the callback.
TransmitKeepsStatus ==
  /\ handle
  /\ DriverCall
  /\ Adds(Entry("ANSWERED", seen'))
  /\ Enters("transmit", "shown", seen')
  /\ UNCHANGED <<handle, sw, files, result>>
TransmitAnswered ==
  /\ handle
  /\ DriverCall
  /\ sw' = seen'
  /\ Adds(Entry("ANSWERED", seen'))
  /\ Enters("transmit", "shown", seen')
  /\ UNCHANGED <<handle, files, result>>

\* A failure is logged, so the driver yields before it returns 0x6FFF.
TransmitFails ==
  /\ DriverCall
  /\ Enters("transmit", "driver", seen')
  /\ UNCHANGED <<handle, cardlog, cpos, sw, view, files, result>>

\* Mistake: the failure is recorded again each time the call goes on.
FailureStaysPending ==
  /\ IsAt("transmit", "driver")
  /\ sw' = Top.nr
  /\ Adds(Entry("FAILED", Top.nr))
  /\ UNCHANGED <<seen, handle, files, stack, result>>
RecordsFailure ==
  /\ IsAt("transmit", "driver")
  /\ sw' = Top.nr
  /\ Adds(Entry("FAILED", Top.nr))
  /\ MovesTo("shown")
  /\ UNCHANGED <<seen, handle, files, result>>

\* cardreader_transmit() returns reader->sw, not what its driver call gave.
TransmitEnds ==
  /\ IsAt("transmit", "shown")
  /\ result' = [own |-> Top.nr, status |-> sw]
  /\ Returns
  /\ UNCHANGED <<seen, handle, cardlog, cpos, sw, view, files>>

-------------------------------------------------------------------------------

\* cardreader_log_clear(): the tab is emptied by the callback, which yields;
\* only then is the log replaced by a new one.
ClearBegins ==
  /\ Enters("clear", "shown", 0)
  /\ view' = <<>>
  /\ UNCHANGED <<seen, handle, cardlog, cpos, sw, files, result>>

\* Mistake: only the tab is cleared.
ClearKeepsLog ==
  /\ IsAt("clear", "shown")
  /\ Returns
  /\ UNCHANGED <<seen, handle, cardlog, cpos, sw, view, files, result>>
ClearEnds ==
  /\ IsAt("clear", "shown")
  /\ cardlog' = <<>> /\ cpos' = NULL
  /\ Returns
  /\ UNCHANGED <<seen, handle, sw, view, files, result>>

SaveBegins ==
  /\ Enters("save", "shown", 0)
  /\ UNCHANGED <<seen, handle, cardlog, cpos, sw, view, files, result>>

\* The file may be refused, and is written otherwise.
SaveEnds ==
  /\ IsAt("save", "shown")
  /\ \/ files' = files
     \/ Len(files) < MaxSaves /\ files' = Append(files, cardlog)
  /\ Returns
  /\ UNCHANGED <<seen, handle, cardlog, cpos, sw, view, result>>

ReaderNext ==
  \/ ConnectBegins \/ WarmResetBegins \/ AtrLogged \/ RecordsReset
  \/ LastAtrBegins \/ DisconnectBegins \/ DriverDisconnects \/ CallEnds
  \/ TransmitAnswered \/ TransmitFails \/ RecordsFailure \/ TransmitEnds
  \/ ClearBegins \/ ClearEnds \/ SaveBegins \/ SaveEnds

ReaderSpec == ReaderInit /\ [][ReaderNext]_readerVars

-------------------------------------------------------------------------------

ReaderTypeOK ==
  /\ seen \in Nat /\ handle \in BOOLEAN
  /\ cardlog \in Seq(Entries) /\ cpos \in 0 .. Len(cardlog)
  /\ sw \in Nat
  /\ view \in Seq(Entries) /\ files \in Seq(Seq(Entries))
  /\ stack \in Seq(Frames)
  /\ result \in [own : Nat, status : Nat]

\* However calls are nested, an answered exchange is recorded behind all that
\* the card saw before it and that is in the log: a saved file replays the
\* answers in the order the card gave them.  Only a reset or a failure, which
\* yield between the driver call and the record, may be recorded late.
AnsweredInOrder ==
  \A i, j \in 1 .. Len(cardlog) :
    i < j /\ cardlog[j].kind = "ANSWERED" => cardlog[i].nr < cardlog[j].nr

\* No driver call is recorded twice, and one that is still to be recorded by
\* its call is not recorded yet.
Pending == {i \in 1 .. Len(stack) : stack[i].call \in {"connect", "reset", "transmit"}
                                    /\ stack[i].at # "shown"}
RecordedOnce ==
  /\ \A i, j \in 1 .. Len(cardlog) : cardlog[i].nr = cardlog[j].nr => i = j
  /\ \A i, j \in Pending : stack[i].nr = stack[j].nr => i = j
  /\ \A i \in Pending, j \in 1 .. Len(cardlog) : stack[i].nr # cardlog[j].nr

IsEndOf(short, long) ==
  /\ Len(short) <= Len(long)
  /\ \A i \in 1 .. Len(short) : short[i] = long[Len(long) - Len(short) + i]

\* What a save would write is the end of what the reader tab shows: nothing is
\* saved that the user does not see.  While a clear is out it is the tab that
\* is the end of the log.
SavedIsShown ==
  \/ IsEndOf(cardlog, view)
  \/ /\ \E i \in 1 .. Len(stack) : stack[i].call = "clear"
     /\ IsEndOf(view, cardlog)

\* A transmission interrupted by others may return the status word of one of
\* them, but never one that is older than its own exchange.
StatusNeverOlder == result.own <= result.status

===============================================================================

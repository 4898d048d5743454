----------------------------- MODULE ReplayPromise -----------------------------
(***************************************************************************)
(* What an emulated card promises, with each call in one step, but for the *)
(* resets that are called before the first connection.  A reset            *)
(* opens a book: the exchanges of its session, in the order they are to be *)
(* tried.  A command is answered by the first exchange of the book for it, *)
(* and the book then opens just behind that exchange, so that repeated     *)
(* commands get the successive recorded answers; a command the book does   *)
(* not hold fails and leaves the book alone.                               *)
(***************************************************************************)
EXTENDS ReplayLog

CONSTANTS Logs, NoAnswer

VARIABLES
  log,          \* the recorded log
  base,         \* the record the session was opened by
  book,         \* the exchanges of the session, next one first
  connected,
  early,        \* resets called before the first connection that have not returned
  reply         \* what the last call returned

vars == <<log, base, book, connected, early, reply>>

\* The exchanges recorded behind record a, up to the next reset.
Session(l, a) == SubSeq(l, a + 1, SessionEnd(l, a))

Init ==
  /\ log \in Logs
  /\ base = NULL /\ book = <<>> /\ connected = FALSE /\ early = 0
  /\ reply.call = "none"

Connect ==
  /\ connected' = TRUE
  /\ IF log = <<>>
     THEN UNCHANGED <<base, book>>
     ELSE base' = 1 /\ book' = Session(log, 1)
  /\ reply'.call = "connect"
  /\ reply'.status = IF log # <<>> /\ IsReset(log, 1) THEN "OK" ELSE "ERROR"
  /\ UNCHANGED <<log, early>>

Disconnect ==
  /\ connected' = FALSE
  /\ reply'.call = "disconnect"
  /\ UNCHANGED <<log, base, book, early>>

FirstAnswer(q, i) ==
  /\ i \in 1 .. Len(book)
  /\ book[i].query = q
  /\ \A k \in 1 .. (i - 1) : book[k].query # q

OpenedBehind(i) == SubSeq(book, i + 1, Len(book)) \o SubSeq(book, 1, i)

Command(q) ==
  /\ reply'.call = "command" /\ reply'.query = q
  /\ \/ /\ connected
        /\ \E i \in 1 .. Len(book) :
             /\ FirstAnswer(q, i)
             /\ book' = OpenedBehind(i)
             /\ reply'.status = "OK" /\ reply'.answer = book[i].answer
     \/ /\ connected => \A i \in 1 .. Len(book) : book[i].query # q
        /\ reply'.status = "ERROR" /\ reply'.answer = NoAnswer
        /\ UNCHANGED book
  /\ UNCHANGED <<log, base, connected, early>>

Opens(r) == base' = r /\ book' = Session(log, r)

NextReset(from, r) ==
  /\ r \in from .. Len(log) /\ r > 0 /\ IsReset(log, r)
  /\ \A k \in from .. (r - 1) : k > 0 => ~IsReset(log, k)

\* A warm reset opens the session that follows in the log, and the same one
\* again when it is the last; it fails when that last session is empty.
WarmReset ==
  /\ reply'.call = "reset"
  /\ \/ /\ log = <<>> \/ (base = Len(log))
        /\ reply'.status = "ERROR"
        /\ UNCHANGED <<base, book>>
     \/ /\ base # NULL /\ base < Len(log)
        /\ \/ \E r \in 1 .. Len(log) : NextReset(base + 1, r) /\ Opens(r)
           \/ /\ \A r \in (base + 1) .. Len(log) : ~IsReset(log, r)
              /\ IsReset(log, base)
              /\ Opens(base)
        /\ reply'.status = "OK"
  /\ UNCHANGED <<log, connected, early>>

\* Before the first connection, other calls may be made within that of a reset.
EarlyReset ==
  /\ base = NULL /\ log # <<>>
  /\ early' = early + 1
  /\ UNCHANGED <<log, base, book, connected, reply>>

\* It starts behind the whole log, whatever was opened within its call: it opens
\* the session of the very last record if that is a reset, else the one the card
\* is in by then again, or the first one of the log if it is still in none.
EarlyResetReturns ==
  /\ early > 0 /\ early' = early - 1
  /\ reply'.call = "reset" /\ reply'.status = "OK"
  /\ IF IsReset(log, Len(log)) THEN Opens(Len(log))
     ELSE \E r \in 1 .. Len(log) : NextReset(IF base = NULL THEN 1 ELSE base, r) /\ Opens(r)
  /\ UNCHANGED <<log, connected>>

Next ==
  \/ Connect \/ Disconnect \/ WarmReset \/ EarlyReset \/ EarlyResetReturns
  \/ \E q \in Queries : Command(q)

Spec == Init /\ [][Next]_vars
================================================================================

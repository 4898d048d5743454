------------------------------ MODULE ReplayCard ------------------------------
(***************************************************************************)
(* The card that drivers/replay_driver.c emulates from a log loaded by     *)
(* cardreplay_new_from_file().  The driver calls are actions; the search   *)
(* loops of cardreplay_run_command() and cardreplay_run_warm_reset() are   *)
(* modelled one iteration at a time, because whether they stop is the      *)
(* question: they walk a list that wraps around.  Nothing else runs while  *)
(* a loop does (the program is single threaded and the loops yield to      *)
(* nobody), hence the guard Idle of every call.  But a warm reset without  *)
(* a reset before it warns of that, and showing the warning runs events,   *)
(* which may make any calls; what it read before the warning is then old.  *)
(***************************************************************************)
EXTENDS ReplayLog

CONSTANTS
  Logs,         \* the logs that may be loaded
  NoQuery,      \* no command is being looked up
  NoAnswer,     \* status 0x6FFF with an empty response
  NoAtr,        \* an empty ATR
  MaxWarned     \* how many resets may be within their warning at a time

ASSUME LogsAssumption == Logs \subseteq Seq(Records)
ASSUME MaxWarnedAssumption == MaxWarned \in Nat
ASSUME NoValueAssumption ==
  NoQuery \notin Queries /\ NoAnswer \notin Answers /\ NoAtr \notin Atrs \cup Queries

VARIABLES
  log,          \* the list from ce->start; never changed once loaded
  pos,          \* ce->pos: the next record to try
  atr,          \* ce->atr: the record of the last reset
  connected,    \* cr->connected
  cardAtr,      \* cr->atr
  op,           \* the loop that is running, "none" between calls
  query,        \* the command being looked up
  cur,          \* cur of the running loop
  warned,       \* cur of the resets that are within their warning, the last one first
  init,         \* init of the running lookup: where it started
  reply         \* what the last call gave its caller

card == <<log, pos, atr, connected, cardAtr>>
loop == <<op, query, cur, init, warned>>
vars == <<log, pos, atr, connected, cardAtr, op, query, cur, init, warned, reply>>

Calls == {"connect", "disconnect", "reset", "command", "none"}
Replies == [call : Calls, query : Queries \cup {NoQuery},
            status : {"OK", "ERROR"}, answer : Answers \cup {NoAnswer}]

Reply(call, status) ==
  [call |-> call, query |-> NoQuery, status |-> status, answer |-> NoAnswer]
CommandReply(q, status, a) ==
  [call |-> "command", query |-> q, status |-> status, answer |-> a]

Idle == op = "none"

(***************************************************************************)
(* A freshly loaded log: each add linked its record behind pos, so pos is  *)
(* the last record, and no reset was run.                                  *)
(***************************************************************************)
Init ==
  /\ log \in Logs
  /\ pos = Len(log) /\ atr = NULL
  /\ connected = FALSE /\ cardAtr = NoAtr
  /\ op = "none" /\ query = NoQuery /\ cur = NULL /\ init = NULL /\ warned = <<>>
  /\ reply = Reply("none", "OK")

-------------------------------------------------------------------------------

(***************************************************************************)
(* replay_connect(): marks the reader connected whatever the cold reset    *)
(* says, and cardreplay_run_cold_reset() moves atr and pos before it looks *)
(* whether the log starts with a reset at all.                             *)
(***************************************************************************)
Connect ==
  /\ Idle
  /\ connected' = TRUE
  /\ \/ /\ log = <<>>
        /\ reply' = Reply("connect", "ERROR")
        /\ UNCHANGED <<pos, atr>>
     \/ /\ log # <<>>
        /\ atr' = 1
        /\ pos' = NextOf(log, 1)
        /\ reply' = Reply("connect", IF IsReset(log, 1) THEN "OK" ELSE "ERROR")
  /\ UNCHANGED <<log, cardAtr, loop>>

Disconnect ==
  /\ Idle
  /\ connected' = FALSE
  /\ reply' = Reply("disconnect", "OK")
  /\ UNCHANGED <<log, pos, atr, cardAtr, loop>>

\* What reading the ATR field of a record yields: an exchange keeps its query
\* where a reset keeps its ATR, and cardreplay_run_last_atr() does not look.
AtrField(record) == IF record.type = "RESET" THEN record.atr ELSE record.query

LastAtr ==
  /\ Idle /\ connected
  /\ cardAtr' = IF atr = NULL THEN NoAtr ELSE AtrField(log[atr])
  /\ UNCHANGED <<log, pos, atr, connected, loop, reply>>

-------------------------------------------------------------------------------

\* A loop ends: its caller gets r, the cursors are forgotten.
Return(r) ==
  /\ op' = "none" /\ query' = NoQuery /\ cur' = NULL /\ init' = NULL
  /\ reply' = r /\ UNCHANGED warned

CommandRefused(q) ==
  /\ Idle
  /\ ~connected \/ log = <<>> \/ pos = NULL
  /\ reply' = CommandReply(q, "ERROR", NoAnswer)
  /\ UNCHANGED <<card, loop>>

CommandBegins(q) ==
  /\ Idle
  /\ connected /\ log # <<>> /\ pos # NULL
  /\ op' = "command" /\ query' = q
  /\ cur' = pos /\ init' = pos
  /\ UNCHANGED <<card, warned, reply>>

\* Mistake: the exchange that answered stays the next one.
FoundStays ==
  /\ op = "command"
  /\ IsAnswerTo(log, cur, query)
  /\ pos' = cur
  /\ Return(CommandReply(query, "OK", log[cur].answer))
  /\ UNCHANGED <<log, atr, connected, cardAtr>>

CommandFound ==
  /\ op = "command"
  /\ IsAnswerTo(log, cur, query)
  /\ pos' = NextOrWrap(log, atr, cur)
  /\ Return(CommandReply(query, "OK", log[cur].answer))
  /\ UNCHANGED <<log, atr, connected, cardAtr>>

\* The record tried next when cur does not answer; a reset closes the session.
Advance == IF IsReset(log, cur) THEN AfterAtr(log, atr) ELSE NextOrWrap(log, atr, cur)

\* The loop condition of cardreplay_run_command().
\* Mistake: coming back to the start is not noticed.
NeverFull(next) == next # NULL
SearchGoesOn(next) == next # init /\ next # NULL

CommandTriesNext ==
  /\ op = "command"
  /\ ~IsAnswerTo(log, cur, query)
  /\ SearchGoesOn(Advance)
  /\ cur' = Advance
  /\ UNCHANGED <<card, op, query, init, warned, reply>>

CommandUnknown ==
  /\ op = "command"
  /\ ~IsAnswerTo(log, cur, query)
  /\ ~SearchGoesOn(Advance)
  /\ Return(CommandReply(query, "ERROR", NoAnswer))
  /\ UNCHANGED card

-------------------------------------------------------------------------------

\* replay_reset() does not ask whether the reader is connected.
ResetRefused ==
  /\ Idle
  /\ log = <<>> \/ pos = NULL
  /\ reply' = Reply("reset", "ERROR")
  /\ UNCHANGED <<card, loop>>

ResetBegins ==
  /\ Idle
  /\ log # <<>> /\ pos # NULL /\ atr # NULL
  /\ op' = "reset" /\ cur' = pos
  /\ UNCHANGED <<card, query, init, warned, reply>>

\* There was no reset before it, and the warning of that runs events.
ResetWarns ==
  /\ Idle /\ Len(warned) < MaxWarned
  /\ log # <<>> /\ pos # NULL /\ atr = NULL
  /\ warned' = <<pos>> \o warned
  /\ UNCHANGED <<card, op, query, cur, init, reply>>

\* The events are done, the search starts where the reset was called.
ResetResumes ==
  /\ Idle /\ warned # <<>>
  /\ op' = "late" /\ cur' = Head(warned) /\ warned' = Tail(warned)
  /\ UNCHANGED <<card, query, init, reply>>

Resetting == op \in {"reset", "late"}

ResetFound ==
  /\ Resetting
  /\ IsReset(log, cur)
  /\ atr' = cur
  /\ pos' = NextOf(log, cur)
  /\ Return(Reply("reset", "OK"))
  /\ UNCHANGED <<log, connected, cardAtr>>

\* At the end of the log the search restarts from the last reset, or from the
\* beginning when there was none; it has no other way out than a reset record.
ResetTriesNext ==
  /\ Resetting
  /\ ~IsReset(log, cur)
  /\ cur' = IF NextOf(log, cur) # NULL THEN NextOf(log, cur)
            ELSE IF atr # NULL THEN atr ELSE 1
  /\ UNCHANGED <<card, op, query, init, warned, reply>>

-------------------------------------------------------------------------------

SearchStep == CommandFound \/ CommandTriesNext \/ CommandUnknown \/ ResetFound \/ ResetTriesNext

Next ==
  \/ Connect \/ Disconnect \/ LastAtr
  \/ \E q \in Queries : CommandRefused(q) \/ CommandBegins(q)
  \/ ResetRefused \/ ResetBegins \/ ResetWarns \/ ResetResumes
  \/ SearchStep

Spec == Init /\ [][Next]_vars

\* A loop that was entered keeps iterating: nothing can preempt it.  Callers
\* owe nothing, so no fairness is put on the calls themselves.
FairSpec == Spec /\ WF_vars(SearchStep)


TypeOK ==
  /\ log \in Seq(Records)
  /\ pos \in 0 .. Len(log) /\ atr \in 0 .. Len(log)
  /\ connected \in BOOLEAN
  /\ cardAtr \in Atrs \cup Queries \cup {NoAtr}
  /\ op \in {"none", "command", "reset", "late"}
  /\ query \in Queries \cup {NoQuery} /\ (op = "command" => query \in Queries)
  /\ cur \in 0 .. Len(log) /\ init \in 0 .. Len(log)
  /\ warned \in Seq(1 .. Len(log)) /\ Len(warned) <= MaxWarned
  /\ reply \in Replies

\* The next record to try never leaves the session of the last reset: it is one
\* of its records or the reset that closes it, and it is NULL only when that
\* session is the last one and has no record at all.
PosInSession ==
  atr # NULL => \/ InSession(log, atr, pos)
                \/ pos = NULL /\ atr = Len(log)

\* The same for the two cursors of a running lookup, and a lookup only runs
\* after a reset: the loop cannot stray into the exchanges of another session.
LookupInSession ==
  op = "command" =>
    /\ atr # NULL /\ init = pos
    /\ InSession(log, atr, init)
    /\ InSession(log, atr, cur)

\* A connected reader has gone through a reset, unless its log is empty.
ConnectedMeansReset == connected /\ log # <<>> => atr # NULL

ResetCursorInLog == Resetting => cur # NULL

SessionInv == PosInSession /\ LookupInSession /\ ConnectedMeansReset /\ ResetCursorInLog

\* The emulation never answers with an exchange of another session: what a
\* command got back was recorded in the session the reader is in, for that query.
AnswerFromSession ==
  reply.call = "command" /\ reply.status = "OK" =>
    \E i \in 1 .. Len(log) :
      InSession(log, atr, i) /\ log[i] = Exchange(reply.query, reply.answer)

\* A command is reported unknown only after every record of the session was
\* tried, wherever in the session the search started.
UnknownMeansAbsent ==
  [][CommandUnknown => \A i \in 1 .. Len(log) :
                          InSession(log, atr, i) => ~IsAnswerTo(log, i, query)]_vars

\* The iterations a lookup has left, at most: to the end of the session, then
\* from its start to where the search began.
IterationsLeft == IF cur >= init THEN (Len(log) - cur) + (init - atr) ELSE init - cur

\* cardreplay_run_command() terminates: each iteration that goes on brings the
\* search closer to its end, whatever the log and wherever the search started.
LookupApproachesEnd ==
  [][CommandTriesNext => IterationsLeft' \in Nat /\ IterationsLeft' < IterationsLeft]_vars

\* Every lookup ends, and a warm reset does if the log has a reset record.
HasReset == \E i \in 1 .. Len(log) : IsReset(log, i)
CallsReturn ==
  /\ (op = "command") ~> (op # "command")
  /\ (Resetting /\ HasReset) ~> ~Resetting

\* What ui/gtk/gui_readerview.c:75 promises, "Reset the card in the reader.",
\* whatever replay file the reader emulates: a reset ends.
EveryResetReturns == Resetting ~> ~Resetting

(***************************************************************************)
(* The emulation implements ReplayPromise: the book is the session of the  *)
(* last reset, turned so that it starts at pos, and the early resets are   *)
(* those within their warning, or that were and search now.                *)
(***************************************************************************)
Turned(l, a, p) ==
  IF a = NULL \/ p = NULL THEN <<>>
  ELSE SubSeq(l, p, SessionEnd(l, a)) \o SubSeq(l, a + 1, p - 1)

Early == Len(warned) + (IF op = "late" THEN 1 ELSE 0)

Promise == INSTANCE ReplayPromise WITH
  base <- atr, book <- Turned(log, atr, pos), early <- Early

\* Seen from its callers, each call of the emulated card is one step of the
\* promise, and a reset before the first connection two: an answer is the next
\* recorded one for the query, repeated queries walk through the successive
\* answers, a reset opens the right session whatever ran within its warning.
ImplementsPromise == Promise!Spec
===============================================================================

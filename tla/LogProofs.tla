------------------------------- MODULE LogProofs -------------------------------
(***************************************************************************)
(* What is proved of the exchange log.                                     *)
(*                                                                         *)
(* Of its replay, for every set of logs: the cursors stay in the session,  *)
(* lookups answer from it and terminate, and a query reported unknown is   *)
(* in none of its records; each call is a step of the abstract card of     *)
(* ReplayPromise, and a reset before the first connection two; and         *)
(* replaying is faithful, for every log that starts with a reset, however  *)
(* long and however often commands are repeated.                           *)
(*                                                                         *)
(* Of its recording, for any number of reader calls nested to any depth:   *)
(* answers are recorded in the order the card gave them, each driver call  *)
(* once, what is saved is what is shown, and a transmission never returns  *)
(* a status older than its own.                                            *)
(***************************************************************************)
EXTENDS ReplayScript, CardReader, SequenceTheorems, WellFoundedInduction, TLAPS

\* Every record is an exchange or a reset mark, with the fields of its kind.
LEMMA RecordKinds ==
  ASSUME NEW l \in Seq(Records), NEW i \in 1 .. Len(l)
  PROVE  \/ IsReset(l, i) /\ l[i].atr \in Atrs
         \/ ~IsReset(l, i) /\ l[i].type = "COMMAND"
            /\ l[i].query \in Queries /\ l[i].answer \in Answers
            /\ l[i] = Exchange(l[i].query, l[i].answer)
<1>1. l[i] \in Records
  OBVIOUS
<1>2. CASE l[i] \in Exchanges
  BY <1>2 DEF Exchanges, IsReset, Exchange
<1>3. CASE l[i] \in ResetMarks
  BY <1>3 DEF ResetMarks, IsReset
<1>4. QED
  BY <1>1, <1>2, <1>3 DEF Records

\* The pointer operators stay within the list.
LEMMA PointersInLog ==
  ASSUME NEW l \in Seq(Records), NEW a \in 0 .. Len(l), NEW i \in 0 .. Len(l)
  PROVE  /\ NextOf(l, i) \in 0 .. Len(l)
         /\ AfterAtr(l, a) \in 0 .. Len(l)
         /\ NextOrWrap(l, a, i) \in 0 .. Len(l)
BY DEF NextOf, AfterAtr, NextOrWrap, NULL

\* A session that has a record in it starts right behind its reset.
LEMMA SessionStart ==
  ASSUME NEW l \in Seq(Records), NEW a \in 1 .. Len(l), NEW p \in 0 .. Len(l),
         InSession(l, a, p)
  PROVE  /\ AfterAtr(l, a) = a + 1
         /\ InSession(l, a, a + 1)
BY DEF InSession, AfterAtr, NextOf, NULL

\* Behind an exchange of a session comes another record of the session, or the
\* log is at its end.
LEMMA SessionNext ==
  ASSUME NEW l \in Seq(Records), NEW a \in 1 .. Len(l), NEW p \in 0 .. Len(l),
         InSession(l, a, p), ~IsReset(l, p)
  PROVE  InSession(l, a, NextOrWrap(l, a, p))
<1>1. CASE p < Len(l)
  BY <1>1 DEF InSession, NextOrWrap, NextOf, NULL
<1>2. CASE p = Len(l)
  BY <1>2, SessionStart DEF NextOrWrap, NextOf, NULL
<1>3. QED
  BY <1>1, <1>2

-------------------------------------------------------------------------------

LEMMA InitTypeOK == Init => TypeOK
<1> SUFFICES ASSUME Init PROVE TypeOK
  OBVIOUS
<1>1. log \in Seq(Records) /\ Len(log) \in Nat
  BY LogsAssumption DEF Init
<1>2. reply \in Replies
  BY DEF Init, Reply, Replies, Calls
<1>3. QED
  <2>1. connected \in BOOLEAN /\ cardAtr \in Atrs \cup Queries \cup {NoAtr}
    BY DEF Init
  <2>2. /\ pos \in 0 .. Len(log) /\ atr \in 0 .. Len(log)
        /\ cur \in 0 .. Len(log) /\ init \in 0 .. Len(log)
    BY <1>1 DEF Init, NULL
  <2>3. op = "none" /\ query \in Queries \cup {NoQuery} /\ warned \in Seq(1 .. Len(log)) /\ Len(warned) <= MaxWarned
    BY MaxWarnedAssumption DEF Init
  <2>4. QED
    BY <1>1, <1>2, <2>1, <2>2, <2>3 DEF TypeOK

\* Every action keeps the type invariant, given that a running loop's cursor
\* is on a record.
LEMMA NextTypeOK ==
  ASSUME TypeOK, SessionInv, [Next]_vars
  PROVE  TypeOK'
<1> USE DEF TypeOK, NULL
<1>1. CASE Connect
  <2>1. log # <<>> => 1 \in 1 .. Len(log)
    OBVIOUS
  <2>2. NextOf(log, 1) \in 0 .. Len(log) \/ log = <<>>
    BY <2>1 DEF NextOf
  <2>3. reply' \in Replies
    BY <1>1 DEF Connect, Reply, Replies, Calls
  <2>4. QED
    BY <1>1, <2>1, <2>2, <2>3 DEF Connect, loop
<1>2. CASE Disconnect
  BY <1>2 DEF Disconnect, loop, Reply, Replies, Calls
<1>3. CASE LastAtr
  <2>1. atr # NULL => AtrField(log[atr]) \in Atrs \cup Queries
    BY RecordKinds DEF AtrField, IsReset
  <2>2. QED
    BY <1>3, <2>1 DEF LastAtr, loop
<1>4. ASSUME NEW q \in Queries, CommandRefused(q) PROVE TypeOK'
  BY <1>4 DEF CommandRefused, card, loop, CommandReply, Replies, Calls
<1>5. ASSUME NEW q \in Queries, CommandBegins(q) PROVE TypeOK'
  BY <1>5 DEF CommandBegins, card
<1>6. CASE ResetRefused
  BY <1>6 DEF ResetRefused, card, loop, Reply, Replies, Calls
<1>7. CASE ResetBegins
  BY <1>7 DEF ResetBegins, card
<1>15. CASE ResetWarns
  <2>1. pos \in 1 .. Len(log) /\ warned \in Seq(1 .. Len(log)) /\ Len(warned) < MaxWarned
    BY <1>15 DEF ResetWarns
  <2>2. PICK S : S = 1 .. Len(log)
    OBVIOUS
  <2>3. <<pos>> \o warned \in Seq(S) /\ Len(<<pos>> \o warned) = 1 + Len(warned)
    BY <2>1, <2>2
  <2>4. Len(<<pos>> \o warned) <= MaxWarned
    BY <2>1, <2>3, MaxWarnedAssumption
  <2> QED
    BY <1>15, <2>2, <2>3, <2>4 DEF ResetWarns, card
<1>16. CASE ResetResumes
  <2>1. PICK S : S = 1 .. Len(log)
    OBVIOUS
  <2>2. warned \in Seq(S) /\ warned # <<>>
    BY <1>16, <2>1 DEF ResetResumes
  <2>3. Head(warned) \in S /\ Tail(warned) \in Seq(S) /\ Len(Tail(warned)) = Len(warned) - 1
    BY <2>2
  <2>4. Len(Tail(warned)) <= MaxWarned
    BY <2>2, <2>3, MaxWarnedAssumption
  <2> QED
    BY <1>16, <2>1, <2>3, <2>4 DEF ResetResumes, card
<1>8. CASE CommandFound
  <2>1. cur \in 1 .. Len(log)
    BY <1>8 DEF CommandFound, SessionInv, LookupInSession, InSession
  <2>2. log[cur].answer \in Answers
    BY <1>8, <2>1, RecordKinds DEF CommandFound, IsAnswerTo, IsReset
  <2>3. NextOrWrap(log, atr, cur) \in 0 .. Len(log)
    BY PointersInLog
  <2>4. reply' \in Replies
    BY <1>8, <2>2 DEF CommandFound, Return, CommandReply, Replies, Calls
  <2>5. QED
    BY <1>8, <2>3, <2>4 DEF CommandFound, Return, CommandReply
<1>9. CASE CommandTriesNext
  <2>1. Advance \in 0 .. Len(log)
    BY PointersInLog DEF Advance
  <2>2. QED
    BY <1>9, <2>1 DEF CommandTriesNext, card
<1>10. CASE CommandUnknown
  BY <1>10 DEF CommandUnknown, Return, card, CommandReply, Replies, Calls
<1>11. CASE ResetFound
  <2>1. NextOf(log, cur) \in 0 .. Len(log)
    BY PointersInLog
  <2>2. QED
    BY <1>11, <2>1 DEF ResetFound, Return, Reply, Replies, Calls
<1>12. CASE ResetTriesNext
  <2>1. cur \in 1 .. Len(log)
    BY <1>12 DEF ResetTriesNext, SessionInv, ResetCursorInLog, Resetting
  <2>2. QED
    BY <1>12, <2>1 DEF ResetTriesNext, card, NextOf
<1>13. CASE UNCHANGED vars
  BY <1>13 DEF vars
<1>14. QED
  BY <1>1, <1>2, <1>3, <1>4, <1>5, <1>6, <1>7, <1>8, <1>9, <1>10, <1>11, <1>12, <1>13,
        <1>15, <1>16 DEF Next, SearchStep

-------------------------------------------------------------------------------

LEMMA InitSessionInv == Init => SessionInv
BY DEF Init, SessionInv, PosInSession, LookupInSession, ConnectedMeansReset, ResetCursorInLog,
       Resetting, NULL

\* A reset record opens its session at the record behind it, if there is one.
LEMMA SessionOpens ==
  ASSUME NEW l \in Seq(Records), NEW a \in 1 .. Len(l)
  PROVE  InSession(l, a, NextOf(l, a)) \/ (NextOf(l, a) = NULL /\ a = Len(l))
BY DEF InSession, NextOf, NULL

\* A lookup's next record is again in the session.
LEMMA AdvanceInSession ==
  ASSUME TypeOK, SessionInv, op = "command"
  PROVE  /\ cur \in 1 .. Len(log) /\ atr \in 1 .. Len(log)
         /\ InSession(log, atr, Advance)
<1>1. cur \in 1 .. Len(log) /\ atr \in 1 .. Len(log)
  BY DEF TypeOK, SessionInv, LookupInSession, InSession, NULL
<1>2. CASE IsReset(log, cur)
  BY <1>1, <1>2, SessionStart DEF TypeOK, SessionInv, LookupInSession, Advance
<1>3. CASE ~IsReset(log, cur)
  BY <1>1, <1>3, SessionNext DEF TypeOK, SessionInv, LookupInSession, Advance
<1>4. QED
  BY <1>1, <1>2, <1>3

LEMMA NextSessionInv ==
  ASSUME TypeOK, SessionInv, [Next]_vars
  PROVE  SessionInv'
<1> USE DEF SessionInv, PosInSession, LookupInSession, ConnectedMeansReset, ResetCursorInLog, Resetting
<1>1. CASE Connect
  <2>1. CASE log = <<>>
    BY <1>1, <2>1 DEF Connect, loop, Idle
  <2>2. CASE log # <<>>
    <3>1. 1 \in 1 .. Len(log)
      BY <2>2 DEF TypeOK
    <3>2. PosInSession'
      BY <1>1, <2>2, <3>1, SessionOpens DEF Connect, TypeOK
    <3>3. QED
      BY <1>1, <2>2, <3>2 DEF Connect, loop, Idle, NULL
  <2>3. QED
    BY <2>1, <2>2
<1>2. CASE Disconnect
  BY <1>2 DEF Disconnect, loop
<1>3. CASE LastAtr
  BY <1>3 DEF LastAtr, loop
<1>4. ASSUME NEW q \in Queries, CommandRefused(q) PROVE SessionInv'
  BY <1>4 DEF CommandRefused, card, loop
<1>5. ASSUME NEW q \in Queries, CommandBegins(q) PROVE SessionInv'
  BY <1>5 DEF CommandBegins, card
<1>6. CASE ResetRefused
  BY <1>6 DEF ResetRefused, card, loop
<1>7. CASE ResetBegins
  BY <1>7 DEF ResetBegins, card
<1>15. CASE ResetWarns
  BY <1>15 DEF ResetWarns, card, Idle
<1>16. CASE ResetResumes
  <2>1. Head(warned) \in 1 .. Len(log)
    BY <1>16 DEF ResetResumes, TypeOK
  <2> QED
    BY <1>16, <2>1 DEF ResetResumes, card, NULL
<1>8. CASE CommandFound
  <2>1. cur \in 1 .. Len(log) /\ atr \in 1 .. Len(log) /\ ~IsReset(log, cur)
    BY <1>8, AdvanceInSession DEF CommandFound, IsAnswerTo, IsReset
  <2>2. InSession(log, atr, NextOrWrap(log, atr, cur))
    BY <1>8, <2>1, SessionNext DEF CommandFound, TypeOK
  <2>3. QED
    BY <1>8, <2>2 DEF CommandFound, Return
<1>9. CASE CommandTriesNext
  BY <1>9, AdvanceInSession DEF CommandTriesNext, card
<1>10. CASE CommandUnknown
  BY <1>10 DEF CommandUnknown, Return, card
<1>11. CASE ResetFound
  <2>1. cur \in 1 .. Len(log)
    BY <1>11 DEF ResetFound, TypeOK, NULL
  <2>2. PosInSession'
    BY <1>11, <2>1, SessionOpens DEF ResetFound, TypeOK
  <2>3. QED
    BY <1>11, <2>1, <2>2 DEF ResetFound, Return, NULL
<1>12. CASE ResetTriesNext
  <2>1. cur' # NULL
    BY <1>12 DEF ResetTriesNext, NULL
  <2>2. QED
    BY <1>12, <2>1 DEF ResetTriesNext, card
<1>13. CASE UNCHANGED vars
  BY <1>13 DEF vars
<1>14. QED
  BY <1>1, <1>2, <1>3, <1>4, <1>5, <1>6, <1>7, <1>8, <1>9, <1>10, <1>11, <1>12, <1>13,
        <1>15, <1>16 DEF Next, SearchStep

Inv == TypeOK /\ SessionInv

LEMMA NextInv == Inv /\ [Next]_vars => Inv'
BY NextTypeOK, NextSessionInv DEF Inv

LEMMA SpecInv == Spec => []Inv
<1>1. Init => Inv
  BY InitTypeOK, InitSessionInv DEF Inv
<1>2. QED
  BY <1>1, NextInv, PTL DEF Spec

\* Every state of the emulated card is well typed: no pointer leaves the list.
THEOREM TypeCorrect == Spec => []TypeOK
BY SpecInv, PTL DEF Inv

\* The position and the cursors of a lookup stay in the session of the last
\* reset, for every log that may be loaded.
THEOREM StaysInSession == Spec => []SessionInv
BY SpecInv, PTL DEF Inv

-------------------------------------------------------------------------------

\* The record a lookup tries next is the one behind cur, or the first of the
\* session when cur is the reset that closes it or the end of the log.
LEMMA AdvanceShape ==
  ASSUME Inv, op = "command"
  PROVE  /\ Len(log) \in Nat
         /\ cur \in 1 .. Len(log) /\ atr \in 1 .. Len(log) /\ init \in 1 .. Len(log)
         /\ atr < cur /\ atr < init /\ atr < Advance /\ Advance \in 1 .. Len(log)
         /\ \/ Advance = cur + 1
            \/ Advance = atr + 1 /\ (IsReset(log, cur) \/ cur = Len(log))
         /\ IsReset(log, cur) => init <= cur
<1>1. /\ cur \in 1 .. Len(log) /\ atr \in 1 .. Len(log)
      /\ InSession(log, atr, Advance)
      /\ InSession(log, atr, cur) /\ InSession(log, atr, init)
      /\ init \in 0 .. Len(log) /\ log \in Seq(Records) /\ Len(log) \in Nat
  BY AdvanceInSession DEF Inv, SessionInv, LookupInSession, TypeOK
<1>2. atr < cur /\ atr < init /\ atr < Advance /\ Advance \in 1 .. Len(log)
  <2>1. Advance \in 0 .. Len(log)
    BY <1>1, PointersInLog DEF Advance
  <2>2. QED
    BY <1>1, <2>1 DEF InSession
<1>3. \/ Advance = cur + 1
      \/ Advance = atr + 1 /\ (IsReset(log, cur) \/ cur = Len(log))
  <2>1. AfterAtr(log, atr) = atr + 1
    BY <1>1, <1>2 DEF AfterAtr, NextOf, NULL
  <2>2. NextOrWrap(log, atr, cur) = IF cur < Len(log) THEN cur + 1 ELSE atr + 1
    BY <1>1, <2>1 DEF NextOrWrap, NextOf, NULL
  <2>3. QED
    BY <1>1, <2>1, <2>2 DEF Advance
<1>4. IsReset(log, cur) => init <= cur
  BY <1>1, <1>2 DEF InSession
<1>5. QED
  BY <1>1, <1>2, <1>3, <1>4

\* One more iteration of a lookup leaves fewer iterations than before.
LEMMA TryingNextApproachesEnd ==
  Inv /\ CommandTriesNext => IterationsLeft' \in Nat /\ IterationsLeft' < IterationsLeft
<1> SUFFICES ASSUME Inv, CommandTriesNext
             PROVE  IterationsLeft' \in Nat /\ IterationsLeft' < IterationsLeft
  OBVIOUS
<1>1. /\ cur' = Advance /\ Advance # init
      /\ log' = log /\ init' = init /\ atr' = atr
  BY DEF CommandTriesNext, SearchGoesOn, card
<1>2. QED
  BY <1>1, AdvanceShape DEF IterationsLeft, CommandTriesNext

\* The search loop of cardreplay_run_command() terminates on every log.
THEOREM LookupTerminates == Spec => LookupApproachesEnd
<1>1. Inv /\ [Next]_vars =>
        [CommandTriesNext => IterationsLeft' \in Nat /\ IterationsLeft' < IterationsLeft]_vars
  BY TryingNextApproachesEnd
<1>2. QED
  BY <1>1, SpecInv, PTL DEF Spec, LookupApproachesEnd

-------------------------------------------------------------------------------

\* The records a lookup has been over: from init to cur, or on to the end of
\* the session and from its start to cur.
TriedRecord(i) ==
  /\ i \in 1 .. Len(log)
  /\ InSession(log, atr, i)
  /\ IF cur >= init THEN init <= i /\ i < cur ELSE init <= i \/ i < cur

\* None of them answers the query.
TriedInv == op = "command" => \A i \in 1 .. Len(log) : TriedRecord(i) => ~IsAnswerTo(log, i, query)

\* Once cur and every record tried before it are ruled out, trying on from
\* Advance has been over nothing that answers.
LEMMA RuledOut ==
  ASSUME Inv, TriedInv, op = "command", ~IsAnswerTo(log, cur, query),
         NEW i \in 1 .. Len(log), InSession(log, atr, i), 
         \/ Advance = init
         \/ IF Advance >= init THEN init <= i /\ i < Advance ELSE init <= i \/ i < Advance
  PROVE  ~IsAnswerTo(log, i, query)
<1>1. CASE i = cur
  BY <1>1
<1>2. CASE i # cur
  <2>1. cur < i => ~IsReset(log, cur) /\ cur # Len(log)
    BY AdvanceShape DEF InSession
  <2>2. IF cur >= init THEN init <= i /\ i < cur ELSE init <= i \/ i < cur
    BY <1>2, <2>1, AdvanceShape DEF InSession
  <2>3. QED
    BY <2>2 DEF TriedInv, TriedRecord
<1>3. QED
  BY <1>1, <1>2

LEMMA NextTriedInv ==
  ASSUME Inv, TriedInv, [Next]_vars
  PROVE  TriedInv'
<1>1. CASE op' # "command"
  BY <1>1 DEF TriedInv
<1>2. CASE op' = "command"
  <2>1. ASSUME NEW q \in Queries, CommandBegins(q) PROVE TriedInv'
    BY <2>1 DEF CommandBegins, TriedInv, TriedRecord, Inv, TypeOK
  <2>2. CASE CommandTriesNext
    <3>1. /\ cur' = Advance /\ Advance # init
          /\ log' = log /\ init' = init /\ atr' = atr /\ query' = query
      BY <2>2 DEF CommandTriesNext, SearchGoesOn, card
    <3>2. op = "command" /\ ~IsAnswerTo(log, cur, query)
      BY <2>2 DEF CommandTriesNext
    <3>3. QED
      BY <3>1, <3>2, RuledOut DEF TriedInv, TriedRecord
  <2>3. CASE UNCHANGED <<log, atr, loop>>
    BY <2>3 DEF TriedInv, TriedRecord, loop
  <2>4. QED
    BY <1>2, <2>1, <2>2, <2>3
       DEF Next, SearchStep, Connect, Disconnect, LastAtr, CommandRefused, ResetRefused,
           ResetBegins, ResetWarns, ResetResumes, CommandFound, CommandUnknown, ResetFound,
           ResetTriesNext, Resetting, Return, Idle, card, loop, vars
<1>3. QED
  BY <1>1, <1>2

\* A query is reported unknown only when no record of the session, on either
\* side of where the search started, answers it.
THEOREM UnknownIsAbsent == Spec => UnknownMeansAbsent
<1>1. Init => TriedInv
  BY DEF Init, TriedInv
<1>2. Inv /\ TriedInv /\ [Next]_vars => TriedInv'
  BY NextTriedInv
<1>3. Inv /\ TriedInv /\ [Next]_vars =>
        [CommandUnknown => \A i \in 1 .. Len(log) :
                             InSession(log, atr, i) => ~IsAnswerTo(log, i, query)]_vars
  <2> SUFFICES ASSUME Inv, TriedInv, CommandUnknown,
                      NEW i \in 1 .. Len(log), InSession(log, atr, i)
               PROVE  ~IsAnswerTo(log, i, query)
    OBVIOUS
  <2>1. op = "command" /\ ~IsAnswerTo(log, cur, query) /\ Advance = init
    BY AdvanceShape DEF CommandUnknown, SearchGoesOn, NULL
  <2>2. QED
    BY <2>1, RuledOut
<1>4. QED
  BY <1>1, <1>2, <1>3, SpecInv, PTL DEF Spec, UnknownMeansAbsent

-------------------------------------------------------------------------------

\* What a command got back is an exchange of the session, for its query.
LEMMA NextAnswerFromSession ==
  ASSUME Inv, AnswerFromSession, [Next]_vars
  PROVE  AnswerFromSession'
<1>1. CASE CommandFound
  <2>1. /\ cur \in 1 .. Len(log) /\ InSession(log, atr, cur)
        /\ log \in Seq(Records) /\ log' = log /\ atr' = atr
    BY <1>1, AdvanceInSession
       DEF CommandFound, Inv, SessionInv, LookupInSession, TypeOK
  <2>2. log[cur] = Exchange(query, log[cur].answer)
    BY <1>1, <2>1, RecordKinds DEF CommandFound, IsAnswerTo, IsReset
  <2>3. reply' = CommandReply(query, "OK", log[cur].answer)
    BY <1>1 DEF CommandFound, Return
  <2>4. reply'.query = query /\ reply'.answer = log[cur].answer
    BY <2>3 DEF CommandReply
  <2>5. QED
    BY <2>1, <2>2, <2>4 DEF AnswerFromSession
<1>2. CASE reply'.call # "command" \/ reply'.status # "OK"
  BY <1>2 DEF AnswerFromSession
<1>3. CASE UNCHANGED <<log, atr, reply>>
  BY <1>3 DEF AnswerFromSession
<1>4. QED
  BY <1>1, <1>2, <1>3
     DEF Next, SearchStep, Connect, Disconnect, LastAtr, CommandRefused, CommandBegins,
         ResetRefused, ResetBegins, ResetWarns, ResetResumes, CommandTriesNext, CommandUnknown,
         ResetFound, ResetTriesNext, Return, Reply, CommandReply, card, loop, vars

\* The emulated card never answers with an exchange of another session.
THEOREM AnswersFromSession == Spec => []AnswerFromSession
<1>1. Init => AnswerFromSession
  BY DEF Init, AnswerFromSession, Reply
<1>2. Inv /\ AnswerFromSession /\ [Next]_vars => AnswerFromSession'
  BY NextAnswerFromSession
<1>3. QED
  BY <1>1, <1>2, SpecInv, PTL DEF Spec

-------------------------------------------------------------------------------
(***************************************************************************)
(* The emulation keeps the promise of ReplayPromise.  The book is the      *)
(* session from pos to its end, then from its start to pos: its k-th page  *)
(* is the record Page(a, e, p, k), for a session that a opened, that ends  *)
(* at e, and whose next record to try is p.                                *)
(***************************************************************************)
Page(a, e, p, k) == IF p + k - 1 <= e THEN p + k - 1 ELSE p + k - 1 - (e - a)

IsSessionEnd(l, a, e) ==
  /\ e \in a .. Len(l)
  /\ \A k \in (a + 1) .. e : ~IsReset(l, k)
  /\ e = Len(l) \/ IsReset(l, e + 1)

\* A session that is not closed by the end of the log is closed by the first
\* reset behind its own.
LEMMA SessionEnds ==
  ASSUME NEW l \in Seq(Records), NEW a \in 1 .. Len(l)
  PROVE  IsSessionEnd(l, a, SessionEnd(l, a))
<1> DEFINE R == {k \in (a + 1) .. Len(l) : IsReset(l, k)}
<1>1. \E e \in a .. Len(l) : IsSessionEnd(l, a, e)
  <2>1. CASE R = {}
    BY <2>1 DEF IsSessionEnd
  <2>2. CASE R # {}
    <3>1. R \subseteq Nat
      OBVIOUS
    <3>2. PICK m \in R : \A k \in R : m <= k
      <4> DEFINE Less == OpToRel(<, Nat)
      <4>1. \A k, m \in Nat : <<k, m>> \in Less <=> k < m
        BY DEF OpToRel
      <4>2. IsWellFoundedOn(Less, Nat)
        BY NatLessThanWellFounded
      <4> HIDE DEF Less
      <4>3. PICK m \in R : \A k \in R : ~ (<<k, m>> \in Less)
        <5> HIDE DEF R
        <5> QED
          BY <2>2, <3>1, <4>2, WFMin
      <4>4. ASSUME NEW k \in R PROVE m <= k
        <5>1. k \in Nat /\ m \in Nat
          BY <3>1, <4>3
        <5>2. ~ (k < m)
          BY <4>1, <4>3, <5>1
        <5> QED
          BY <5>1, <5>2
      <4> QED
        BY <4>4
    <3>3. m \in (a + 1) .. Len(l) /\ IsReset(l, m)
      BY <3>2
    <3>4. \A k \in (a + 1) .. (m - 1) : ~IsReset(l, k)
      BY <3>2, <3>3
    <3>5. m - 1 \in a .. Len(l) /\ m - 1 + 1 = m
      BY <3>3
    <3>6. IsSessionEnd(l, a, m - 1)
      BY <3>3, <3>4, <3>5 DEF IsSessionEnd
    <3> QED
      BY <3>5, <3>6
  <2> QED
    BY <2>1, <2>2
<1> QED
  BY <1>1 DEF SessionEnd, IsSessionEnd

\* The records of the session are the exchanges up to its end, and the reset
\* that closes it.
LEMMA SessionReaches ==
  ASSUME NEW l \in Seq(Records), NEW a \in 1 .. Len(l), NEW p \in 0 .. Len(l)
  PROVE  InSession(l, a, p) <=> p \in (a + 1) .. (SessionEnd(l, a) + 1)
<1>1. IsSessionEnd(l, a, SessionEnd(l, a))
  BY SessionEnds
<1>2. ASSUME NEW e, IsSessionEnd(l, a, e)
      PROVE  InSession(l, a, p) <=> p \in (a + 1) .. (e + 1)
  BY <1>2 DEF InSession, IsSessionEnd
<1> QED
  BY <1>1, <1>2

LEMMA BookPages ==
  ASSUME NEW l \in Seq(Records), NEW a \in 1 .. Len(l), NEW p \in 1 .. Len(l), InSession(l, a, p)
  PROVE  LET e == SessionEnd(l, a)
         IN  /\ Turned(l, a, p) \in Seq(Records)
             /\ Len(Turned(l, a, p)) = e - a
             /\ \A k \in 1 .. (e - a) : Turned(l, a, p)[k] = l[Page(a, e, p, k)]
<1>1. PICK e : e = SessionEnd(l, a)
  OBVIOUS
<1>2. e \in a .. Len(l) /\ p \in (a + 1) .. (e + 1)
  BY <1>1, SessionEnds, SessionReaches DEF IsSessionEnd
<1>3. /\ SubSeq(l, p, e) \in Seq(Records)
      /\ Len(SubSeq(l, p, e)) = e - p + 1
      /\ \A i \in 1 .. (e - p + 1) : SubSeq(l, p, e)[i] = l[p + i - 1]
  <2>1. \A i \in p .. e : l[i] \in Records
    BY <1>2
  <2>2. (IF p <= e THEN e - p + 1 ELSE 0) = e - p + 1
    BY <1>2
  <2> QED
    BY <1>2, <2>1, <2>2, SubSeqProperties
<1>4. /\ SubSeq(l, a + 1, p - 1) \in Seq(Records)
      /\ Len(SubSeq(l, a + 1, p - 1)) = p - 1 - a
      /\ \A i \in 1 .. (p - 1 - a) : SubSeq(l, a + 1, p - 1)[i] = l[a + i]
  <2>1. \A i \in (a + 1) .. (p - 1) : l[i] \in Records
    BY <1>2
  <2>2. /\ (IF a + 1 <= p - 1 THEN p - 1 - (a + 1) + 1 ELSE 0) = p - 1 - a
        /\ p - 1 - (a + 1) + 1 = p - 1 - a
        /\ \A i \in 1 .. (p - 1 - a) : a + 1 + i - 1 = a + i
    BY <1>2
  <2>3. /\ SubSeq(l, a + 1, p - 1) \in Seq(Records)
        /\ Len(SubSeq(l, a + 1, p - 1)) = IF a + 1 <= p - 1 THEN p - 1 - (a + 1) + 1 ELSE 0
        /\ \A i \in 1 .. (p - 1 - (a + 1) + 1) : SubSeq(l, a + 1, p - 1)[i] = l[a + 1 + i - 1]
    BY <1>2, <2>1, SubSeqProperties
  <2> QED
    BY <2>2, <2>3
<1>5. Turned(l, a, p) = SubSeq(l, p, e) \o SubSeq(l, a + 1, p - 1)
  <2>1. a # NULL /\ p # NULL
    BY DEF NULL
  <2> QED
    BY <1>1, <2>1 DEF Turned
<1>6. PICK s, t : s = SubSeq(l, p, e) /\ t = SubSeq(l, a + 1, p - 1)
  OBVIOUS
<1>7. /\ s \o t \in Seq(Records)
      /\ Len(s \o t) = e - a
      /\ \A k \in 1 .. (e - a) : (s \o t)[k] = IF k <= e - p + 1 THEN s[k] ELSE t[k - (e - p + 1)]
  <2>1. /\ s \in Seq(Records) /\ Len(s) = e - p + 1
        /\ t \in Seq(Records) /\ Len(t) = p - 1 - a
    BY <1>3, <1>4, <1>6
  <2>2. /\ s \o t \in Seq(Records) /\ Len(s \o t) = Len(s) + Len(t)
        /\ \A k \in 1 .. (Len(s) + Len(t)) : (s \o t)[k] = IF k <= Len(s) THEN s[k] ELSE t[k - Len(s)]
    BY <2>1, ConcatProperties
  <2>3. e - p + 1 + (p - 1 - a) = e - a
    BY <1>2
  <2> QED
    BY <2>1, <2>2, <2>3
<1>8. ASSUME NEW k \in 1 .. (e - a) PROVE (s \o t)[k] = l[Page(a, e, p, k)]
  <2>1. CASE k <= e - p + 1
    <3>1. (s \o t)[k] = l[p + k - 1]
      BY <1>2, <1>3, <1>6, <1>7, <2>1
    <3> QED
      BY <1>2, <2>1, <3>1 DEF Page
  <2>2. CASE ~(k <= e - p + 1)
    <3>1. (s \o t)[k] = t[k - (e - p + 1)] /\ k - (e - p + 1) \in 1 .. (p - 1 - a)
      BY <1>2, <1>7, <2>2
    <3>2. (s \o t)[k] = l[a + (k - (e - p + 1))]
      BY <1>4, <1>6, <3>1
    <3>3. a + (k - (e - p + 1)) = p + k - 1 - (e - a) /\ ~(p + k - 1 <= e)
      BY <1>2, <2>2
    <3> QED
      BY <3>2, <3>3 DEF Page
  <2> QED
    BY <2>1, <2>2
<1> QED
  BY <1>1, <1>5, <1>6, <1>7, <1>8

\* The book of the session that record r opens is that session from its start.
LEMMA OpensAtStart ==
  ASSUME NEW l \in Seq(Records), NEW r \in 1 .. Len(l)
  PROVE  Turned(l, r, NextOf(l, r)) = Promise!Session(l, r)
<1>1. PICK e : e = SessionEnd(l, r)
  OBVIOUS
<1>2. e \in r .. Len(l) /\ (\A k \in (r + 1) .. e : ~IsReset(l, k))
  BY <1>1, SessionEnds DEF IsSessionEnd
<1>3. Promise!Session(l, r) = SubSeq(l, r + 1, e)
  BY <1>1 DEF Promise!Session, Promise!SessionEnd, SessionEnd, Promise!IsReset, IsReset
<1>4. CASE r = Len(l)
  <2>1. NextOf(l, r) = NULL /\ Turned(l, r, NULL) = <<>>
    BY <1>4 DEF NextOf, Turned, NULL
  <2>2. e \in Int /\ e < r + 1 /\ r + 1 \in Int
    BY <1>2, <1>4
  <2> QED
    BY <1>3, <2>1, <2>2, SubSeqEmpty
<1>5. CASE r < Len(l)
  <2>1. NextOf(l, r) = r + 1 /\ r # NULL /\ r + 1 # NULL /\ r + 1 - 1 = r
    BY <1>5 DEF NextOf, NULL
  <2>2. Turned(l, r, r + 1) = SubSeq(l, r + 1, e) \o SubSeq(l, r + 1, r)
    <3>1. PICK p : p = r + 1
      OBVIOUS
    <3>2. r # NULL /\ p # NULL /\ p - 1 = r
      BY <2>1, <3>1
    <3>3. Turned(l, r, p) = SubSeq(l, p, e) \o SubSeq(l, r + 1, p - 1)
      BY <1>1, <3>2 DEF Turned
    <3> QED
      BY <3>1, <3>2, <3>3
  <2>3. SubSeq(l, r + 1, r) = <<>>
    BY SubSeqEmpty
  <2>4. SubSeq(l, r + 1, e) \in Seq(Records)
    <3>1. \A i \in (r + 1) .. e : l[i] \in Records
      BY <1>2
    <3> QED
      BY <1>2, <3>1, SubSeqProperties
  <2> QED
    BY <1>3, <2>1, <2>2, <2>3, <2>4, ConcatEmptySeq
<1> QED
  BY <1>4, <1>5

\* The page of the book that record c is.
PageOf(a, e, p, c) == IF p <= c THEN c - p + 1 ELSE c - p + 1 + (e - a)

OpenBehind(l, a, c, book, i) ==
  /\ i \in 1 .. Len(book) /\ book[i] = l[c]
  /\ Turned(l, a, NextOrWrap(l, a, c)) = SubSeq(book, i + 1, Len(book)) \o SubSeq(book, 1, i)

\* Opened behind the page of c, the book is the one whose next record is the
\* one behind c.
LEMMA OpensBehind ==
  ASSUME NEW l \in Seq(Records), NEW a \in 1 .. Len(l),
         NEW p \in 1 .. Len(l), InSession(l, a, p),
         NEW c \in 1 .. Len(l), InSession(l, a, c), ~IsReset(l, c)
  PROVE  OpenBehind(l, a, c, Turned(l, a, p), PageOf(a, SessionEnd(l, a), p, c))
<1> SUFFICES ASSUME NEW book, book = Turned(l, a, p),
                    NEW i, i = PageOf(a, SessionEnd(l, a), p, c)
             PROVE  OpenBehind(l, a, c, book, i)
  OBVIOUS
<1>1. PICK e : e = SessionEnd(l, a)
  OBVIOUS
<1>2. /\ e \in a .. Len(l) /\ p \in (a + 1) .. (e + 1) /\ c \in (a + 1) .. e
      /\ e = Len(l) \/ IsReset(l, e + 1)
  <2>1. IsSessionEnd(l, a, e) /\ p \in (a + 1) .. (e + 1) /\ c \in (a + 1) .. (e + 1)
    BY <1>1, SessionEnds, SessionReaches
  <2>2. c # e + 1
    BY <2>1 DEF IsSessionEnd
  <2> QED
    BY <2>1, <2>2 DEF IsSessionEnd
<1>3. /\ book \in Seq(Records) /\ Len(book) = e - a
      /\ \A k \in 1 .. (e - a) : book[k] = l[Page(a, e, p, k)]
  BY <1>1, BookPages
<1>4. i \in 1 .. (e - a) /\ Page(a, e, p, i) = c
  BY <1>1, <1>2 DEF PageOf, Page
<1>5. PICK q : q = NextOrWrap(l, a, c)
  OBVIOUS
<1>6. /\ q = IF c < Len(l) THEN c + 1 ELSE a + 1
      /\ q \in 1 .. Len(l) /\ q \in (a + 1) .. (e + 1)
  BY <1>2, <1>5 DEF NextOrWrap, AfterAtr, NextOf, NULL
<1>7. InSession(l, a, q)
  BY <1>1, <1>6, SessionReaches
<1>8. /\ Turned(l, a, q) \in Seq(Records) /\ Len(Turned(l, a, q)) = e - a
      /\ \A k \in 1 .. (e - a) : Turned(l, a, q)[k] = l[Page(a, e, q, k)]
  BY <1>1, <1>6, <1>7, BookPages
<1>9. PICK n \in Nat : n = e - a
  BY <1>2
<1>10. PICK s, t : s = SubSeq(book, i + 1, n) /\ t = SubSeq(book, 1, i)
  OBVIOUS
<1>11. /\ s \in Seq(Records) /\ Len(s) = n - i
       /\ \A k \in 1 .. (n - i) : s[k] = book[i + k]
  <2>1. \A k \in (i + 1) .. n : book[k] \in Records
    BY <1>3, <1>4, <1>9
  <2>2. /\ (IF i + 1 <= n THEN n - (i + 1) + 1 ELSE 0) = n - i
        /\ n - (i + 1) + 1 = n - i
        /\ \A k \in 1 .. (n - i) : i + 1 + k - 1 = i + k
    BY <1>4, <1>9
  <2>3. /\ s \in Seq(Records)
        /\ Len(s) = IF i + 1 <= n THEN n - (i + 1) + 1 ELSE 0
        /\ \A k \in 1 .. (n - (i + 1) + 1) : s[k] = book[i + 1 + k - 1]
    BY <1>4, <1>9, <1>10, <2>1, SubSeqProperties, SMTT(30)
  <2> QED
    BY <2>2, <2>3
<1>12. /\ t \in Seq(Records) /\ Len(t) = i
       /\ \A k \in 1 .. i : t[k] = book[k]
  <2>1. \A k \in 1 .. i : book[k] \in Records
    BY <1>3, <1>4
  <2>2. /\ (IF 1 <= i THEN i - 1 + 1 ELSE 0) = i
        /\ i - 1 + 1 = i
        /\ \A k \in 1 .. i : 1 + k - 1 = k
    BY <1>4
  <2>3. /\ t \in Seq(Records)
        /\ Len(t) = IF 1 <= i THEN i - 1 + 1 ELSE 0
        /\ \A k \in 1 .. (i - 1 + 1) : t[k] = book[1 + k - 1]
    BY <1>4, <1>10, <2>1, SubSeqProperties
  <2> QED
    BY <2>2, <2>3
<1>13. /\ s \o t \in Seq(Records) /\ Len(s \o t) = n
       /\ \A k \in 1 .. n : (s \o t)[k] = IF k <= n - i THEN s[k] ELSE t[k - (n - i)]
  <2>1. n - i + i = n
    BY <1>4, <1>9
  <2>2. /\ s \o t \in Seq(Records) /\ Len(s \o t) = Len(s) + Len(t)
        /\ \A k \in 1 .. (Len(s) + Len(t)) : (s \o t)[k] = IF k <= Len(s) THEN s[k] ELSE t[k - Len(s)]
    BY <1>11, <1>12, ConcatProperties
  <2> QED
    BY <1>11, <1>12, <2>1, <2>2
<1>16. ASSUME NEW k \in 1 .. n
       PROVE  /\ k <= n - i => Page(a, e, p, i + k) = Page(a, e, q, k)
              /\ k > n - i => Page(a, e, p, k - (n - i)) = Page(a, e, q, k)
  <2>1. /\ a \in Nat /\ e \in Nat /\ p \in Nat /\ c \in Nat /\ q \in Nat /\ k \in Nat /\ i \in Int
        /\ i = PageOf(a, e, p, c) /\ a < p /\ p <= e + 1 /\ a < c /\ c <= e
        /\ (q = c + 1 \/ (q = a + 1 /\ c = e)) /\ 1 <= k /\ k <= e - a
    BY <1>1, <1>2, <1>4, <1>6, <1>9
  <2>2. /\ k <= e - a - i => Page(a, e, p, i + k) = Page(a, e, q, k)
        /\ k > e - a - i => Page(a, e, p, k - (e - a - i)) = Page(a, e, q, k)
    <3>1. CASE p <= c
      BY <2>1, <3>1 DEF Page, PageOf
    <3>2. CASE ~(p <= c)
      <4>1. i = c - p + 1 + (e - a)
        BY <2>1, <3>2 DEF PageOf
      <4>2. ASSUME k <= e - a - i PROVE Page(a, e, p, i + k) = c + k /\ Page(a, e, q, k) = c + k
        BY <2>1, <3>2, <4>1, <4>2 DEF Page
      <4>3. ASSUME k > e - a - i
            PROVE  /\ Page(a, e, p, k - (e - a - i)) = Page(a, e, q, k)
        <5>1. p + (k - (e - a - i)) - 1 = c + k
          BY <2>1, <4>1
        <5> QED
          BY <2>1, <3>2, <4>1, <4>3, <5>1 DEF Page
      <4> QED
        BY <4>2, <4>3
    <3> QED
      BY <2>1, <3>1, <3>2
  <2> QED
    BY <1>9, <2>2
<1>14. ASSUME NEW k \in 1 .. n PROVE (s \o t)[k] = Turned(l, a, q)[k]
  <2>1. Turned(l, a, q)[k] = l[Page(a, e, q, k)]
    BY <1>8, <1>9
  <2>2. CASE k <= n - i
    <3>1. (s \o t)[k] = book[i + k] /\ i + k \in 1 .. (e - a)
      BY <1>4, <1>9, <1>11, <1>13, <2>2
    <3>2. Page(a, e, p, i + k) = Page(a, e, q, k)
      BY <1>16, <2>2
    <3> QED
      BY <1>3, <2>1, <3>1, <3>2
  <2>3. CASE ~(k <= n - i)
    <3>1. (s \o t)[k] = book[k - (n - i)] /\ k - (n - i) \in 1 .. (e - a)
      <4>1. (s \o t)[k] = t[k - (n - i)]
        BY <1>13, <2>3
      <4>2. k - (n - i) \in 1 .. i /\ k - (n - i) \in 1 .. (e - a)
        BY <1>4, <1>9, <2>3
      <4>3. t[k - (n - i)] = book[k - (n - i)]
        BY <1>12, <4>2
      <4> QED
        BY <4>1, <4>2, <4>3
    <3>2. Page(a, e, p, k - (n - i)) = Page(a, e, q, k)
      BY <1>4, <1>9, <1>16, <2>3
    <3> QED
      BY <1>3, <2>1, <3>1, <3>2
  <2> QED
    BY <2>2, <2>3
<1>15. Turned(l, a, q) = s \o t
  BY <1>8, <1>9, <1>13, <1>14, SeqEqual
<1> QED
  BY <1>3, <1>4, <1>5, <1>9, <1>10, <1>15 DEF OpenBehind

-------------------------------------------------------------------------------

\* None of these records of the log is a reset.
NoReset(from, to) == \A k \in from .. to : ~IsReset(log, k)

\* Where a reset that was called before the first connection goes on from.
Restart == IF atr = NULL THEN 1 ELSE atr

\* A call that runs was accepted.  A warm reset has been over no reset but the
\* one of the session it started in, to which it comes back only when there is
\* none behind it; one that was called before the first connection starts at the
\* last record, and goes on from the session of then or from the first record.
CallInv ==
  /\ op = "command" => connected
  /\ atr = NULL => pos = Len(log)
  /\ op = "reset" =>
       /\ atr # NULL /\ atr < Len(log) /\ atr <= cur
       /\ NoReset(atr + 1, IF cur = atr THEN Len(log) ELSE cur - 1)
  /\ \A k \in DOMAIN warned : warned[k] = Len(log)
  /\ op = "late" =>
       cur = Len(log) \/ (~IsReset(log, Len(log)) /\ Restart <= cur /\ NoReset(Restart, cur - 1))

LEMMA NextCallInv ==
  ASSUME Inv, CallInv, [Next]_vars
  PROVE  CallInv'
<1>t. /\ Len(log) \in Nat /\ pos \in 0 .. Len(log) /\ atr \in 0 .. Len(log) /\ cur \in 0 .. Len(log)
      /\ Resetting => cur # NULL
      /\ warned \in Seq(1 .. Len(log))
      /\ atr # NULL => InSession(log, atr, pos) \/ (pos = NULL /\ atr = Len(log))
  BY DEF Inv, TypeOK, SessionInv, ResetCursorInLog, PosInSession
<1>1. CASE Connect
  <2>1. op' = "none" /\ (atr' = NULL => pos' = Len(log')) /\ warned' = warned /\ log' = log
    BY <1>1 DEF Connect, loop, Idle, CallInv, NULL
  <2> QED
    BY <2>1 DEF CallInv
<1>2. CASE Disconnect \/ LastAtr \/ ResetRefused \/ \E q \in Queries : CommandRefused(q)
  <2>1. op' = "none" /\ atr' = atr /\ pos' = pos /\ log' = log /\ warned' = warned
    BY <1>2 DEF Disconnect, LastAtr, ResetRefused, CommandRefused, loop, card, Idle
  <2> QED
    BY <2>1 DEF CallInv
<1>3. ASSUME NEW q \in Queries, CommandBegins(q) PROVE CallInv'
  BY <1>3 DEF CommandBegins, card, CallInv
<1>4. CASE ResetBegins
  <2>1. /\ op' = "reset" /\ cur' = pos /\ pos # NULL /\ atr # NULL
        /\ atr' = atr /\ pos' = pos /\ log' = log /\ warned' = warned
    BY <1>4 DEF ResetBegins, card
  <2>2. /\ atr < pos /\ pos <= Len(log)
        /\ \A k \in (atr + 1) .. (pos - 1) : ~IsReset(log, k)
    BY <1>t, <2>1 DEF InSession
  <2>3. atr < Len(log) /\ atr <= pos /\ pos # atr
    BY <1>t, <2>2
  <2> QED
    BY <2>1, <2>2, <2>3 DEF CallInv, NoReset, IsReset
<1>10. CASE ResetWarns
  <2>1. /\ op' = "none" /\ UNCHANGED <<log, pos, atr, connected>> /\ warned' = <<pos>> \o warned
        /\ pos = Len(log)
    BY <1>10 DEF ResetWarns, card, Idle, CallInv
  <2>2. \A k \in DOMAIN warned' : warned'[k] = Len(log)
    <3> SUFFICES ASSUME NEW k \in DOMAIN warned' PROVE warned'[k] = Len(log)
      OBVIOUS
    <3>1. k \in 1 .. (1 + Len(warned))
      BY <1>t, <2>1
    <3>2. warned'[k] = IF k = 1 THEN pos ELSE warned[k - 1]
      BY <1>t, <2>1, <3>1
    <3>3. k # 1 => k - 1 \in DOMAIN warned
      BY <1>t, <3>1
    <3> QED
      BY <2>1, <3>2, <3>3 DEF CallInv
  <2> QED
    BY <2>1, <2>2 DEF CallInv
<1>11. CASE ResetResumes
  <2>1. /\ op' = "late" /\ UNCHANGED <<log, pos, atr, connected>>
        /\ warned # <<>> /\ cur' = Head(warned) /\ warned' = Tail(warned)
    BY <1>11 DEF ResetResumes, card
  <2>2. Head(warned) = warned[1] /\ 1 \in DOMAIN warned
    BY <1>t, <2>1
  <2>3. \A k \in DOMAIN Tail(warned) : k + 1 \in DOMAIN warned /\ Tail(warned)[k] = warned[k + 1]
    BY <1>t, <2>1
  <2> QED
    BY <2>1, <2>2, <2>3 DEF CallInv
<1>5. CASE CommandTriesNext
  BY <1>5 DEF CommandTriesNext, card, CallInv
<1>6. CASE CommandFound \/ CommandUnknown
  <2>1. op' = "none" /\ atr' = atr /\ atr # NULL /\ log' = log /\ warned' = warned
    BY <1>6, AdvanceInSession DEF CommandFound, CommandUnknown, Return, card, Inv, NULL
  <2> QED
    BY <2>1 DEF CallInv
<1>7. CASE ResetFound
  <2>1. op' = "none" /\ atr' # NULL /\ log' = log /\ warned' = warned
    BY <1>7, <1>t DEF ResetFound, Return
  <2> QED
    BY <2>1 DEF CallInv
<1>8. CASE ResetTriesNext
  <2>1. /\ op \in {"reset", "late"} /\ op' = op /\ ~IsReset(log, cur)
        /\ cur' = IF cur < Len(log) THEN cur + 1 ELSE Restart
        /\ atr' = atr /\ pos' = pos /\ log' = log /\ warned' = warned
    BY <1>8, <1>t DEF ResetTriesNext, Resetting, card, NextOf, Restart, NULL
  <2>2. CASE op = "reset"
    <3>1. atr # NULL /\ atr < Len(log) /\ atr <= cur /\ Restart = atr /\ atr <= cur'
      BY <1>t, <2>1, <2>2 DEF CallInv, Restart
    <3>2. NoReset(atr + 1, IF cur' = atr THEN Len(log) ELSE cur' - 1)
      BY <1>t, <2>1, <2>2, <3>1 DEF CallInv, NoReset
    <3> QED
      BY <2>1, <2>2, <3>1, <3>2 DEF CallInv, NoReset, IsReset
  <2>3. CASE op = "late"
    <3>1. Restart \in Nat /\ cur \in 1 .. Len(log)
      BY <1>t, <2>1 DEF Restart, Resetting, NULL
    <3>2. cur' = Len(log) \/ (~IsReset(log, Len(log)) /\ Restart <= cur' /\ NoReset(Restart, cur' - 1))
      <4>1. CASE cur = Len(log)
        BY <2>1, <3>1, <4>1 DEF NoReset
      <4>2. CASE cur < Len(log)
        BY <2>1, <2>3, <3>1, <4>2 DEF CallInv, NoReset
      <4> QED
        BY <3>1, <4>1, <4>2
    <3>3. Restart' = Restart
      BY <2>1 DEF Restart
    <3> QED
      BY <2>1, <2>3, <3>2, <3>3 DEF CallInv, NoReset, IsReset
  <2> QED
    BY <2>1, <2>2, <2>3
<1>9. CASE UNCHANGED vars
  BY <1>9 DEF vars, CallInv, NoReset, IsReset, Restart
<1> QED
  BY <1>1, <1>2, <1>3, <1>4, <1>5, <1>6, <1>7, <1>8, <1>9, <1>10, <1>11 DEF Next, SearchStep

-------------------------------------------------------------------------------

\* A step that leaves the log, the session, the reader and the reply alone is
\* no step of the promise.
LEMMA NotPromised ==
  ASSUME UNCHANGED <<log, atr, pos, connected, Early, reply>>
  PROVE  UNCHANGED Promise!vars
BY DEF Promise!vars

LEMMA PromisedConnect ==
  ASSUME Inv, Connect
  PROVE  Promise!Connect
<1>1. log \in Seq(Records) /\ Len(log) \in Nat /\ (log # <<>> => 1 \in 1 .. Len(log))
  BY DEF Inv, TypeOK
<1>2. /\ connected' = TRUE /\ log' = log
      /\ \/ /\ log = <<>>
            /\ reply' = Reply("connect", "ERROR")
            /\ UNCHANGED <<pos, atr>>
         \/ /\ log # <<>>
            /\ atr' = 1
            /\ pos' = NextOf(log, 1)
            /\ reply' = Reply("connect", IF IsReset(log, 1) THEN "OK" ELSE "ERROR")
  BY DEF Connect
<1>5. Early' = Early
  BY DEF Connect, loop, Early
<1>3. CASE log = <<>>
  BY <1>2, <1>3, <1>5 DEF Promise!Connect, Reply
<1>4. CASE log # <<>>
  <2>1. Turned(log, 1, NextOf(log, 1)) = Promise!Session(log, 1)
    BY <1>1, <1>4, OpensAtStart
  <2>2. Turned(log', atr', pos') = Promise!Session(log, 1)
    BY <1>2, <1>4, <2>1
  <2>3. /\ reply'.call = "connect"
        /\ reply'.status = IF log # <<>> /\ Promise!IsReset(log, 1) THEN "OK" ELSE "ERROR"
    BY <1>2, <1>4 DEF Reply, IsReset, Promise!IsReset
  <2> QED
    BY <1>2, <1>4, <1>5, <2>2, <2>3 DEF Promise!Connect
<1> QED
  BY <1>3, <1>4

\* The book holds exchanges of the session of the last reset only.
LEMMA BookHoldsSession ==
  ASSUME Inv, NEW b, b = Turned(log, atr, pos), NEW i \in 1 .. Len(b)
  PROVE  \E j \in 1 .. Len(log) :
           InSession(log, atr, j) /\ ~IsReset(log, j) /\ b[i] = log[j]
<1>1. CASE atr = NULL \/ pos = NULL
  <2>1. b = <<>>
    BY <1>1, Zenon DEF Turned
  <2> QED
    BY <2>1
<1>2. CASE atr # NULL /\ pos # NULL
  <2>1. log \in Seq(Records) /\ atr \in 1 .. Len(log) /\ pos \in 1 .. Len(log) /\ InSession(log, atr, pos)
    BY <1>2 DEF Inv, TypeOK, SessionInv, PosInSession, NULL
  <2>2. PICK e : e = SessionEnd(log, atr)
    OBVIOUS
  <2>3. /\ e \in atr .. Len(log) /\ (\A k \in (atr + 1) .. e : ~IsReset(log, k))
        /\ pos \in (atr + 1) .. (e + 1)
    BY <2>1, <2>2, SessionEnds, SessionReaches DEF IsSessionEnd
  <2>4. Len(b) = e - atr /\ \A k \in 1 .. (e - atr) : b[k] = log[Page(atr, e, pos, k)]
    BY <2>1, <2>2, BookPages
  <2>5. PICK j : j = Page(atr, e, pos, i)
    OBVIOUS
  <2>6. j \in (atr + 1) .. e
    BY <2>1, <2>3, <2>4, <2>5 DEF Page
  <2>7. j \in 1 .. Len(log) /\ ~IsReset(log, j) /\ b[i] = log[j]
    BY <2>1, <2>3, <2>4, <2>5, <2>6
  <2>8. InSession(log, atr, j)
    BY <2>1, <2>2, <2>3, <2>6, <2>7, SessionReaches
  <2> QED
    BY <2>7, <2>8
<1> QED
  BY <1>1, <1>2

\* A command that is refused or unknown is one the book does not hold.
LEMMA PromisedFailure ==
  ASSUME Inv, CallInv, NEW q \in Queries, UNCHANGED <<card, Early>>, reply' = CommandReply(q, "ERROR", NoAnswer),
         connected => \A i \in 1 .. Len(log) : InSession(log, atr, i) => ~IsAnswerTo(log, i, q)
  PROVE  Promise!Command(q)
<1>1. PICK b : b = Turned(log, atr, pos)
  OBVIOUS
<1>2. ASSUME connected, NEW i \in 1 .. Len(b) PROVE b[i].query # q
  <2>1. PICK j \in 1 .. Len(log) : InSession(log, atr, j) /\ ~IsReset(log, j) /\ b[i] = log[j]
    BY <1>1, BookHoldsSession
  <2>2. ~IsAnswerTo(log, j, q)
    BY <1>2, <2>1
  <2>3. log[j].type = "COMMAND"
    BY <2>1, RecordKinds DEF Inv, TypeOK
  <2> QED
    BY <2>1, <2>2, <2>3 DEF IsAnswerTo
<1>3. /\ log' = log /\ atr' = atr /\ pos' = pos /\ connected' = connected
      /\ Turned(log', atr', pos') = Turned(log, atr, pos) /\ Early' = Early
  BY DEF card
<1>4. /\ reply'.call = "command" /\ reply'.query = q
      /\ reply'.status = "ERROR" /\ reply'.answer = NoAnswer
  BY DEF CommandReply
<1> QED
  BY <1>1, <1>2, <1>3, <1>4 DEF Promise!Command

\* The pages before that of the record that answers are those of the records
\* the lookup has been over.
LEMMA PagesTried ==
  ASSUME NEW a \in Nat, NEW e \in Nat, NEW p \in Nat, NEW c \in Nat,
         a < p, p <= e + 1, a < c, c <= e,
         NEW k \in Nat, 1 <= k, k < PageOf(a, e, p, c)
  PROVE  /\ a < Page(a, e, p, k) /\ Page(a, e, p, k) <= e
         /\ IF c >= p THEN p <= Page(a, e, p, k) /\ Page(a, e, p, k) < c
                      ELSE p <= Page(a, e, p, k) \/ Page(a, e, p, k) < c
<1>1. CASE p <= c
  BY <1>1 DEF Page, PageOf
<1>2. CASE ~(p <= c)
  BY <1>2 DEF Page, PageOf
<1> QED
  BY <1>1, <1>2

\* A command is answered by the first exchange of the book for it, and leaves
\* the book open behind that exchange.
LEMMA PromisedAnswer ==
  ASSUME Inv, CallInv, TriedInv, CommandFound
  PROVE  Promise!Command(query)
<1>1. /\ log \in Seq(Records) /\ Len(log) \in Nat
      /\ atr \in 1 .. Len(log) /\ cur \in 1 .. Len(log) /\ pos \in 1 .. Len(log) /\ init = pos
      /\ InSession(log, atr, pos) /\ InSession(log, atr, cur)
      /\ op = "command" /\ connected /\ IsAnswerTo(log, cur, query)
  <2>1. op = "command" /\ IsAnswerTo(log, cur, query)
    BY DEF CommandFound
  <2>2. init = pos /\ InSession(log, atr, init) /\ InSession(log, atr, cur) /\ connected
    BY <2>1 DEF Inv, SessionInv, LookupInSession, CallInv
  <2> QED
    BY <2>1, <2>2, AdvanceShape DEF Inv, TypeOK
<1>2. ~IsReset(log, cur) /\ log[cur].query = query
  BY <1>1 DEF IsAnswerTo, IsReset
<1>3. /\ log' = log /\ atr' = atr /\ connected' = connected
      /\ pos' = NextOrWrap(log, atr, cur)
      /\ reply' = CommandReply(query, "OK", log[cur].answer)
      /\ Early' = Early
  BY DEF CommandFound, Return, Early
<1>4. PICK e : e = SessionEnd(log, atr)
  OBVIOUS
<1>5. PICK i : i = PageOf(atr, e, pos, cur)
  OBVIOUS
<1>6. PICK b : b = Turned(log, atr, pos)
  OBVIOUS
<1>7. /\ i \in 1 .. Len(b) /\ b[i] = log[cur]
      /\ Turned(log, atr, NextOrWrap(log, atr, cur)) = SubSeq(b, i + 1, Len(b)) \o SubSeq(b, 1, i)
  <2>1. OpenBehind(log, atr, cur, Turned(log, atr, pos), PageOf(atr, SessionEnd(log, atr), pos, cur))
    BY <1>1, <1>2, OpensBehind
  <2> QED
    BY <1>4, <1>5, <1>6, <2>1 DEF OpenBehind
<1>8. ASSUME NEW k \in 1 .. (i - 1) PROVE b[k].query # query
  <2>1. /\ e \in atr .. Len(log) /\ pos \in (atr + 1) .. (e + 1) /\ cur \in (atr + 1) .. e
        /\ Len(b) = e - atr /\ \A j \in 1 .. (e - atr) : b[j] = log[Page(atr, e, pos, j)]
        /\ \A j \in (atr + 1) .. e : ~IsReset(log, j)
    <3>1. IsSessionEnd(log, atr, e) /\ pos \in (atr + 1) .. (e + 1) /\ cur \in (atr + 1) .. (e + 1)
      BY <1>1, <1>4, SessionEnds, SessionReaches
    <3>2. cur # e + 1
      BY <1>1, <1>2, <3>1 DEF IsSessionEnd
    <3>3. Len(b) = e - atr /\ \A j \in 1 .. (e - atr) : b[j] = log[Page(atr, e, pos, j)]
      BY <1>1, <1>4, <1>6, BookPages
    <3> QED
      BY <1>1, <3>1, <3>2, <3>3 DEF IsSessionEnd
  <2>2. PICK j : j = Page(atr, e, pos, k)
    OBVIOUS
  <2>3. k \in Nat /\ 1 <= k /\ k < i /\ k <= e - atr /\ atr \in Nat /\ e \in Nat /\ pos \in Nat /\ cur \in Nat
    BY <1>1, <1>7, <2>1
  <2>4. /\ atr < j /\ j <= e
        /\ IF cur >= pos THEN pos <= j /\ j < cur ELSE pos <= j \/ j < cur
    BY <1>5, <2>1, <2>2, <2>3, PagesTried
  <2>5. j \in 1 .. Len(log) /\ j \in (atr + 1) .. e
    BY <1>1, <2>1, <2>2, <2>3, <2>4 DEF Page
  <2>6. InSession(log, atr, j)
    BY <1>1, <1>4, <2>1, <2>5, SessionReaches
  <2>7. TriedRecord(j)
    BY <1>1, <2>4, <2>5, <2>6 DEF TriedRecord
  <2>8. ~IsAnswerTo(log, j, query) /\ log[j].type = "COMMAND"
    <3>1. ~IsAnswerTo(log, j, query)
      BY <1>1, <2>5, <2>7 DEF TriedInv
    <3>2. ~IsReset(log, j)
      BY <2>1, <2>5
    <3> QED
      BY <1>1, <2>5, <3>1, <3>2, RecordKinds
  <2>9. b[k] = log[j]
    BY <2>1, <2>2, <2>3
  <2> QED
    BY <2>8, <2>9 DEF IsAnswerTo
<1>9. /\ reply'.call = "command" /\ reply'.query = query
      /\ reply'.status = "OK" /\ reply'.answer = b[i].answer
  BY <1>3, <1>7 DEF CommandReply
<1>10. Turned(log', atr', pos') = SubSeq(b, i + 1, Len(b)) \o SubSeq(b, 1, i)
  BY <1>3, <1>7
<1> QED
  BY <1>1, <1>2, <1>3, <1>6, <1>7, <1>8, <1>9, <1>10
     DEF Promise!Command, Promise!FirstAnswer, Promise!OpenedBehind

\* A warm reset that is refused has nothing to run: the log is empty, or the
\* session of the last reset is the last one and has no exchange.
LEMMA PromisedRefusal ==
  ASSUME Inv, CallInv, ResetRefused
  PROVE  Promise!WarmReset
<1>1. /\ log' = log /\ atr' = atr /\ pos' = pos /\ connected' = connected
      /\ reply'.call = "reset" /\ reply'.status = "ERROR"
      /\ log = <<>> \/ pos = NULL
      /\ Early' = Early
  BY DEF ResetRefused, card, loop, Reply, Early
<1>2. log = <<>> \/ atr = Len(log)
  BY <1>1 DEF CallInv, Inv, SessionInv, PosInSession, InSession, TypeOK, NULL
<1>3. Turned(log', atr', pos') = Turned(log, atr, pos)
  BY <1>1
<1> QED
  BY <1>1, <1>2, <1>3 DEF Promise!WarmReset

\* A reset that ends has found a reset record, and opens its session.
LEMMA ResetOpens ==
  ASSUME Inv, ResetFound
  PROVE  /\ log \in Seq(Records) /\ Len(log) \in Nat /\ atr \in 0 .. Len(log) /\ cur \in 1 .. Len(log)
         /\ Promise!IsReset(log, cur) /\ Promise!Opens(cur)
         /\ log' = log /\ connected' = connected /\ reply'.call = "reset" /\ reply'.status = "OK"
         /\ log # <<>> /\ op \in {"reset", "late"} /\ op' = "none" /\ warned' = warned
         /\ (\A k : Promise!IsReset(log, k) <=> IsReset(log, k)) /\ Promise!NULL = NULL
<1>1. /\ log \in Seq(Records) /\ Len(log) \in Nat /\ atr \in 0 .. Len(log) /\ cur \in 1 .. Len(log)
      /\ op \in {"reset", "late"} /\ IsReset(log, cur)
  BY DEF ResetFound, Resetting, Inv, TypeOK, SessionInv, ResetCursorInLog, NULL
<1>2. /\ log' = log /\ atr' = cur /\ pos' = NextOf(log, cur) /\ connected' = connected
      /\ reply'.call = "reset" /\ reply'.status = "OK" /\ op' = "none" /\ warned' = warned
  BY DEF ResetFound, Return, Reply
<1>3. Promise!Opens(cur)
  BY <1>1, <1>2, OpensAtStart DEF Promise!Opens
<1>4. \A k : Promise!IsReset(log, k) <=> IsReset(log, k)
  BY DEF Promise!IsReset, IsReset
<1>5. Promise!NULL = NULL
  BY DEF Promise!NULL, NULL
<1>6. log # <<>>
  BY <1>1
<1> QED
  BY <1>1, <1>2, <1>3, <1>4, <1>5, <1>6

\* A warm reset opens the next session of the log.
LEMMA PromisedReset ==
  ASSUME Inv, CallInv, ResetFound, op = "reset"
  PROVE  Promise!WarmReset
<1>1. /\ atr # NULL /\ atr < Len(log) /\ atr <= cur
      /\ NoReset(atr + 1, IF cur = atr THEN Len(log) ELSE cur - 1)
      /\ atr # Promise!NULL
  BY ResetOpens DEF CallInv
<1>2. Early' = Early
  BY ResetOpens DEF Early
<1>3. CASE cur = atr
  <2>1. \A r \in (atr + 1) .. Len(log) : ~Promise!IsReset(log, r)
    BY <1>1, <1>3, ResetOpens DEF NoReset
  <2>2. Promise!IsReset(log, atr) /\ Promise!Opens(atr)
    BY <1>3, ResetOpens
  <2> QED
    BY <1>1, <1>2, <2>1, <2>2, ResetOpens DEF Promise!WarmReset
<1>4. CASE cur # atr
  <2>1. Promise!NextReset(atr + 1, cur)
    BY <1>1, <1>4, ResetOpens DEF Promise!NextReset, NoReset
  <2> QED
    BY <1>1, <1>2, <2>1, ResetOpens DEF Promise!WarmReset
<1> QED
  BY <1>3, <1>4

\* One that was called before the first connection opens the session of the last
\* record, or goes back to that of then.
LEMMA PromisedEarlyReset ==
  ASSUME Inv, CallInv, ResetFound, op = "late"
  PROVE  Promise!EarlyResetReturns
<1>1. Early = Len(warned) + 1 /\ Early' = Len(warned) /\ Len(warned) \in Nat
  BY ResetOpens DEF Early, Inv, TypeOK
<1>2. cur = Len(log) \/ (~IsReset(log, Len(log)) /\ Restart <= cur /\ NoReset(Restart, cur - 1))
  BY DEF CallInv
<1>3. Early > 0 /\ Early' = Early - 1
  BY <1>1
<1>4. Restart = (IF atr = Promise!NULL THEN 1 ELSE atr) /\ Restart \in Nat
  BY ResetOpens DEF Restart
<1>5. CASE cur = Len(log)
  BY <1>3, <1>5, ResetOpens DEF Promise!EarlyResetReturns
<1>6. CASE cur # Len(log)
  <2>1. Promise!NextReset(Restart, cur)
    BY <1>2, <1>4, <1>6, ResetOpens DEF Promise!NextReset, NoReset
  <2>2. ~Promise!IsReset(log, Len(log))
    BY <1>2, <1>6, ResetOpens
  <2> QED
    BY <1>3, <1>4, <2>1, <2>2, ResetOpens DEF Promise!EarlyResetReturns
<1> QED
  BY <1>5, <1>6

LEMMA PromisedStep ==
  ASSUME Inv, CallInv, TriedInv, [Next]_vars
  PROVE  [Promise!Next]_(Promise!vars)
<1>1. CASE Connect
  BY <1>1, PromisedConnect DEF Promise!Next
<1>2. CASE Disconnect
  <2>1. /\ connected' = FALSE /\ reply'.call = "disconnect"
        /\ log' = log /\ atr' = atr /\ Turned(log', atr', pos') = Turned(log, atr, pos)
        /\ Early' = Early
    BY <1>2 DEF Disconnect, Reply, loop, Early
  <2> QED
    BY <2>1 DEF Promise!Next, Promise!Disconnect
<1>3. CASE LastAtr \/ ResetBegins \/ CommandTriesNext \/ ResetTriesNext \/ UNCHANGED vars
  <2>1. UNCHANGED <<log, atr, pos, connected, reply>>
    BY <1>3 DEF LastAtr, ResetBegins, CommandTriesNext, ResetTriesNext, vars, card
  <2>2. Early' = Early
    BY <1>3 DEF LastAtr, ResetBegins, CommandTriesNext, ResetTriesNext, vars, loop, Idle, Early
  <2> QED
    BY <2>1, <2>2, NotPromised
<1>4. ASSUME NEW q \in Queries, CommandBegins(q) PROVE [Promise!Next]_(Promise!vars)
  <2>1. UNCHANGED <<log, atr, pos, connected, reply>>
    BY <1>4 DEF CommandBegins, card
  <2>2. Early' = Early
    BY <1>4 DEF CommandBegins, Idle, Early
  <2> QED
    BY <2>1, <2>2, NotPromised
<1>5. ASSUME NEW q \in Queries, CommandRefused(q) PROVE [Promise!Next]_(Promise!vars)
  <2>1. UNCHANGED <<card, Early>> /\ reply' = CommandReply(q, "ERROR", NoAnswer)
    BY <1>5 DEF CommandRefused, loop, Early
  <2>2. ~connected \/ log = <<>> \/ pos = NULL
    BY <1>5 DEF CommandRefused
  <2>3. connected => \A i \in 1 .. Len(log) : ~InSession(log, atr, i)
    BY <2>2 DEF Inv, TypeOK, SessionInv, PosInSession, ConnectedMeansReset, InSession, NULL
  <2> QED
    BY <2>1, <2>3, PromisedFailure DEF Promise!Next
<1>6. CASE CommandUnknown
  <2>1. op = "command" /\ ~IsAnswerTo(log, cur, query) /\ Advance = init /\ query \in Queries
    BY <1>6, AdvanceShape DEF CommandUnknown, SearchGoesOn, NULL, Inv, TypeOK
  <2>2. \A i \in 1 .. Len(log) : InSession(log, atr, i) => ~IsAnswerTo(log, i, query)
    BY <2>1, RuledOut
  <2>3. UNCHANGED <<card, Early>> /\ reply' = CommandReply(query, "ERROR", NoAnswer)
    BY <1>6 DEF CommandUnknown, Return, Early
  <2> QED
    BY <2>1, <2>2, <2>3, PromisedFailure DEF Promise!Next
<1>7. CASE CommandFound
  <2>1. query \in Queries
    BY <1>7 DEF CommandFound, Inv, TypeOK
  <2> QED
    BY <1>7, <2>1, PromisedAnswer DEF Promise!Next
<1>8. CASE ResetRefused
  BY <1>8, PromisedRefusal DEF Promise!Next
<1>9. CASE ResetFound
  <2>1. op \in {"reset", "late"}
    BY <1>9, ResetOpens
  <2> QED
    BY <1>9, <2>1, PromisedReset, PromisedEarlyReset DEF Promise!Next
<1>10. CASE ResetWarns
  <2>1. /\ atr = NULL /\ log # <<>> /\ UNCHANGED <<log, atr, pos, connected, reply>>
        /\ Early' = Early + 1
    <3>1. Len(<<pos>> \o warned) = 1 + Len(warned) /\ Len(warned) \in Nat
      BY DEF Inv, TypeOK
    <3> QED
      BY <1>10, <3>1 DEF ResetWarns, card, Early, Idle
  <2> QED
    BY <2>1 DEF Promise!Next, Promise!EarlyReset, Promise!NULL, NULL
<1>11. CASE ResetResumes
  <2>1. UNCHANGED <<log, atr, pos, connected, reply>> /\ Early' = Early
    <3>1. Len(Tail(warned)) = Len(warned) - 1 /\ Len(warned) \in Nat
      BY <1>11 DEF ResetResumes, Inv, TypeOK
    <3> QED
      BY <1>11, <3>1 DEF ResetResumes, card, Early, Idle
  <2> QED
    BY <2>1, NotPromised
<1> QED
  BY <1>1, <1>2, <1>3, <1>4, <1>5, <1>6, <1>7, <1>8, <1>9, <1>10, <1>11 DEF Next, SearchStep

\* Seen from its callers, each call of the emulated card is one step of
\* ReplayPromise, for every set of logs: an answer is the next recorded one of
\* the session for the query, a command the session does not hold fails, and a
\* reset opens the session that follows.  A reset before the first connection is
\* two steps, with any calls, other such resets among them, between the two.
THEOREM ReplayKeepsPromise == Spec => ImplementsPromise
<1>1. Init => TriedInv /\ CallInv
  <2>1. Init => DOMAIN warned = {}
    BY DEF Init
  <2> QED
    BY <2>1 DEF Init, TriedInv, CallInv
<1>2. Inv /\ TriedInv /\ CallInv /\ [Next]_vars => TriedInv' /\ CallInv'
  BY NextTriedInv, NextCallInv
<1>3. Init => Promise!Init
  <2> SUFFICES ASSUME Init PROVE Promise!Init
    OBVIOUS
  <2>1. atr = NULL /\ Turned(log, atr, pos) = <<>> /\ Early = 0
    BY DEF Init, Turned, Early
  <2> QED
    BY <2>1 DEF Init, Promise!Init, Promise!NULL, NULL, Reply
<1>4. Inv /\ TriedInv /\ CallInv /\ [Next]_vars => [Promise!Next]_(Promise!vars)
  BY PromisedStep
<1> QED
  BY <1>1, <1>2, <1>3, <1>4, SpecInv, PTL DEF Spec, ImplementsPromise, Promise!Spec

-------------------------------------------------------------------------------
(***************************************************************************)
(* The script that makes the recorded calls.                               *)
(***************************************************************************)
\* While a call of the script is out, its search stands on the record that was
\* made by it.
CallOnItsRecord ==
  /\ op # "late"
  /\ op # "none" => connected /\ done \in 2 .. Len(log) /\ cur = done
  /\ op = "command" => /\ ~IsReset(log, done) /\ query = log[done].query
                       /\ SessionOf(done - 1, atr)
  /\ op = "reset" => IsReset(log, done)

StartsWithReset == log # <<>> /\ IsReset(log, 1)

ScriptInv ==
  /\ ScriptTypeOK /\ SessionInv
  /\ done > 0 => StartsWithReset /\ CallOnItsRecord
  /\ FaithfulReplay

-------------------------------------------------------------------------------

LEMMA InitScriptInv == ScriptInit => ScriptInv
<1> SUFFICES ASSUME ScriptInit PROVE ScriptInv
  OBVIOUS
<1>1. TypeOK /\ SessionInv
  BY InitTypeOK, InitSessionInv DEF ScriptInit
<1>2. done \in 0 .. Len(log)
  BY <1>1 DEF ScriptInit, TypeOK
<1>3. done = 0
  BY DEF ScriptInit
<1>4. QED
  BY <1>1, <1>2, <1>3 DEF ScriptInv, ScriptTypeOK, FaithfulReplay

\* A step of a script is a step of the emulated card or leaves it alone.
LEMMA ScriptStepIsCardStep ==
  ASSUME TypeOK, done \in 0 .. Len(log), [ScriptNext]_scriptVars
  PROVE  [Next]_vars
<1>0. CASE Others
  BY <1>0 DEF Others
<1>1. CASE Starts
  BY <1>1 DEF Starts, Next
<1>2. CASE GivesUp
  BY <1>2 DEF GivesUp, Next
<1>3. CASE ReadsAtr
  BY <1>3 DEF ReadsAtr, Next
<1>4. CASE NextCall
  <2>1. done' \in 1 .. Len(log)
    BY <1>4 DEF NextCall, TypeOK
  <2>2. ~IsReset(log, done') => log[done'].query \in Queries
    BY <2>1, RecordKinds DEF TypeOK
  <2>3. QED
    BY <1>4, <2>2 DEF NextCall, Next
<1>5. CASE CardWorks
  BY <1>5 DEF CardWorks, Next
<1>6. CASE UNCHANGED scriptVars
  BY <1>6 DEF scriptVars
<1>7. QED
  BY <1>0, <1>1, <1>2, <1>3, <1>4, <1>5, <1>6 DEF ScriptNext

LEMMA NextFaithful ==
  ASSUME ScriptInv, TypeOK', [ScriptNext]_scriptVars
  PROVE  /\ done' \in 0 .. Len(log')
         /\ done' > 0 => StartsWithReset' /\ CallOnItsRecord'
         /\ FaithfulReplay'
<1>t. /\ log \in Seq(Records) /\ Len(log) \in Nat /\ done \in 0 .. Len(log)
      /\ done > 0 => StartsWithReset /\ CallOnItsRecord
      /\ FaithfulReplay
      /\ op \in {"none", "command", "reset", "late"}
      /\ Len(log') \in Nat
  BY DEF ScriptInv, ScriptTypeOK, TypeOK
<1>l. StartsWithReset => Len(log) >= 1
  BY <1>t, EmptySeq DEF StartsWithReset
<1>n. ASSUME done' = 0
      PROVE  /\ done' \in 0 .. Len(log') /\ ~(done' > 0) /\ FaithfulReplay'
  BY <1>t, <1>n DEF FaithfulReplay
<1>k. \A i \in 1 .. Len(log) :
        ~IsReset(log, i) => log[i].type = "COMMAND"
  BY <1>t, RecordKinds
<1>0. CASE Others
  BY <1>0, <1>n DEF Others
<1>1. CASE Starts
  <2>0. StartsWithReset /\ Len(log) >= 1
    BY <1>1, <1>l DEF Starts, StartsWithReset
  <2>1. /\ atr' = 1 /\ pos' = NextOf(log, 1) /\ reply' = Reply("connect", "OK")
        /\ connected' = TRUE /\ op' = "none" /\ done' = 1 /\ log' = log
    BY <1>1, <1>t, <2>0 DEF Starts, Connect, Idle, loop, StartsWithReset
  <2>2. SessionOf(1, 1)
    BY <1>t, <2>0 DEF SessionOf, StartsWithReset
  <2>3. FaithfulReplay'
    BY <1>t, <2>1, <2>2 DEF FaithfulReplay, SessionOf, NextOf, IsReset
  <2>4. QED
    BY <1>t, <2>0, <2>1, <2>3 DEF StartsWithReset, CallOnItsRecord, IsReset
<1>2. CASE GivesUp
  BY <1>2, <1>n DEF GivesUp
<1>3. CASE ReadsAtr
  BY <1>3, <1>t DEF ReadsAtr, LastAtr, loop, Idle, StartsWithReset, CallOnItsRecord, FaithfulReplay,
     IsReset, SessionOf
<1>4. CASE NextCall
  <2>1. /\ done' = done + 1 /\ done' \in 2 .. Len(log) /\ connected /\ pos = done + 1
        /\ SessionOf(done, atr) /\ log' = log
    BY <1>4, <1>t DEF NextCall, ResetBegins, CommandBegins, card, Idle, FaithfulReplay
  <2>2. CASE IsReset(log, done') /\ ResetBegins
    BY <1>t, <2>1, <2>2 DEF ResetBegins, card, StartsWithReset, CallOnItsRecord, FaithfulReplay, Idle, IsReset
  <2>3. CASE ~IsReset(log, done') /\ CommandBegins(log[done'].query)
    BY <1>t, <2>1, <2>3 DEF CommandBegins, card, StartsWithReset, CallOnItsRecord, FaithfulReplay, Idle,
       IsReset, SessionOf
  <2>4. QED
    BY <1>4, <2>2, <2>3 DEF NextCall
<1>5. CASE CardWorks
  <2>0. done' = done /\ StartsWithReset /\ CallOnItsRecord
    BY <1>5, <1>t DEF CardWorks
  <2>1. CASE CommandFound
    <3>1. /\ op = "command" /\ connected /\ done \in 2 .. Len(log) /\ cur = done
          /\ ~IsReset(log, done) /\ query = log[done].query /\ SessionOf(done - 1, atr)
      BY <2>0, <2>1 DEF CommandFound, CallOnItsRecord
    <3>2. /\ reply' = CommandReply(log[done].query, "OK", log[done].answer)
          /\ pos' = NextOrWrap(log, atr, done) /\ op' = "none"
          /\ UNCHANGED <<log, atr, connected>>
      BY <2>1, <3>1 DEF CommandFound, Return
    <3>3. SessionOf(done, atr)
      BY <1>t, <3>1 DEF SessionOf
    <3>4. done < Len(log) => pos' = done + 1
      BY <1>t, <3>1, <3>2 DEF NextOrWrap, NextOf, NULL
    <3>5. FaithfulReplay'
      BY <2>0, <3>1, <3>2, <3>3, <3>4 DEF FaithfulReplay, SessionOf, IsReset
    <3>6. QED
      BY <1>t, <2>0, <3>2, <3>5 DEF StartsWithReset, CallOnItsRecord, IsReset
  <2>2. CASE ResetFound
    <3>1. /\ op = "reset" /\ connected /\ done \in 2 .. Len(log) /\ cur = done /\ IsReset(log, done)
      BY <2>0, <2>2 DEF ResetFound, Resetting, CallOnItsRecord
    <3>2. /\ reply' = Reply("reset", "OK") /\ pos' = NextOf(log, done) /\ op' = "none"
          /\ atr' = done /\ UNCHANGED <<log, connected>>
      BY <2>2, <3>1 DEF ResetFound, Return
    <3>3. SessionOf(done, done)
      BY <1>t, <3>1 DEF SessionOf
    <3>6. done # 1 /\ (done < Len(log) => pos' = done + 1)
      <4>1. Len(log) \in Nat /\ done \in 2 .. Len(log) /\ pos' = NextOf(log, done)
        BY <1>t, <3>1, <3>2
      <4>2. done \in Int /\ done # 1
        BY <4>1
      <4>3. ASSUME done < Len(log) PROVE NextOf(log, done) = done + 1
        BY <4>3 DEF NextOf
      <4>4. QED
        BY <4>1, <4>2, <4>3
    <3>4. FaithfulReplay'
      <4>1. /\ done' # 1 /\ connected' /\ reply' = Reply("reset", "OK")
            /\ (done' < Len(log') => pos' = done' + 1)
        BY <2>0, <3>1, <3>2, <3>6
      <4>2. IsReset(log', done')
        BY <2>0, <3>1, <3>2
      <4>3. SessionOf(done, atr)'
        BY <2>0, <3>2, <3>3 DEF SessionOf, IsReset
      <4>4. QED
        BY <4>1, <4>2, <4>3 DEF FaithfulReplay, IsReset, Reply
    <3>5. QED
      BY <1>t, <2>0, <3>2, <3>4 DEF StartsWithReset, CallOnItsRecord, IsReset
  <2>3. ~CommandTriesNext /\ ~CommandUnknown /\ ~ResetTriesNext
    BY <2>0, <1>k DEF CommandTriesNext, CommandUnknown, ResetTriesNext, Resetting, CallOnItsRecord, IsAnswerTo
  <2>4. QED
    BY <1>5, <2>1, <2>2, <2>3 DEF CardWorks, SearchStep
<1>6. CASE UNCHANGED scriptVars
  BY <1>6, <1>t DEF scriptVars, vars, StartsWithReset, CallOnItsRecord, FaithfulReplay, Idle, IsReset, SessionOf
<1>7. QED
  BY <1>0, <1>1, <1>2, <1>3, <1>4, <1>5, <1>6 DEF ScriptNext

LEMMA NextScriptInv == ScriptInv /\ [ScriptNext]_scriptVars => ScriptInv'
<1> SUFFICES ASSUME ScriptInv, [ScriptNext]_scriptVars PROVE ScriptInv'
  OBVIOUS
<1>1. [Next]_vars
  BY ScriptStepIsCardStep DEF ScriptInv, ScriptTypeOK
<1>2. TypeOK' /\ SessionInv'
  BY <1>1, NextTypeOK, NextSessionInv DEF ScriptInv, ScriptTypeOK
<1>3. QED
  BY <1>2, NextFaithful DEF ScriptInv, ScriptTypeOK

LEMMA ScriptSpecInv == ScriptSpec => []ScriptInv
BY InitScriptInv, NextScriptInv, PTL DEF ScriptSpec

-------------------------------------------------------------------------------

\* A script that makes the recorded calls gets the recorded results, whatever
\* the log and whoever used the card before, and the card is ready for the next.
THEOREM ReplayIsFaithful == ScriptSpec => []FaithfulReplay
<1>1. ScriptInv => FaithfulReplay
  BY DEF ScriptInv
<1>2. QED
  BY <1>1, ScriptSpecInv, PTL

\* Neither search loop of replay.c ever goes round in a faithful replay.
THEOREM ReplayFindsAtOnce == ScriptSpec => FindsAtOnce
<1>1. ScriptInv /\ [ScriptNext]_scriptVars =>
        [done > 0 => ~CommandTriesNext /\ ~CommandUnknown /\ ~ResetTriesNext]_scriptVars
  <2> SUFFICES ASSUME ScriptInv, done > 0
               PROVE  ~CommandTriesNext /\ ~CommandUnknown /\ ~ResetTriesNext
    OBVIOUS
  <2>1. op # "none" => log \in Seq(Records) /\ done \in 1 .. Len(log)
    BY DEF ScriptInv, ScriptTypeOK, TypeOK, CallOnItsRecord
  <2>2. op # "none" /\ ~IsReset(log, done) => log[done].type = "COMMAND"
    BY <2>1, RecordKinds
  <2>3. QED
    BY <2>1, <2>2 DEF ScriptInv, CommandTriesNext, CommandUnknown, ResetTriesNext, Resetting, CallOnItsRecord, IsAnswerTo
<1>2. QED
  BY <1>1, ScriptSpecInv, PTL DEF ScriptSpec, FindsAtOnce

-------------------------------------------------------------------------------
(***************************************************************************)
(* The recording of the log by the reader layer.                           *)
(***************************************************************************)
\* The recorder always stands on the last record, so records are appended.
RecorderAtEnd == cpos = Len(cardlog)

\* A call that numbered a driver call.
Numbered(f) == f.call \in {"connect", "reset", "transmit"}

\* Numbers grow along the stack: an inner call reached the driver later.
StackInOrder ==
  \A i, j \in 1 .. Len(stack) :
    i < j /\ Numbered(stack[i]) /\ Numbered(stack[j]) => stack[i].nr < stack[j].nr

NoneAhead ==
  /\ sw <= seen
  /\ \A i \in 1 .. Len(cardlog) : cardlog[i].nr <= seen
  /\ \A i \in 1 .. Len(stack) : stack[i].nr <= seen

\* A transmission that is recorded finds its own status word or a later one.
StatusCovers ==
  \A i \in 1 .. Len(stack) :
    stack[i].call = "transmit" /\ stack[i].at = "shown" => stack[i].nr <= sw

CallsInv ==
  /\ RecorderAtEnd /\ StackInOrder /\ NoneAhead /\ StatusCovers
  /\ AnsweredInOrder /\ RecordedOnce /\ StatusNeverOlder /\ SavedIsShown

-------------------------------------------------------------------------------

\* At the end of the list, linking a record behind the position appends it.
LEMMA LinkedAtEnd ==
  ASSUME NEW S, NEW l \in Seq(S), NEW e \in S
  PROVE  Linked(l, Len(l), e) = Append(l, e) /\ LinkedPos(l, Len(l)) = Len(l) + 1
<1>1. CASE l = <<>>
  BY <1>1 DEF Linked, LinkedPos
<1>2. CASE l # <<>>
  <2>1. SubSeq(l, 1, Len(l)) = l
    BY SubSeqFull
  <2>2. SubSeq(l, Len(l) + 1, Len(l)) = <<>>
    BY SubSeqEmpty
  <2>3. l \o <<e>> = Append(l, e) /\ Append(l, e) \in Seq(S)
    BY AppendIsConcat, AppendProperties
  <2>4. Append(l, e) \o <<>> = Append(l, e)
    BY <2>3, ConcatEmptySeq
  <2>5. QED
    BY <1>2, <2>1, <2>2, <2>3, <2>4 DEF Linked, LinkedPos
<1>3. QED
  BY <1>1, <1>2

\* Recording: the record is the new end of the log and of the view.
LEMMA RecordsAppends ==
  ASSUME ReaderTypeOK, RecorderAtEnd, NEW e \in Entries, Adds(e)
  PROVE  /\ cardlog' = Append(cardlog, e) /\ view' = Append(view, e)
         /\ cpos' = Len(cardlog')
         /\ cardlog' \in Seq(Entries) /\ view' \in Seq(Entries)
<1>1. cardlog' = Append(cardlog, e) /\ cpos' = Len(cardlog) + 1
  BY LinkedAtEnd DEF ReaderTypeOK, RecorderAtEnd, Adds
<1>2. Append(cardlog, e) \in Seq(Entries) /\ Len(Append(cardlog, e)) = Len(cardlog) + 1
  BY AppendProperties DEF ReaderTypeOK
<1>3. view' = Append(view, e) /\ view' \in Seq(Entries)
  BY AppendProperties DEF ReaderTypeOK, Adds
<1>4. QED
  BY <1>1, <1>2, <1>3

\* What the three ways of changing the stack do to it.
LEMMA EntersAppends ==
  ASSUME ReaderTypeOK, NEW c \in Procs, NEW a \in {"driver", "atr", "shown"}, NEW n \in Nat,
         Enters(c, a, n)
  PROVE  /\ stack' \in Seq(Frames) /\ Len(stack') = Len(stack) + 1
         /\ \A i \in 1 .. Len(stack) : stack'[i] = stack[i]
         /\ stack'[Len(stack')] = [call |-> c, at |-> a, nr |-> n]
<1>1. [call |-> c, at |-> a, nr |-> n] \in Frames
  BY DEF Frames
<1>2. QED
  BY <1>1, AppendProperties DEF ReaderTypeOK, Enters

LEMMA TopIsFrame ==
  ASSUME ReaderTypeOK, stack # <<>>
  PROVE  Len(stack) \in 1 .. Len(stack) /\ Top \in Frames
BY EmptySeq DEF ReaderTypeOK, Top

LEMMA MovesToKeeps ==
  ASSUME ReaderTypeOK, stack # <<>>, NEW a \in {"driver", "atr", "shown"}, MovesTo(a)
  PROVE  /\ stack' \in Seq(Frames) /\ Len(stack') = Len(stack)
         /\ \A i \in 1 .. Len(stack) : i # Len(stack) => stack'[i] = stack[i]
         /\ stack'[Len(stack)].at = a
         /\ stack'[Len(stack)].call = Top.call /\ stack'[Len(stack)].nr = Top.nr
<1>1. Len(stack) \in 1 .. Len(stack) /\ Top \in Frames
  BY TopIsFrame
<1>2. [Top EXCEPT !.at = a] \in Frames
  BY <1>1 DEF Frames
<1>3. stack' = [stack EXCEPT ![Len(stack)] = [Top EXCEPT !.at = a]]
  BY DEF MovesTo, Top
<1>4. QED
  BY <1>1, <1>2, <1>3, ExceptSeq DEF ReaderTypeOK, Frames

LEMMA ReturnsPops ==
  ASSUME ReaderTypeOK, stack # <<>>, Returns
  PROVE  /\ stack' \in Seq(Frames) /\ Len(stack') = Len(stack) - 1
         /\ \A i \in 1 .. Len(stack') : stack'[i] = stack[i]
<1> DEFINE n == Len(stack) - 1
<1>1. stack \in Seq(Frames) /\ Len(stack) \in Nat \ {0}
  BY EmptySeq DEF ReaderTypeOK
<1>2. /\ SubSeq(stack, 1, n) \in Seq(Frames)
      /\ Len(SubSeq(stack, 1, n)) = IF 1 <= n THEN n - 1 + 1 ELSE 0
      /\ \A i \in 1 .. n - 1 + 1 : SubSeq(stack, 1, n)[i] = stack[1 + i - 1]
  <2>1. n \in Int /\ \A i \in 1 .. n : stack[i] \in Frames
    BY <1>1
  <2> HIDE DEF n
  <2> QED
    BY <2>1, SubSeqProperties
<1>3. n \in Nat /\ n - 1 + 1 = n /\ \A i \in 1 .. n : 1 + i - 1 = i
  BY <1>1
<1>4. stack' = SubSeq(stack, 1, n)
  BY DEF Returns
<1> HIDE DEF n
<1>5. Len(stack') = n /\ stack' \in Seq(Frames)
  BY <1>2, <1>3, <1>4
<1>6. \A i \in 1 .. Len(stack') : stack'[i] = stack[i]
  BY <1>2, <1>3, <1>4, <1>5
<1> QED
  BY <1>5, <1>6 DEF n
-------------------------------------------------------------------------------

LEMMA InitCallsInv == ReaderInit => ReaderTypeOK /\ CallsInv
<1> SUFFICES ASSUME ReaderInit PROVE ReaderTypeOK /\ CallsInv
  OBVIOUS
<1>1. ReaderTypeOK
  <2>1. result \in [own : Nat, status : Nat] /\ files \in Seq(Seq(Entries))
    BY EmptySeq DEF ReaderInit
  <2>2. /\ seen \in Nat /\ handle \in BOOLEAN /\ sw \in Nat
        /\ cardlog \in Seq(Entries)
    BY EmptySeq DEF ReaderInit
  <2>5. cpos \in 0 .. Len(cardlog)
    BY DEF ReaderInit, NULL
  <2>3. view \in Seq(Entries) /\ stack \in Seq(Frames)
    BY EmptySeq DEF ReaderInit
  <2>4. QED
    BY <2>1, <2>2, <2>3, <2>5 DEF ReaderTypeOK
<1>2. CallsInv
  BY EmptySeq DEF ReaderInit, NULL, CallsInv, RecorderAtEnd, StackInOrder, NoneAhead, StatusCovers,
     AnsweredInOrder, RecordedOnce, Pending, StatusNeverOlder, SavedIsShown, IsEndOf
<1>3. QED
  BY <1>1, <1>2

\* A file may be added to the saved ones.
LEMMA SavesTyped ==
  ASSUME ReaderTypeOK PROVE Append(files, cardlog) \in Seq(Seq(Entries))
BY AppendProperties DEF ReaderTypeOK

LEMMA NextReaderTypeOK ==
  ASSUME ReaderTypeOK, RecorderAtEnd, [ReaderNext]_readerVars
  PROVE  ReaderTypeOK'
<1>0. Len(stack) \in Nat /\ Len(cardlog) \in Nat /\ <<>> \in Seq(Entries) /\ Len(<<>>) = 0
  BY EmptySeq DEF ReaderTypeOK
<1>a. stack # <<>> => Top.nr \in Nat
  BY TopIsFrame DEF Frames
<1>b. seen \in Nat /\ (DriverCall => seen' \in Nat)
  BY DEF ReaderTypeOK, DriverCall
<1>1. CASE ConnectBegins
  BY <1>1, <1>b, EntersAppends DEF ConnectBegins, ReaderTypeOK, Procs
<1>2. CASE WarmResetBegins
  BY <1>2, <1>b, EntersAppends DEF WarmResetBegins, ReaderTypeOK, Procs
<1>3. CASE AtrLogged
  BY <1>3, MovesToKeeps DEF AtrLogged, IsAt, ReaderTypeOK
<1>4. CASE RecordsReset
  <2>1. Entry("RESET", Top.nr) \in Entries
    BY <1>4, <1>a DEF RecordsReset, IsAt, Entry, Entries, Kinds
  <2>2. cardlog' \in Seq(Entries) /\ view' \in Seq(Entries) /\ cpos' \in 0 .. Len(cardlog')
    BY <1>4, <2>1, RecordsAppends DEF RecordsReset
  <2>3. QED
    BY <1>4, <2>2, MovesToKeeps DEF RecordsReset, IsAt, ReaderTypeOK
<1>5. CASE LastAtrBegins
  BY <1>5, EntersAppends DEF LastAtrBegins, ReaderTypeOK, Procs
<1>6. CASE DisconnectBegins
  BY <1>6, EntersAppends DEF DisconnectBegins, ReaderTypeOK, Procs
<1>7. CASE DriverDisconnects
  BY <1>7, MovesToKeeps DEF DriverDisconnects, IsAt, ReaderTypeOK
<1>8. CASE CallEnds
  BY <1>8, ReturnsPops DEF CallEnds, IsAt, ReaderTypeOK
<1>9. CASE TransmitAnswered
  <2>1. Entry("ANSWERED", seen') \in Entries
    BY <1>9, <1>b DEF TransmitAnswered, Entry, Entries, Kinds
  <2>2. cardlog' \in Seq(Entries) /\ view' \in Seq(Entries) /\ cpos' \in 0 .. Len(cardlog')
    BY <1>9, <2>1, RecordsAppends DEF TransmitAnswered
  <2>3. QED
    BY <1>9, <1>b, <2>2, EntersAppends DEF TransmitAnswered, ReaderTypeOK, Procs
<1>10. CASE TransmitFails
  BY <1>10, <1>b, EntersAppends DEF TransmitFails, ReaderTypeOK, Procs
<1>11. CASE RecordsFailure
  <2>1. Entry("FAILED", Top.nr) \in Entries
    BY <1>11, <1>a DEF RecordsFailure, IsAt, Entry, Entries, Kinds
  <2>2. cardlog' \in Seq(Entries) /\ view' \in Seq(Entries) /\ cpos' \in 0 .. Len(cardlog')
    BY <1>11, <2>1, RecordsAppends DEF RecordsFailure
  <2>3. QED
    BY <1>11, <1>a, <2>2, MovesToKeeps DEF RecordsFailure, IsAt, ReaderTypeOK
<1>12. CASE TransmitEnds
  BY <1>12, <1>a, ReturnsPops DEF TransmitEnds, IsAt, ReaderTypeOK
<1>13. CASE ClearBegins
  BY <1>13, <1>0, EntersAppends DEF ClearBegins, ReaderTypeOK, Procs
<1>14. CASE ClearEnds
  BY <1>14, <1>0, ReturnsPops DEF ClearEnds, IsAt, ReaderTypeOK, NULL
<1>15. CASE SaveBegins
  BY <1>15, EntersAppends DEF SaveBegins, ReaderTypeOK, Procs
<1>16. CASE SaveEnds
  BY <1>16, SavesTyped, ReturnsPops DEF SaveEnds, IsAt, ReaderTypeOK
<1>17. CASE UNCHANGED readerVars
  BY <1>17 DEF readerVars, ReaderTypeOK
<1>18. QED
  BY <1>1, <1>2, <1>3, <1>4, <1>5, <1>6, <1>7, <1>8, <1>9, <1>10, <1>11, <1>12,
     <1>13, <1>14, <1>15, <1>16, <1>17 DEF ReaderNext

-------------------------------------------------------------------------------

\* Every number is a natural number.
LEMMA NumbersTyped ==
  ASSUME ReaderTypeOK
  PROVE  /\ seen \in Nat /\ sw \in Nat /\ Len(stack) \in Nat /\ Len(cardlog) \in Nat /\ Len(view) \in Nat
         /\ \A i \in 1 .. Len(stack) : stack[i].nr \in Nat
         /\ \A i \in 1 .. Len(cardlog) : cardlog[i].nr \in Nat
<1>1. \A i \in 1 .. Len(stack) : stack[i] \in Frames
  BY DEF ReaderTypeOK
<1>2. \A i \in 1 .. Len(cardlog) : cardlog[i] \in Entries
  BY DEF ReaderTypeOK
<1>3. /\ seen \in Nat /\ sw \in Nat
      /\ Len(stack) \in Nat /\ Len(cardlog) \in Nat /\ Len(view) \in Nat
  BY DEF ReaderTypeOK
<1>4. \A f \in Frames : f.nr \in Nat
  BY DEF Frames
<1>5. \A e \in Entries : e.nr \in Nat
  BY DEF Entries
<1>6. QED
  BY <1>1, <1>2, <1>3, <1>4, <1>5

\* A new call, numbered behind all others or not at all, disturbs nothing.
LEMMA EnterKeepsInv ==
  ASSUME ReaderTypeOK, CallsInv,
         NEW c \in Procs, NEW a \in {"driver", "atr", "shown"}, NEW n \in Nat,
         Enters(c, a, n), seen' \in Nat, seen <= seen', n <= seen',
         c \in {"connect", "reset", "transmit"} => n > seen,
         c = "transmit" => a = "driver",
         UNCHANGED <<cardlog, cpos, sw, result>>,
         view' = view \/ (c = "clear" /\ view' = <<>>)
  PROVE  CallsInv'
<1>n. Len(stack) \in Nat /\ seen \in Nat /\ sw \in Nat /\ \A i \in 1 .. Len(stack) : stack[i].nr \in Nat
  BY NumbersTyped
<1>s. /\ Len(stack') = Len(stack) + 1
      /\ \A i \in 1 .. Len(stack) : stack'[i] = stack[i]
      /\ stack'[Len(stack) + 1] = [call |-> c, at |-> a, nr |-> n]
  BY EntersAppends
<1>t. /\ stack'[Len(stack) + 1].call = c /\ stack'[Len(stack) + 1].at = a
      /\ stack'[Len(stack) + 1].nr = n
  BY <1>s
<1>l. Len(cardlog) \in Nat /\ Len(cardlog') = Len(cardlog) /\ cardlog' = cardlog
  BY NumbersTyped
<1>1. RecorderAtEnd' /\ AnsweredInOrder' /\ StatusNeverOlder'
  BY DEF CallsInv, RecorderAtEnd, AnsweredInOrder, StatusNeverOlder
<1>2. StackInOrder'
  <2>1. StackInOrder /\ \A i \in 1 .. Len(stack) : stack[i].nr <= seen
    BY DEF CallsInv, NoneAhead
  <2>2. SUFFICES ASSUME NEW i \in 1 .. Len(stack'), NEW j \in 1 .. Len(stack'), i < j,
                        Numbered(stack'[i]), Numbered(stack'[j])
                 PROVE  stack'[i].nr < stack'[j].nr
    BY DEF StackInOrder, Numbered
  <2>3. CASE j = Len(stack) + 1
    BY <1>n, <1>s, <1>t, <2>1, <2>2, <2>3 DEF Numbered
  <2>4. CASE j # Len(stack) + 1
    BY <1>n, <1>s, <2>1, <2>2, <2>4 DEF StackInOrder
  <2>5. QED
    BY <2>3, <2>4
<1>3. NoneAhead'
  <2>1. \A i \in 1 .. Len(cardlog) : cardlog[i].nr \in Nat
    BY NumbersTyped
  <2>2. QED
    BY <1>n, <1>s, <1>t, <1>l, <2>1 DEF CallsInv, NoneAhead
<1>4. StatusCovers'
  BY <1>n, <1>s, <1>t DEF CallsInv, StatusCovers
<1>5. RecordedOnce'
  <2>1. \A i \in Pending' : i \in Pending \/ (i = Len(stack) + 1 /\ n > seen)
    BY <1>n, <1>s, <1>t DEF Pending
  <2>2. \A i \in Pending : i \in 1 .. Len(stack)
    BY DEF Pending
  <2>3. \A i \in 1 .. Len(cardlog) : cardlog[i].nr \in Nat
    BY NumbersTyped
  <2>4. RecordedOnce /\ (\A i \in 1 .. Len(cardlog) : cardlog[i].nr <= seen)
        /\ \A i \in 1 .. Len(stack) : stack[i].nr <= seen
    BY DEF CallsInv, NoneAhead
  <2>5. \A i, j \in Pending' : stack'[i].nr = stack'[j].nr => i = j
    BY <1>n, <1>s, <1>t, <2>1, <2>2, <2>4 DEF RecordedOnce
  <2>6. \A i \in Pending', j \in 1 .. Len(cardlog) : stack'[i].nr # cardlog[j].nr
    <3>1. SUFFICES ASSUME NEW i \in Pending', NEW j \in 1 .. Len(cardlog)
                   PROVE  stack'[i].nr # cardlog[j].nr
      OBVIOUS
    <3>2. CASE i \in Pending
      BY <1>s, <2>2, <2>4, <3>2 DEF RecordedOnce
    <3>3. CASE i = Len(stack) + 1 /\ n > seen
      BY <1>n, <1>t, <2>3, <2>4, <3>3
    <3>4. QED
      BY <2>1, <3>2, <3>3
  <2>7. QED
    BY <1>l, <2>4, <2>5, <2>6 DEF RecordedOnce
<1>6. SavedIsShown'
  <2>1. CASE view' = view
    BY <1>n, <1>s, <1>t, <2>1 DEF CallsInv, SavedIsShown, IsEndOf
  <2>2. CASE c = "clear" /\ view' = <<>>
    BY <1>n, <1>s, <1>t, <1>l, <2>2, EmptySeq DEF SavedIsShown, IsEndOf
  <2>3. QED
    BY <2>1, <2>2
<1>7. QED
  BY <1>1, <1>2, <1>3, <1>4, <1>5, <1>6 DEF CallsInv

\* A call that ends, other than a clear, disturbs nothing.
LEMMA ReturnKeepsInv ==
  ASSUME ReaderTypeOK, CallsInv, stack # <<>>, Returns, Top.call # "clear",
         UNCHANGED <<seen, cardlog, cpos, sw, view>>, StatusNeverOlder'
  PROVE  CallsInv'
<1>n. Len(stack) \in Nat
  BY NumbersTyped
<1>s. Len(stack') = Len(stack) - 1 /\ \A i \in 1 .. Len(stack') : stack'[i] = stack[i]
  BY ReturnsPops
<1>1. RecorderAtEnd' /\ AnsweredInOrder' /\ NoneAhead'
  BY <1>n, <1>s DEF CallsInv, RecorderAtEnd, AnsweredInOrder, NoneAhead
<1>2. StatusCovers' /\ StackInOrder'
  BY <1>n, <1>s DEF CallsInv, StatusCovers, StackInOrder, Numbered
<1>3. RecordedOnce'
  <2>1. \A i \in Pending' : i \in Pending /\ stack'[i] = stack[i]
    BY <1>n, <1>s DEF Pending
  <2>2. QED
    BY <2>1 DEF CallsInv, RecordedOnce
<1>4. SavedIsShown'
  <2>1. ASSUME NEW i \in 1 .. Len(stack), stack[i].call = "clear"
        PROVE  i \in 1 .. Len(stack') /\ stack'[i].call = "clear"
    BY <1>n, <1>s, <2>1 DEF Top
  <2>2. QED
    BY <2>1 DEF CallsInv, SavedIsShown, IsEndOf
<1>5. QED
  BY <1>1, <1>2, <1>3, <1>4 DEF CallsInv

\* Nor does a call that goes on without recording what it did.
LEMMA MoveKeepsInv ==
  ASSUME ReaderTypeOK, CallsInv, stack # <<>>, NEW a \in {"driver", "atr"}, MovesTo(a),
         Top.call # "transmit", Top.at # "shown" \/ Top.call = "disconnect",
         UNCHANGED <<seen, cardlog, cpos, sw, view, result>>
  PROVE  CallsInv'
<1>n. Len(stack) \in Nat \ {0}
  BY NumbersTyped, TopIsFrame
<1>s. /\ Len(stack') = Len(stack)
      /\ \A i \in 1 .. Len(stack) : i # Len(stack) => stack'[i] = stack[i]
      /\ stack'[Len(stack)].at = a /\ stack'[Len(stack)].call = stack[Len(stack)].call
      /\ stack'[Len(stack)].nr = stack[Len(stack)].nr
  BY MovesToKeeps DEF Top
<1>t. \A i \in 1 .. Len(stack) : stack'[i].call = stack[i].call /\ stack'[i].nr = stack[i].nr
  BY <1>n, <1>s
<1>1. RecorderAtEnd' /\ AnsweredInOrder' /\ NoneAhead' /\ StatusNeverOlder'
  BY <1>s, <1>t DEF CallsInv, RecorderAtEnd, AnsweredInOrder, NoneAhead, StatusNeverOlder
<1>2. StackInOrder'
  BY <1>s, <1>t DEF CallsInv, StackInOrder, Numbered
<1>3. StatusCovers'
  BY <1>n, <1>s, <1>t DEF CallsInv, StatusCovers, Top
<1>4. RecordedOnce'
  <2>1. \A i \in Pending' : i \in Pending
    BY <1>n, <1>s, <1>t DEF Pending, Top
  <2>2. \A i \in Pending : i \in 1 .. Len(stack)
    BY DEF Pending
  <2>3. QED
    BY <1>t, <2>1, <2>2 DEF CallsInv, RecordedOnce
<1>5. SavedIsShown'
  BY <1>s, <1>t DEF CallsInv, SavedIsShown, IsEndOf
<1>6. QED
  BY <1>1, <1>2, <1>3, <1>4, <1>5 DEF CallsInv

\* Appending the same record to both keeps one list the end of the other.
LEMMA EndOfAppended ==
  ASSUME NEW s \in Seq(Entries), NEW l \in Seq(Entries), NEW e \in Entries, IsEndOf(s, l)
  PROVE  IsEndOf(Append(s, e), Append(l, e))
<1>1. /\ Len(Append(s, e)) = Len(s) + 1 /\ Append(s, e)[Len(s) + 1] = e
      /\ \A i \in 1 .. Len(s) : Append(s, e)[i] = s[i]
  BY AppendProperties
<1>2. /\ Len(Append(l, e)) = Len(l) + 1 /\ Append(l, e)[Len(l) + 1] = e
      /\ \A i \in 1 .. Len(l) : Append(l, e)[i] = l[i]
  BY AppendProperties
<1>3. Len(s) \in Nat /\ Len(l) \in Nat
  OBVIOUS
<1>4. QED
  BY <1>1, <1>2, <1>3 DEF IsEndOf

\* A record with a new number leaves the numbers of a list distinct.
LEMMA DistinctAppended ==
  ASSUME NEW l \in Seq(Entries), NEW e \in Entries,
         \A i, j \in 1 .. Len(l) : l[i].nr = l[j].nr => i = j,
         \A i \in 1 .. Len(l) : l[i].nr # e.nr
  PROVE  \A i, j \in 1 .. Len(Append(l, e)) : Append(l, e)[i].nr = Append(l, e)[j].nr => i = j
<1>1. /\ Len(Append(l, e)) = Len(l) + 1 /\ Append(l, e)[Len(l) + 1] = e
      /\ \A i \in 1 .. Len(l) : Append(l, e)[i] = l[i]
  BY AppendProperties
<1>2. SUFFICES ASSUME NEW i \in 1 .. Len(l) + 1, NEW j \in 1 .. Len(l) + 1,
                      Append(l, e)[i].nr = Append(l, e)[j].nr
               PROVE  i = j
  BY <1>1
<1>3. Len(l) \in Nat
  OBVIOUS
<1>4. CASE i = Len(l) + 1 \/ j = Len(l) + 1
  BY <1>1, <1>2, <1>3, <1>4
<1>5. CASE i # Len(l) + 1 /\ j # Len(l) + 1
  BY <1>1, <1>2, <1>3, <1>5
<1>6. QED
  BY <1>4, <1>5

\* A reset or a failure is recorded by the call that was waiting to do so.
LEMMA LateRecordKeepsInv ==
  ASSUME ReaderTypeOK, CallsInv, stack # <<>>, MovesTo("shown"), NEW e \in Entries,
         e.kind # "ANSWERED", e.nr = Top.nr, Adds(e), Len(stack) \in Pending,
         IF Top.call = "transmit" THEN sw' = Top.nr ELSE sw' = sw,
         UNCHANGED <<seen, result>>
  PROVE  CallsInv'
<1>n. /\ Len(stack) \in Nat \ {0} /\ Len(cardlog) \in Nat /\ seen \in Nat /\ sw \in Nat
      /\ \A i \in 1 .. Len(stack) : stack[i].nr \in Nat
      /\ \A i \in 1 .. Len(cardlog) : cardlog[i].nr \in Nat
  BY NumbersTyped, TopIsFrame
<1>s. /\ Len(stack') = Len(stack)
      /\ \A i \in 1 .. Len(stack) : i # Len(stack) => stack'[i] = stack[i]
      /\ stack'[Len(stack)].at = "shown" /\ stack'[Len(stack)].call = stack[Len(stack)].call
      /\ stack'[Len(stack)].nr = stack[Len(stack)].nr
  BY MovesToKeeps DEF Top
<1>t. \A i \in 1 .. Len(stack) : stack'[i].call = stack[i].call /\ stack'[i].nr = stack[i].nr
  BY <1>n, <1>s
<1>r. /\ cardlog' = Append(cardlog, e) /\ view' = Append(view, e) /\ cpos' = Len(cardlog')
  BY RecordsAppends DEF CallsInv
<1>l. /\ Len(cardlog') = Len(cardlog) + 1 /\ cardlog'[Len(cardlog) + 1] = e
      /\ \A i \in 1 .. Len(cardlog) : cardlog'[i] = cardlog[i]
  BY <1>r, AppendProperties DEF ReaderTypeOK
<1>e. e.nr = stack[Len(stack)].nr
  BY DEF Top
<1>1. RecorderAtEnd' /\ StatusNeverOlder'
  BY <1>r DEF CallsInv, RecorderAtEnd, StatusNeverOlder
<1>2. AnsweredInOrder'
  <2>1. SUFFICES ASSUME NEW i \in 1 .. Len(cardlog'), NEW j \in 1 .. Len(cardlog'),
                        i < j, cardlog'[j].kind = "ANSWERED"
                 PROVE  cardlog'[i].nr < cardlog'[j].nr
    BY DEF AnsweredInOrder
  <2>2. j # Len(cardlog) + 1
    BY <1>l, <2>1
  <2>3. i \in 1 .. Len(cardlog) /\ j \in 1 .. Len(cardlog)
    BY <1>n, <1>l, <2>1, <2>2
  <2>4. QED
    BY <1>l, <2>1, <2>3 DEF CallsInv, AnsweredInOrder
<1>3. StackInOrder'
  BY <1>s, <1>t DEF CallsInv, StackInOrder, Numbered
<1>4. NoneAhead'
  <2>1. e.nr <= seen
    BY <1>n, <1>e DEF CallsInv, NoneAhead
  <2>2. \A i \in 1 .. Len(cardlog') : cardlog'[i].nr <= seen'
    BY <1>n, <1>l, <2>1 DEF CallsInv, NoneAhead
  <2>3. sw' <= seen' /\ \A i \in 1 .. Len(stack') : stack'[i].nr <= seen'
    BY <1>s, <1>t, <1>e, <2>1 DEF CallsInv, NoneAhead
  <2>4. QED
    BY <2>2, <2>3 DEF NoneAhead
<1>5. StatusCovers'
  <2>1. CASE Top.call = "transmit"
    <3>1. \A i \in 1 .. Len(stack) : i # Len(stack) /\ stack[i].call = "transmit" =>
             stack[i].nr < e.nr
      BY <1>n, <1>e, <2>1 DEF CallsInv, StackInOrder, Numbered, Top
    <3>2. QED
      BY <1>n, <1>s, <1>t, <1>e, <2>1, <3>1 DEF StatusCovers
  <2>2. CASE Top.call # "transmit"
    BY <1>n, <1>s, <1>t, <2>2 DEF CallsInv, StatusCovers, Top
  <2>3. QED
    BY <2>1, <2>2
<1>6. RecordedOnce'
  <2>1. \A i \in Pending' : i \in Pending /\ i # Len(stack)
    BY <1>n, <1>s, <1>t DEF Pending
  <2>2. \A i \in Pending : i \in 1 .. Len(stack)
    BY DEF Pending
  <2>3. \A i, j \in Pending' : stack'[i].nr = stack'[j].nr => i = j
    BY <1>t, <2>1, <2>2 DEF CallsInv, RecordedOnce
  <2>4. \A i \in 1 .. Len(cardlog) : cardlog[i].nr # e.nr
    BY <1>e DEF CallsInv, RecordedOnce
  <2>5. \A i, j \in 1 .. Len(cardlog') : cardlog'[i].nr = cardlog'[j].nr => i = j
    BY <1>r, <2>4, DistinctAppended DEF CallsInv, RecordedOnce, ReaderTypeOK
  <2>6. \A i \in Pending' : stack'[i].nr # e.nr
    BY <1>e, <1>t, <2>1, <2>2 DEF CallsInv, RecordedOnce
  <2>7. \A i \in Pending', j \in 1 .. Len(cardlog) : stack'[i].nr # cardlog[j].nr
    BY <1>t, <2>1, <2>2 DEF CallsInv, RecordedOnce
  <2>8. \A i \in Pending', j \in 1 .. Len(cardlog') : stack'[i].nr # cardlog'[j].nr
    BY <1>n, <1>l, <2>6, <2>7
  <2>9. QED
    BY <2>3, <2>5, <2>8 DEF RecordedOnce
<1>7. SavedIsShown'
  <2>1. cardlog \in Seq(Entries) /\ view \in Seq(Entries)
    BY DEF ReaderTypeOK
  <2>2. CASE IsEndOf(cardlog, view)
    BY <1>r, <2>1, <2>2, EndOfAppended DEF SavedIsShown
  <2>3. CASE IsEndOf(view, cardlog) /\ \E i \in 1 .. Len(stack) : stack[i].call = "clear"
    BY <1>r, <1>s, <1>t, <2>1, <2>3, EndOfAppended DEF SavedIsShown
  <2>4. QED
    BY <2>2, <2>3 DEF CallsInv, SavedIsShown
<1>8. QED
  BY <1>1, <1>2, <1>3, <1>4, <1>5, <1>6, <1>7 DEF CallsInv

\* An answer is recorded as it comes, with a number larger than all others.
LEMMA AnswerKeepsInv ==
  ASSUME ReaderTypeOK, CallsInv, TransmitAnswered
  PROVE  CallsInv'
<1>n. /\ Len(stack) \in Nat /\ Len(cardlog) \in Nat /\ seen \in Nat /\ sw \in Nat
      /\ \A i \in 1 .. Len(stack) : stack[i].nr \in Nat
      /\ \A i \in 1 .. Len(cardlog) : cardlog[i].nr \in Nat
  BY NumbersTyped
<1>d. seen' = seen + 1 /\ sw' = seen + 1 /\ result' = result
  BY DEF TransmitAnswered, DriverCall
<1>o. /\ sw <= seen
      /\ \A i \in 1 .. Len(cardlog) : cardlog[i].nr <= seen
      /\ \A i \in 1 .. Len(stack) : stack[i].nr <= seen
  BY DEF CallsInv, NoneAhead
<1> DEFINE e == Entry("ANSWERED", seen')
<1>e. e \in Entries /\ e.nr = seen + 1
  BY <1>n, <1>d DEF Entry, Entries, Kinds
<1>r. cardlog' = Append(cardlog, e) /\ view' = Append(view, e) /\ cpos' = Len(cardlog')
  BY <1>e, RecordsAppends DEF CallsInv, TransmitAnswered
<1>l. /\ Len(cardlog') = Len(cardlog) + 1 /\ cardlog'[Len(cardlog) + 1] = e
      /\ \A i \in 1 .. Len(cardlog) : cardlog'[i] = cardlog[i]
  BY <1>e, <1>r, AppendProperties DEF ReaderTypeOK
<1>s. /\ Len(stack') = Len(stack) + 1
      /\ \A i \in 1 .. Len(stack) : stack'[i] = stack[i]
      /\ stack'[Len(stack) + 1] = [call |-> "transmit", at |-> "shown", nr |-> seen + 1]
  BY <1>n, <1>d, EntersAppends DEF TransmitAnswered, Procs
<1>t. /\ stack'[Len(stack) + 1].call = "transmit" /\ stack'[Len(stack) + 1].at = "shown"
      /\ stack'[Len(stack) + 1].nr = seen + 1
  BY <1>s
<1> HIDE DEF e
<1>1. RecorderAtEnd' /\ StatusNeverOlder'
  BY <1>d, <1>r DEF CallsInv, RecorderAtEnd, StatusNeverOlder
<1>2. AnsweredInOrder'
  <2>1. SUFFICES ASSUME NEW i \in 1 .. Len(cardlog'), NEW j \in 1 .. Len(cardlog'),
                        i < j, cardlog'[j].kind = "ANSWERED"
                 PROVE  cardlog'[i].nr < cardlog'[j].nr
    BY DEF AnsweredInOrder
  <2>2. CASE j = Len(cardlog) + 1
    <3>1. i \in 1 .. Len(cardlog)
      BY <1>n, <1>l, <2>1, <2>2
    <3>2. cardlog'[i].nr <= seen /\ cardlog'[j].nr = seen + 1
      BY <1>o, <1>e, <1>l, <2>2, <3>1
    <3>3. QED
      BY <1>n, <1>l, <3>1, <3>2
  <2>3. CASE j # Len(cardlog) + 1
    BY <1>n, <1>l, <2>1, <2>3 DEF CallsInv, AnsweredInOrder
  <2>4. QED
    BY <2>2, <2>3
<1>3. StackInOrder'
  <2>1. SUFFICES ASSUME NEW i \in 1 .. Len(stack'), NEW j \in 1 .. Len(stack'), i < j,
                        Numbered(stack'[i]), Numbered(stack'[j])
                 PROVE  stack'[i].nr < stack'[j].nr
    BY DEF StackInOrder, Numbered
  <2>2. CASE j = Len(stack) + 1
    BY <1>n, <1>o, <1>s, <1>t, <2>1, <2>2
  <2>3. CASE j # Len(stack) + 1
    <3>0. Len(stack) \in Nat /\ Len(stack') = Len(stack) + 1
      BY <1>n, <1>s
    <3>1. i \in 1 .. Len(stack) /\ j \in 1 .. Len(stack)
      BY <2>1, <2>3, <3>0
    <3>2. StackInOrder
      BY DEF CallsInv
    <3>3. QED
      BY <1>s, <2>1, <3>1, <3>2 DEF StackInOrder
  <2>4. QED
    BY <2>2, <2>3
<1>4. NoneAhead'
  <2>1. \A i \in 1 .. Len(cardlog') : cardlog'[i].nr <= seen + 1
    <3>1. \A i \in 1 .. Len(cardlog) : cardlog'[i].nr <= seen + 1
      BY <1>n, <1>o, <1>l
    <3>2. QED
      BY <1>n, <1>e, <1>l, <3>1
  <2>2. \A i \in 1 .. Len(stack') : stack'[i].nr <= seen + 1
    <3>1. \A i \in 1 .. Len(stack) : stack'[i].nr <= seen + 1
      BY <1>n, <1>o, <1>s
    <3>2. QED
      BY <1>n, <1>s, <1>t, <3>1
  <2>3. QED
    BY <1>n, <1>d, <2>1, <2>2 DEF NoneAhead
<1>5. StatusCovers'
  <2>1. \A i \in 1 .. Len(stack') : stack'[i].nr <= sw'
    <3>1. \A i \in 1 .. Len(stack) : stack'[i].nr <= sw'
      BY <1>n, <1>o, <1>d, <1>s
    <3>2. QED
      BY <1>n, <1>d, <1>s, <1>t, <3>1
  <2>2. QED
    BY <2>1 DEF StatusCovers
<1>6. RecordedOnce'
  <2>1. \A i \in Pending' : i \in Pending /\ stack'[i] = stack[i]
    BY <1>n, <1>s, <1>t DEF Pending
  <2>2. \A i \in Pending : i \in 1 .. Len(stack)
    BY DEF Pending
  <2>3. \A i, j \in Pending' : stack'[i].nr = stack'[j].nr => i = j
    BY <2>1 DEF CallsInv, RecordedOnce
  <2>4. \A i, j \in 1 .. Len(cardlog') : cardlog'[i].nr = cardlog'[j].nr => i = j
    <3>1. \A i \in 1 .. Len(cardlog) : cardlog[i].nr # e.nr
      BY <1>n, <1>o, <1>e
    <3>2. QED
      BY <1>e, <1>r, <3>1, DistinctAppended DEF CallsInv, RecordedOnce, ReaderTypeOK
  <2>5. \A i \in Pending', j \in 1 .. Len(cardlog') : stack'[i].nr # cardlog'[j].nr
    <3>1. \A i \in Pending', j \in 1 .. Len(cardlog) : stack'[i].nr # cardlog'[j].nr
      BY <1>l, <2>1 DEF CallsInv, RecordedOnce
    <3>2. \A i \in Pending' : stack'[i].nr # e.nr
      BY <1>n, <1>o, <1>e, <2>1, <2>2
    <3>3. QED
      BY <1>n, <1>l, <3>1, <3>2
  <2>6. QED
    BY <2>3, <2>4, <2>5 DEF RecordedOnce
<1>7. SavedIsShown'
  <2>1. cardlog \in Seq(Entries) /\ view \in Seq(Entries)
    BY DEF ReaderTypeOK
  <2>2. CASE IsEndOf(cardlog, view)
    BY <1>e, <1>r, <2>1, <2>2, EndOfAppended DEF SavedIsShown
  <2>3. CASE IsEndOf(view, cardlog) /\ \E i \in 1 .. Len(stack) : stack[i].call = "clear"
    BY <1>n, <1>e, <1>r, <1>s, <2>1, <2>3, EndOfAppended DEF SavedIsShown
  <2>4. QED
    BY <2>2, <2>3 DEF CallsInv, SavedIsShown
<1>8. QED
  BY <1>1, <1>2, <1>3, <1>4, <1>5, <1>6, <1>7 DEF CallsInv

\* The log is emptied when its clear ends: what is left of the invariant is
\* what it says of the calls that are still out.
LEMMA ClearKeepsInv ==
  ASSUME ReaderTypeOK, CallsInv, ClearEnds
  PROVE  CallsInv'
<1>n. Len(stack) \in Nat /\ Len(view) \in Nat
  BY NumbersTyped
<1>s. Len(stack') = Len(stack) - 1 /\ \A i \in 1 .. Len(stack') : stack'[i] = stack[i]
  BY ReturnsPops DEF ClearEnds, IsAt
<1>l. /\ cardlog' = <<>> /\ Len(cardlog') = 0 /\ cpos' = 0
      /\ UNCHANGED <<seen, sw, view, result>>
  BY EmptySeq DEF ClearEnds, NULL
<1>1. RecorderAtEnd' /\ AnsweredInOrder' /\ StatusNeverOlder'
  BY <1>l DEF CallsInv, RecorderAtEnd, AnsweredInOrder, StatusNeverOlder
<1>2. NoneAhead' /\ StatusCovers' /\ StackInOrder'
  BY <1>n, <1>s, <1>l DEF CallsInv, NoneAhead, StatusCovers, StackInOrder, Numbered
<1>3. RecordedOnce'
  <2>1. \A i \in Pending' : i \in Pending /\ stack'[i] = stack[i]
    BY <1>n, <1>s DEF Pending
  <2>2. QED
    BY <1>l, <2>1 DEF CallsInv, RecordedOnce
<1>4. SavedIsShown'
  BY <1>n, <1>l DEF SavedIsShown, IsEndOf
<1>5. QED
  BY <1>1, <1>2, <1>3, <1>4 DEF CallsInv

LEMMA NextCallsInv ==
  ASSUME ReaderTypeOK, CallsInv, [ReaderNext]_readerVars
  PROVE  CallsInv'
<1>n. seen \in Nat /\ (DriverCall => seen' = seen + 1) /\ 0 <= seen
  BY NumbersTyped DEF DriverCall
<1>1. CASE ConnectBegins
  BY <1>1, <1>n, EnterKeepsInv DEF ConnectBegins, Procs
<1>2. CASE WarmResetBegins
  BY <1>2, <1>n, EnterKeepsInv DEF WarmResetBegins, Procs
<1>3. CASE AtrLogged
  BY <1>3, MoveKeepsInv DEF AtrLogged, IsAt
<1>4. CASE RecordsReset
  <2>1. Entry("RESET", Top.nr) \in Entries /\ Entry("RESET", Top.nr).nr = Top.nr
        /\ Entry("RESET", Top.nr).kind # "ANSWERED"
    BY <1>4, TopIsFrame DEF RecordsReset, IsAt, Entry, Entries, Kinds, Frames
  <2>2. Len(stack) \in Pending /\ Top.call # "transmit" /\ stack # <<>>
    BY <1>4, TopIsFrame DEF RecordsReset, IsAt, Pending, Top
  <2>3. QED
    BY <1>4, <2>1, <2>2, LateRecordKeepsInv DEF RecordsReset
<1>5. CASE LastAtrBegins
  BY <1>5, <1>n, EnterKeepsInv DEF LastAtrBegins, Procs
<1>6. CASE DisconnectBegins
  BY <1>6, <1>n, EnterKeepsInv DEF DisconnectBegins, Procs
<1>7. CASE DriverDisconnects
  BY <1>7, MoveKeepsInv DEF DriverDisconnects, IsAt
<1>8. CASE CallEnds
  BY <1>8, ReturnKeepsInv DEF CallEnds, IsAt, CallsInv, StatusNeverOlder
<1>9. CASE TransmitAnswered
  BY <1>9, AnswerKeepsInv
<1>10. CASE TransmitFails
  BY <1>10, <1>n, EnterKeepsInv DEF TransmitFails, Procs
<1>11. CASE RecordsFailure
  <2>1. Entry("FAILED", Top.nr) \in Entries /\ Entry("FAILED", Top.nr).nr = Top.nr
        /\ Entry("FAILED", Top.nr).kind # "ANSWERED"
    BY <1>11, TopIsFrame DEF RecordsFailure, IsAt, Entry, Entries, Kinds, Frames
  <2>2. Len(stack) \in Pending /\ Top.call = "transmit" /\ stack # <<>>
    BY <1>11, TopIsFrame DEF RecordsFailure, IsAt, Pending, Top
  <2>3. QED
    BY <1>11, <2>1, <2>2, LateRecordKeepsInv DEF RecordsFailure
<1>12. CASE TransmitEnds
  <2>1. Top.nr <= sw
    BY <1>12, TopIsFrame DEF TransmitEnds, IsAt, CallsInv, StatusCovers, Top
  <2>2. StatusNeverOlder'
    BY <1>12, <2>1 DEF TransmitEnds, StatusNeverOlder
  <2>3. QED
    BY <1>12, <2>2, ReturnKeepsInv DEF TransmitEnds, IsAt
<1>13. CASE ClearBegins
  BY <1>13, <1>n, EnterKeepsInv DEF ClearBegins, Procs
<1>14. CASE ClearEnds
  BY <1>14, ClearKeepsInv
<1>15. CASE SaveBegins
  BY <1>15, <1>n, EnterKeepsInv DEF SaveBegins, Procs
<1>16. CASE SaveEnds
  BY <1>16, ReturnKeepsInv DEF SaveEnds, IsAt, CallsInv, StatusNeverOlder
<1>17. CASE UNCHANGED readerVars
  BY <1>17 DEF readerVars, CallsInv, RecorderAtEnd, StackInOrder, NoneAhead, StatusCovers, Numbered,
     AnsweredInOrder, RecordedOnce, Pending, StatusNeverOlder, SavedIsShown, IsEndOf
<1>18. QED
  BY <1>1, <1>2, <1>3, <1>4, <1>5, <1>6, <1>7, <1>8, <1>9, <1>10, <1>11, <1>12,
     <1>13, <1>14, <1>15, <1>16, <1>17 DEF ReaderNext

-------------------------------------------------------------------------------

\* The invariant the theorems below are read off.
THEOREM CallsInvariant == ReaderSpec => [](ReaderTypeOK /\ CallsInv)
<1>1. ReaderInit => ReaderTypeOK /\ CallsInv
  BY InitCallsInv
<1>2. ReaderTypeOK /\ CallsInv /\ [ReaderNext]_readerVars => (ReaderTypeOK /\ CallsInv)'
  BY NextReaderTypeOK, NextCallsInv DEF CallsInv
<1>3. QED
  BY <1>1, <1>2, PTL DEF ReaderSpec

\* The reader's state stays typed whatever calls interrupt each other.
THEOREM ReaderTypeCorrect == ReaderSpec => []ReaderTypeOK
BY CallsInvariant, PTL

\* However deep calls nest, answers are logged in the order the card gave them.
THEOREM LogKeepsCardOrder == ReaderSpec => []AnsweredInOrder
<1>1. CallsInv => AnsweredInOrder
  BY DEF CallsInv
<1>2. QED
  BY <1>1, CallsInvariant, PTL

\* No driver call is recorded twice.
THEOREM EachCallRecordedOnce == ReaderSpec => []RecordedOnce
<1>1. CallsInv => RecordedOnce
  BY DEF CallsInv
<1>2. QED
  BY <1>1, CallsInvariant, PTL

\* What a save writes is on screen, unless a clear is under way.
THEOREM SavesWhatIsShown == ReaderSpec => []SavedIsShown
<1>1. CallsInv => SavedIsShown
  BY DEF CallsInv
<1>2. QED
  BY <1>1, CallsInvariant, PTL

\* cardreader_transmit() never returns a status older than its own exchange's.
THEOREM NoStaleStatus == ReaderSpec => []StatusNeverOlder
<1>1. CallsInv => StatusNeverOlder
  BY DEF CallsInv
<1>2. QED
  BY <1>1, CallsInvariant, PTL
===============================================================================

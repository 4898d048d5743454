----------------------------- MODULE ReplayScript -----------------------------
(***************************************************************************)
(* A script run again on the log of its first run: it connects where the   *)
(* log starts, then makes the recorded calls in their order, a warm reset  *)
(* for each further reset record.  It may ask for the ATR between calls,   *)
(* and may at any time give up and start over from a new connection.       *)
(* Before and after it, others use the reader, the emulated card of        *)
(* ReplayCard, as they like; a reset that is within its warning meanwhile  *)
(* goes on when the script is done, which runs inside of it.               *)
(***************************************************************************)
EXTENDS ReplayCard

VARIABLE done       \* the record whose call was made last, 0 if there is no script

scriptVars == <<vars, done>>

ScriptInit == Init /\ done = 0

\* The buttons, the scratchpad and other scripts.
Others == done = 0 /\ Next /\ UNCHANGED done

\* What was recorded of a script begins with its connection.
Starts == log # <<>> /\ IsReset(log, 1) /\ Connect /\ done' = 1

GivesUp == done > 0 /\ Disconnect /\ done' = 0

ReadsAtr == done > 0 /\ LastAtr /\ UNCHANGED done

\* The call recorded next is made; it counts as done from now on.
NextCall ==
  /\ done > 0 /\ done < Len(log)
  /\ done' = done + 1
  /\ \/ IsReset(log, done') /\ ResetBegins
     \/ ~IsReset(log, done') /\ CommandBegins(log[done'].query)

CardWorks == done > 0 /\ SearchStep /\ UNCHANGED done

ScriptNext == Others \/ Starts \/ GivesUp \/ ReadsAtr \/ NextCall \/ CardWorks

ScriptSpec == ScriptInit /\ [][ScriptNext]_scriptVars

\* As in FairSpec: a loop that was entered keeps iterating.
FairScriptSpec == ScriptSpec /\ WF_vars(SearchStep)

-------------------------------------------------------------------------------

ScriptTypeOK == TypeOK /\ done \in 0 .. Len(log)

\* The reset record of the session a record is in.
SessionOf(i, a) == /\ a \in 1 .. i /\ IsReset(log, a)
                   /\ \A k \in (a + 1) .. i : ~IsReset(log, k)

\* Replay is faithful: each call gets what the card gave when it was recorded,
\* even where the same command was sent several times with different answers,
\* and the reader is then ready for the next one, in the session it was in.
FaithfulReplay ==
  Idle /\ done > 0 =>
    /\ reply = IF done = 1 THEN Reply("connect", "OK")
               ELSE IF IsReset(log, done) THEN Reply("reset", "OK")
               ELSE CommandReply(log[done].query, "OK", log[done].answer)
    /\ connected /\ SessionOf(done, atr)
    /\ done < Len(log) => pos = done + 1

\* A faithful replay never has to search: the next record always fits the call,
\* so neither loop of replay.c goes round, whatever the log holds.
FindsAtOnce ==
  [][done > 0 => ~CommandTriesNext /\ ~CommandUnknown /\ ~ResetTriesNext]_scriptVars
===============================================================================

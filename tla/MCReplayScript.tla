---------------------------- MODULE MCReplayScript ----------------------------
(***************************************************************************)
(* Every log of at most MaxRecords records, so every arrangement of        *)
(* sessions, including empty ones and logs that do not start with a reset  *)
(* or have none; with two queries and two answers a command can be         *)
(* repeated with another answer, before and after a reset.                 *)
(***************************************************************************)
EXTENDS ReplayScript

CONSTANTS MaxRecords, q1, a1

\* Only one of the logs that differ by a renaming of queries and answers: the
\* first exchange is the one of q1 and a1.
FirstExchangeNamed(l) ==
  \A i \in DOMAIN l :
    ~IsReset(l, i) /\ (\A k \in 1 .. (i - 1) : IsReset(l, k)) => l[i] = Exchange(q1, a1)

MCLogs ==
  {l \in UNION {[1 .. n -> Records] : n \in 0 .. MaxRecords} : FirstExchangeNamed(l)}
===============================================================================

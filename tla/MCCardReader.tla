----------------------------- MODULE MCCardReader -----------------------------
(***************************************************************************)
(* Small instances of CardReader: enough driver calls that a call can be   *)
(* interrupted by one that is itself interrupted, with a call before and   *)
(* after.                                                                  *)
(***************************************************************************)
EXTENDS CardReader
===============================================================================

------------------------------ MODULE RecordList ------------------------------
(***************************************************************************)
(* The singly linked list of replay.c, apart from what its records hold.   *)
(* The list is a sequence and a pointer to a record is its position, NULL  *)
(* being 0.                                                                *)
(***************************************************************************)
EXTENDS Naturals, Sequences

NULL == 0

\* item->next.  The definitions that "Mistake:" introduces are mistaken forms of
\* the next one: each shows that a property notices.
NextOf(list, i) == IF i < Len(list) THEN i + 1 ELSE NULL

\* cardreplay_new_item(): a record is linked behind pos, or becomes the list.
\* Mistake: the new record is linked in front of pos.
LinkedBefore(list, pos, item) ==
  IF list = <<>> THEN <<item>>
  ELSE SubSeq(list, 1, pos - 1) \o <<item>> \o SubSeq(list, pos, Len(list))
Linked(list, pos, item) ==
  IF list = <<>> THEN <<item>>
  ELSE SubSeq(list, 1, pos) \o <<item>> \o SubSeq(list, pos + 1, Len(list))
LinkedPos(list, pos) == IF list = <<>> THEN 1 ELSE pos + 1
===============================================================================

------------------------------ MODULE MCLuaBytes ------------------------------
(***************************************************************************)
(* The texts are those of tag-length-value strings: a well-formed one of   *)
(* two; an odd number of digits and a tag in two bytes; a length of        *)
(* 2^32 - 6, with which the position wraps to the start of the string; a   *)
(* length that is cut off.  The last is a text without digits.  A single   *)
(* element is padded to 8 (the bits of a byte) and to 128 and 129.         *)
(* Elements are the largest, one that is a long length, and one that is    *)
(* the first byte of a long tag.                                           *)
(***************************************************************************)
EXTENDS LuaBytes, TLC

Space == Character(32)

MCTexts == {
  <<8, 1, 0, 2, Space, 9, 0, 0, 1, 5>>,
  <<5, 15, 2, 13, 8, 1, 0, 1, 7>>,
  <<0, 4, 8, 4, 15, 15, 15, 15, 15, 15, 15, 10>>,
  <<10, 8, 2, 0>>,
  <<Space>>}

MCElements == {31, 129}
MCBlocks == {2, 8, 128, 129}
\* A tag whose bytes would be read as part of a longer one, and tags of one,
\* two and three bytes.
MCTags == {31, 130, 24429, 8364943}

Symmetry == Permutations(Vars)
===============================================================================

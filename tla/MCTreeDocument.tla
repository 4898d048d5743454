---------------------------- MODULE MCTreeDocument ----------------------------
(***************************************************************************)
(* One column there is room for, a second one that makes the arrays grow,  *)
(* one that is not saved and one that cannot be saved; the text of another *)
(* attribute that looks like a byte string.  There is the file of an older *)
(* version, with bytes, and one that does not tell its version.            *)
(***************************************************************************)
EXTENDS TreeDocument

MCNames == {"classname", "val", "-mark", "a quote"}
MCCharacters == {"8", "4", "1", "t", ":", "d", "i"}
MCHidden == {"-mark"}
MCQuoted == {"a quote"}
MCFirstColumns == <<"classname">>
MCItem == <<"i">>
MCTexts == {<<>>, <<"8", ":", "d">>}
MCBytestrings == {<<"1", ":", "d">>}

OneNode(bytes) ==
  LET attr == [on |-> "open", name |-> "attr", column |-> "val", bytes |-> bytes]
  IN  <<Open("node"), attr, Text(<<"8", ":", "d">>), Close, Close, Close>>

MCOldFiles == {Prolog \o OneNode(TRUE), <<Open("cardpeek")>> \o OneNode(FALSE)}
===============================================================================

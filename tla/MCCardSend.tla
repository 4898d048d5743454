------------------------------ MODULE MCCardSend ------------------------------
(***************************************************************************)
(* Commands of each class, and a GET RESPONSE of the script's own.  The    *)
(* extended lengths have a high byte, the responses end below, at and      *)
(* above the 256 bytes that one byte can ask.                              *)
(***************************************************************************)
EXTENDS CardSend

MCHeader == <<0, 176, 1, 2>>

MCCommand(class, data, le) ==
  [class |-> class, header |-> MCHeader, data |-> data, le |-> le]

MCGetResponse == [class |-> "2S", header |-> <<0, 192, 0, 0>>, data |-> <<>>, le |-> 0]

MCCommands ==
  {MCCommand("1", <<>>, 0), MCCommand("2S", <<>>, 0), MCCommand("2S", <<>>, 3),
   MCCommand("3S", <<7, 8>>, 0), MCCommand("4S", <<7, 8>>, 3),
   MCCommand("2E", <<>>, 259), MCCommand("3E", <<7, 8>>, 0),
   MCCommand("4E", <<7, 8>>, 259), MCGetResponse}

MCTotals == {0, 2, 256, 258}

MCAnnounced == {100, 256}

MCWithoutLe == Classes \ WithLe
===============================================================================

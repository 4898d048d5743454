------------------------------- MODULE MCDesktop -------------------------------
EXTENDS Desktop

\* The buttons of the reader view, ui.exit(), and a script that connects, asks
\* and looks at the reader.
TheButtons == {<<"connect">>, <<"reset">>, <<"disconnect">>, <<"exit">>}
ThePrograms == TheButtons \cup {<<"connect", "ask", "info">>}
===============================================================================

-------------------------------- MODULE Desktop --------------------------------
(***************************************************************************)
(* The one thread of the program: its start, the GTK main loop, the Lua    *)
(* programs that buttons, menus and the command line run, and the calls    *)
(* these make of the PC/SC driver and of the dialogs.                      *)
(*                                                                         *)
(* Every log_printf() ends in ui_update(), which handles the events that   *)
(* are pending: a click is then a call inside of the call that logs.  The  *)
(* stack has an activation for each; only the last one runs.  A modal      *)
(* window keeps the events of all other windows away.                      *)
(***************************************************************************)
EXTENDS Integers, Sequences

CONSTANTS
  Programs,   \* what the user may run, as sequences of the calls they make
  MaxClicks,  \* how many times he does
  MaxDepth    \* how deep activations nest

ReaderCalls == {"connect", "disconnect", "reset", "info"}
Calls == ReaderCalls \cup {"ask", "exit"}

ASSUME ProgramsAssumption == Programs \subseteq Seq(Calls)
ASSUME BoundsAssumption == MaxClicks \in Nat /\ MaxDepth \in Nat \ {0}

VARIABLES
  stack,       \* the activations, [call, at, todo], the running one last
  windows,     \* the modal windows, the one that gets the events last: pressed?
  driver,      \* of READER: "pcsc" or "none"
  connected,   \* READER->connected
  held,        \* hcard is a handle that the card service knows
  present,     \* there is a card in the reader
  alive,       \* the card service answers for the reader
  quit,        \* gtk_main_quit() was called in gtk_main()
  closed,      \* the main window was destroyed
  crashed,     \* the program used an object that is not there
  clicks,
  interrupted  \* a program was started inside of a call of the reader

reader == <<driver, connected, held>>
world == <<present, alive>>
user == <<closed, clicks, interrupted>>
vars == <<stack, windows, reader, world, quit, crashed, user>>

Activation(c, l, p) == [call |-> c, at |-> l, todo |-> p]

Init ==
  /\ stack = <<Activation("main", "window", <<>>)>>
  /\ windows = <<>>
  /\ driver = "none" /\ connected = FALSE /\ held = FALSE
  /\ present \in BOOLEAN /\ alive = TRUE
  /\ quit = FALSE /\ closed = FALSE /\ crashed = FALSE
  /\ clicks = 0 /\ interrupted = FALSE

Top == stack[Len(stack)]
Main == stack[1]

Runs(c, l) == ~crashed /\ Top.call = c /\ Top.at = l

Goes(l) == stack' = [stack EXCEPT ![Len(stack)].at = l]
Returns == stack' = SubSeq(stack, 1, Len(stack) - 1)

Opens == windows' = Append(windows, FALSE)
Closes == windows' = SubSeq(windows, 1, Len(windows) - 1)

Pressed == windows # <<>> /\ windows[Len(windows)]

-------------------------------------------------------------------------------
(***************************************************************************)
(* cardpeek_main(): the main window is shown before there is an            *)
(* interpreter, and there is an interpreter before there is a reader.      *)
(***************************************************************************)
Waits == {"installing", "choosing", "updating", "asking", "wait"}

StartsLua ==
  /\ Runs("main", "window") /\ Goes("install")
  /\ UNCHANGED <<windows, reader, world, quit, crashed, user>>

\* The questions of the start, l, are asked or not.
AsksFrom(from, l, to) ==
  /\ Runs("main", from)
  /\ \/ Opens /\ Goes(l)
     \/ Goes(to) /\ UNCHANGED windows
  /\ UNCHANGED <<reader, world, quit, crashed, user>>

IsAnswered(l, to) ==
  /\ Runs("main", l) /\ Pressed
  /\ Closes /\ Goes(to)
  /\ UNCHANGED <<reader, world, quit, crashed, user>>

Installs == AsksFrom("install", "installing", "choose") \/ IsAnswered("installing", "choose")
Chooses == AsksFrom("choose", "choosing", "open") \/ IsAnswered("choosing", "open")

\* cardreader_new() and luax_set_card_reader(); without a reader there is no
\* main loop.
OpensReader ==
  /\ Runs("main", "open")
  /\ \/ driver' \in {"none", "pcsc"} /\ Goes("update")
     \/ Goes("over") /\ UNCHANGED driver
  /\ UNCHANGED <<windows, connected, held, world, quit, crashed, user>>

Updates == AsksFrom("update", "updating", "loop") \/ IsAnswered("updating", "loop")

LeavesLoop ==
  /\ Runs("main", "loop") /\ quit /\ Goes("over")
  /\ UNCHANGED <<windows, reader, world, quit, crashed, user>>

LuaReady == Main.at # "window"

\* Mistake: the reader is made known after the update.
ReaderReadyLate == Main.at \in {"loop", "over"}

ReaderReady == Main.at \in {"update", "updating", "loop", "over"}

\* Mistake: gtk_main_quit() is asked for by the button of an idle program only.
QuitsWhenIdle == quit' = (Len(stack) = 1 /\ Main.at = "loop")

\* gtk_main_quit() ends the innermost gtk_main(), if there is one.
Quits == quit' = (quit \/ Main.at = "loop")

-------------------------------------------------------------------------------
(***************************************************************************)
(* luax_run_command() and luax_run_script(): the calls of the program one  *)
(* after the other, unless one raises an error.                            *)
(***************************************************************************)
First ==
  [connect |-> "query", disconnect |-> "told", reset |-> "reset",
   info |-> "status", ask |-> "asking"]

\* The null driver reports an error and changes nothing; it has no get_info().
IsNull == driver = "none"
NullCalls == {"connect", "disconnect", "reset"}

\* What the call needs is not there: READER, or a function of the driver.
Missing(c) == c \in ReaderCalls /\ (~ReaderReady \/ (IsNull /\ c \notin NullCalls))

RunsNoLua ==
  /\ Runs("script", "running") /\ ~LuaReady
  /\ crashed' = TRUE
  /\ UNCHANGED <<stack, windows, reader, world, quit, user>>

ScriptCalls ==
  /\ Runs("script", "running") /\ LuaReady /\ Top.todo # <<>>
  /\ LET c == Head(Top.todo)
         rest == [stack EXCEPT ![Len(stack)].todo = Tail(@)]
     IN IF Missing(c)
        THEN crashed' = TRUE /\ UNCHANGED <<stack, windows, quit>>
        ELSE IF c = "exit"
             THEN Quits /\ stack' = rest /\ UNCHANGED <<windows, crashed>>
             ELSE /\ stack' = Append(rest, Activation(c, First[c], <<>>))
                  /\ IF c = "ask" THEN Opens ELSE UNCHANGED windows
                  /\ UNCHANGED <<quit, crashed>>
  /\ UNCHANGED <<reader, world, user>>

\* It has made its calls, raised an error, or its directory is not there.
ScriptEnds ==
  /\ Runs("script", "running")
  /\ Returns
  /\ UNCHANGED <<windows, reader, world, quit, crashed, user>>

\* ui.question(), ui.readline() and ui.select_file() are gtk_dialog_run().
AskEnds ==
  /\ Runs("ask", "asking") /\ Pressed
  /\ Closes /\ Returns
  /\ UNCHANGED <<reader, world, quit, crashed, user>>

-------------------------------------------------------------------------------
(***************************************************************************)
(* pcsc_connect().                                                         *)
(***************************************************************************)
Queries ==
  /\ Runs("connect", "query")
  /\ IF IsNull \/ ~alive
     THEN Goes("report") /\ UNCHANGED windows
     ELSE IF present THEN Goes("attempt") /\ UNCHANGED windows
                     ELSE Goes("wait") /\ Opens
  /\ UNCHANGED <<reader, world, quit, crashed, user>>

\* Mistake: the dialog is left open when the user has cancelled.
CancelledLeft ==
  /\ Runs("connect", "wait") /\ Pressed
  /\ Goes("report")
  /\ UNCHANGED <<windows, reader, world, quit, crashed, user>>

\* Mistake: the answer counts only while the reader answers.
CancelledIfAlive ==
  /\ Runs("connect", "wait") /\ Pressed /\ alive
  /\ Closes /\ Goes("report")
  /\ UNCHANGED <<reader, world, quit, crashed, user>>

\* ui_inprogress_pulse() handles the events and says that Cancel was pressed.
Cancelled ==
  /\ Runs("connect", "wait") /\ Pressed
  /\ Closes /\ Goes("report")
  /\ UNCHANGED <<reader, world, quit, crashed, user>>

SeesCard ==
  /\ Runs("connect", "wait") /\ ~Pressed /\ alive /\ present
  /\ Closes /\ Goes("attempt")
  /\ UNCHANGED <<reader, world, quit, crashed, user>>

\* The dialog is not closed when the reader fails.
WaitFails ==
  /\ Runs("connect", "wait") /\ ~Pressed /\ ~alive
  /\ Goes("report")
  /\ UNCHANGED <<windows, reader, world, quit, crashed, user>>

ConnectsCard ==
  /\ Runs("connect", "attempt")
  /\ \/ present /\ alive /\ held' = TRUE /\ Goes("announce")
     \/ held' = held /\ Goes("report")
  /\ UNCHANGED <<windows, driver, connected, world, quit, crashed, user>>

\* connected is set after the messages about the connection.
Announces ==
  /\ Runs("connect", "announce")
  /\ connected' = TRUE /\ Goes("report")
  /\ UNCHANGED <<windows, driver, held, world, quit, crashed, user>>

-------------------------------------------------------------------------------
(***************************************************************************)
(* pcsc_disconnect(), after the callback of the reader view; pcsc_reset()  *)
(* and pcsc_get_info().  The null driver only reports an error.            *)
(***************************************************************************)
\* Mistake: a reader that was disconnected stays connected.
DisconnectsHalf ==
  /\ Runs("disconnect", "told") /\ Goes("report")
  /\ held' \in {held, FALSE} /\ UNCHANGED connected
  /\ UNCHANGED <<windows, driver, world, quit, crashed, user>>

Disconnects ==
  /\ Runs("disconnect", "told") /\ Goes("report")
  /\ \/ held /\ alive /\ held' = FALSE /\ connected' = FALSE
     \/ UNCHANGED <<held, connected>>
  /\ UNCHANGED <<windows, driver, world, quit, crashed, user>>

Resets ==
  /\ Runs("reset", "reset")
  /\ \/ IsNull /\ Goes("report")
     \/ ~IsNull /\ held /\ present /\ alive /\ Goes("renewed")
     \/ ~IsNull /\ Goes("lost")
  /\ UNCHANGED <<windows, reader, world, quit, crashed, user>>

\* After its message.
ResetDone ==
  /\ Runs("reset", "renewed") \/ Runs("reset", "lost")
  /\ connected' = (Top.at = "renewed") /\ Goes("report")
  /\ UNCHANGED <<windows, driver, held, world, quit, crashed, user>>

Informs ==
  /\ Runs("info", "status") /\ Goes("report")
  /\ \/ held /\ alive /\ UNCHANGED connected
     \/ connected' = FALSE
  /\ UNCHANGED <<windows, driver, held, world, quit, crashed, user>>

\* The ATR, the reader view and the last messages.
Reports ==
  /\ Top.call \in ReaderCalls /\ Runs(Top.call, "report")
  /\ Returns
  /\ UNCHANGED <<windows, reader, world, quit, crashed, user>>

-------------------------------------------------------------------------------
(***************************************************************************)
(* What happens meanwhile: the user, in the windows that he can reach      *)
(* while events are handled, and the card.                                 *)
(***************************************************************************)
Ended == crashed \/ Main.at = "over"

Handles == ~crashed /\ Top.at \notin {"query", "reset", "status", "over"}
MainReachable == Handles /\ windows = <<>> /\ ~closed

\* Buttons, menus and the command line.
Clicks(p) ==
  /\ MainReachable /\ clicks < MaxClicks /\ Len(stack) < MaxDepth
  /\ clicks' = clicks + 1
  /\ interrupted' = (interrupted \/ Top.call \in ReaderCalls)
  /\ stack' = Append(stack, Activation("script", "running", p))
  /\ UNCHANGED <<windows, reader, world, quit, crashed, closed>>

ClicksQuit ==
  /\ MainReachable /\ Quits
  /\ UNCHANGED <<stack, windows, reader, world, crashed, user>>

\* The "destroy" signal of the main window is connected to gtk_main_quit().
ClosesMain ==
  /\ MainReachable /\ Quits
  /\ closed' = TRUE
  /\ UNCHANGED <<stack, windows, reader, world, crashed, clicks, interrupted>>

Answers ==
  /\ Handles /\ windows # <<>> /\ ~Pressed
  /\ windows' = [windows EXCEPT ![Len(windows)] = TRUE]
  /\ UNCHANGED <<stack, reader, world, quit, crashed, user>>

\* What still runs uses the widgets of a window that was destroyed.
UsesClosed ==
  /\ closed /\ ~crashed /\ Top.at \notin {"loop", "over"}
  /\ crashed' = TRUE
  /\ UNCHANGED <<stack, windows, reader, world, quit, user>>

CardMoves ==
  /\ ~Ended /\ present' = ~present
  /\ UNCHANGED <<stack, windows, reader, alive, quit, crashed, user>>

ReaderFails ==
  /\ ~Ended /\ alive /\ alive' = FALSE
  /\ UNCHANGED <<stack, windows, reader, present, quit, crashed, user>>

-------------------------------------------------------------------------------
Starts == StartsLua \/ Installs \/ Chooses \/ OpensReader \/ Updates \/ LeavesLoop
RunsLua == RunsNoLua \/ ScriptCalls \/ ScriptEnds \/ AskEnds
Connects == Queries \/ Cancelled \/ SeesCard \/ WaitFails \/ ConnectsCard \/ Announces
Others == Disconnects \/ Resets \/ ResetDone \/ Informs \/ Reports

Thread == Starts \/ RunsLua \/ Connects \/ Others

Next ==
  \/ Thread
  \/ \E p \in Programs : Clicks(p)
  \/ ClicksQuit \/ ClosesMain \/ Answers \/ UsesClosed
  \/ CardMoves \/ ReaderFails

Spec == Init /\ [][Next]_vars

\* The thread does not stop by itself: the service of the reader answers within
\* 100 ms, and the programs are finite.
FairSpec == Spec /\ WF_vars(Thread)

-------------------------------------------------------------------------------
Labels ==
  {"window", "install", "installing", "choose", "choosing", "open", "update",
   "updating", "loop", "over", "running", "asking", "query", "wait", "attempt",
   "announce", "told", "reset", "renewed", "lost", "status", "report"}

DesktopTypeOK ==
  /\ stack \in Seq([call : Calls \cup {"main", "script"}, at : Labels, todo : Seq(Calls)])
  /\ windows \in Seq(BOOLEAN) /\ Len(stack) \in 1..(MaxDepth + 1)
  /\ driver \in {"none", "pcsc"} /\ connected \in BOOLEAN /\ held \in BOOLEAN
  /\ present \in BOOLEAN /\ alive \in BOOLEAN /\ clicks \in 0..MaxClicks
  /\ {quit, closed, crashed, interrupted} \subseteq BOOLEAN

\* As long as the reader answers, a modal window is open only while the call
\* that runs waits for it: however the calls nested and ended, the user can
\* reach the main window again, and quit.
WindowsAreAnswered ==
  alive => IF Top.at \in Waits THEN Len(windows) = 1 ELSE windows = <<>>

\* The reader counts as connected only with a handle of the card service,
\* unless a program ran inside of a call of the reader.
ConnectedHasHandle == connected /\ ~interrupted => held

\* The program uses what is not there only for a click before the reader is
\* set up, for card.info() without a reader, or after its window was closed.
KnownCrashes ==
  crashed => closed \/ driver = "none" \/ Main.at \in {"window", "install", "choose", "open"}

\* The wait for a card ends when the user cancels it, and when a card stays.
Waiting == Runs("connect", "wait")

WaitEnds ==
  /\ Waiting /\ Pressed ~> ~Waiting
  /\ <>[](present /\ alive) => []<>~Waiting

\* Whoever quits, from wherever, leaves the program, unless a window asks.
QuitEnds == quit ~> Main.at = "over" \/ crashed \/ Top.at \in Waits
===============================================================================

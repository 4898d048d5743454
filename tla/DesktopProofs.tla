----------------------------- MODULE DesktopProofs -----------------------------
(***************************************************************************)
(* What is proved of the desktop, for all programs, numbers of clicks and  *)
(* depths of nested calls: no modal window outlives the call that opened   *)
(* it while the reader answers, a connected reader has a handle, and the   *)
(* program uses what is not there for the known reasons only.              *)
(*                                                                         *)
(* The invariant says of the calls that others interrupted that they wait  *)
(* for no window, and of the last one what it knows of the handle.         *)
(***************************************************************************)
EXTENDS Desktop, SequenceTheorems, TLAPS

MainLabels ==
  {"window", "install", "installing", "choose", "choosing", "open", "update",
   "updating", "loop", "over"}

Frames == [call : Calls \cup {"main", "script"}, at : Labels, todo : Seq(Calls)]

\* The places of an activation are those of its call.
Fits(f) ==
  \/ f.call = "main" /\ f.at \in MainLabels
  \/ f.call = "script" /\ f.at = "running"
  \/ f.call = "ask" /\ f.at = "asking"
  \/ f.call = "connect" /\ f.at \in {"query", "wait", "attempt", "announce", "report"}
  \/ f.call = "disconnect" /\ f.at \in {"told", "report"}
  \/ f.call = "reset" /\ f.at \in {"reset", "renewed", "lost", "report"}
  \/ f.call = "info" /\ f.at \in {"status", "report"}

FrameAt(i) == stack[i] \in Frames /\ Fits(stack[i]) /\ (stack[i].call = "main" <=> i = 1)

\* A call that another one interrupted waits for no window.
Interrupted(i) == stack[i].at \notin Waits /\ (~interrupted => stack[i].call \notin ReaderCalls)

StackOK ==
  /\ stack \in Seq(Frames) /\ Len(stack) \in 1..(MaxDepth + 1)
  /\ \A i \in 1..Len(stack) : FrameAt(i) /\ (i < Len(stack) => Interrupted(i))
  /\ Top.call = "script" => Len(stack) <= MaxDepth

RestOK ==
  /\ windows \in Seq(BOOLEAN) /\ driver \in {"none", "pcsc"}
  /\ connected \in BOOLEAN /\ held \in BOOLEAN
  /\ present \in BOOLEAN /\ alive \in BOOLEAN /\ clicks \in 0..MaxClicks
  /\ {quit, closed, crashed, interrupted} \subseteq BOOLEAN

\* A call that waits has a window, also when others were left open.
WaitsHaveWindow == Top.at \in Waits => windows # <<>>

\* What is known of the handle, unless a program ran inside of a call.
Handle ==
  ~interrupted => /\ connected => held
                  /\ Top.at \in {"announce", "renewed"} => held

DesktopInv ==
  StackOK /\ RestOK /\ WaitsHaveWindow /\ WindowsAreAnswered /\ Handle /\ KnownCrashes

-------------------------------------------------------------------------------
(***************************************************************************)
(* The stack: what its last activation is, and what becomes of it when     *)
(* that goes on, returns or calls.                                         *)
(***************************************************************************)
LEMMA TopIsFrame ==
  ASSUME StackOK
  PROVE  /\ Top \in Frames /\ Fits(Top) /\ (Top.call = "main" <=> Len(stack) = 1)
         /\ Main.call = "main" /\ Main.at \in MainLabels
         /\ Len(stack) > 1 => Main.at \notin Waits
<1>1. Len(stack) \in 1..Len(stack) /\ 1 \in 1..Len(stack)
  BY DEF StackOK
<1>2. FrameAt(Len(stack)) /\ FrameAt(1)
  BY <1>1 DEF StackOK
<1>3. Len(stack) > 1 => Interrupted(1)
  BY <1>1 DEF StackOK
<1> QED
  BY <1>2, <1>3 DEF FrameAt, Fits, Interrupted, Top, Main

LEMMA GoesKeeps ==
  ASSUME StackOK, NEW l \in Labels, Fits([Top EXCEPT !.at = l]), Goes(l),
         UNCHANGED interrupted
  PROVE  StackOK' /\ Top' = [Top EXCEPT !.at = l] /\ (Len(stack) > 1 => Main' = Main)
<1>1. Top \in Frames /\ Len(stack) \in 1..Len(stack)
  BY TopIsFrame DEF StackOK
<1>2. [Top EXCEPT !.at = l] \in Frames /\ [Top EXCEPT !.at = l].call = Top.call
  BY <1>1 DEF Frames
<1>3. stack' = [stack EXCEPT ![Len(stack)] = [Top EXCEPT !.at = l]]
  BY DEF Goes, Top
<1>4. /\ stack' \in Seq(Frames) /\ Len(stack') = Len(stack)
      /\ \A j \in 1..Len(stack) :
           stack'[j] = IF j = Len(stack) THEN [Top EXCEPT !.at = l] ELSE stack[j]
  BY <1>1, <1>2, <1>3, ExceptSeq DEF StackOK
<1>5. Top' = [Top EXCEPT !.at = l]
  BY <1>1, <1>4 DEF Top
<1>6. \A i \in 1..Len(stack) : FrameAt(i)'
  <2> TAKE i \in 1..Len(stack)
  <2>1. FrameAt(i)
    BY DEF StackOK
  <2>2. CASE i = Len(stack)
    BY <1>2, <1>4, <2>1, <2>2 DEF FrameAt, Top
  <2>3. CASE i # Len(stack)
    BY <1>4, <2>1, <2>3 DEF FrameAt
  <2> QED
    BY <2>2, <2>3
<1>7. \A i \in 1..Len(stack) : i < Len(stack) => Interrupted(i)'
  BY <1>4 DEF StackOK, Interrupted
<1>8. Len(stack) > 1 => Main' = Main
  BY <1>4 DEF Main
<1> QED
  BY <1>2, <1>4, <1>5, <1>6, <1>7, <1>8 DEF StackOK

LEMMA ReturnsKeeps ==
  ASSUME StackOK, Top.call # "main", Returns, UNCHANGED interrupted
  PROVE  /\ StackOK' /\ Top'.at \notin Waits /\ Main' = Main
         /\ ~interrupted => Top'.call \notin ReaderCalls
<1>0. Len(stack) # 1
  BY TopIsFrame
<1>1. Len(stack) \in 2..(MaxDepth + 1) /\ stack \in Seq(Frames)
  <2>1. Len(stack) \in 1..(MaxDepth + 1) /\ stack \in Seq(Frames)
    BY DEF StackOK
  <2>2. \A k \in 1..(MaxDepth + 1) : k # 1 => k \in 2..(MaxDepth + 1)
    BY BoundsAssumption
  <2> QED
    BY <1>0, <2>1, <2>2
<1> DEFINE n == Len(stack) - 1
<1>2. /\ stack' \in Seq(Frames) /\ Len(stack') = n
      /\ \A i \in 1..n : stack'[i] = stack[i]
  <2>1. \A i \in 1..n : stack[i] \in Frames
    BY <1>1, ElementOfSeq
  <2> QED
    BY <1>1, <2>1 DEF Returns
<1>3. \A i \in 1..n : FrameAt(i)' /\ Interrupted(i)'
  BY <1>1, <1>2 DEF StackOK, FrameAt, Interrupted
<1>4. n \in 1..n /\ 1 \in 1..n
  BY <1>1
<1>5. Top' = stack'[n] /\ Main' = Main
  BY <1>2, <1>4 DEF Top, Main
<1>6. StackOK'
  BY <1>1, <1>2, <1>3, BoundsAssumption DEF StackOK
<1> QED
  BY <1>3, <1>4, <1>5, <1>6 DEF Interrupted

LEMMA CallsKeeps ==
  ASSUME StackOK, NEW f \in Frames, Fits(f), f.call # "main",
         stack' = Append(stack, f), Len(stack) <= MaxDepth,
         f.call = "script" => Len(stack) < MaxDepth,
         Top.at \notin Waits,
         interrupted => interrupted',
         ~interrupted' => Top.call \notin ReaderCalls
  PROVE  StackOK' /\ Top' = f /\ Main' = Main
<1>1. Len(stack) \in 1..MaxDepth /\ stack \in Seq(Frames)
  BY BoundsAssumption DEF StackOK
<1>n. PICK n \in 1..MaxDepth : n = Len(stack)
  BY <1>1
<1>2. /\ stack' \in Seq(Frames) /\ Len(stack') = n + 1
      /\ \A i \in 1..n : stack'[i] = stack[i]
      /\ stack'[n + 1] = f
  BY <1>n, <1>1
<1>3. \A i \in 1..n : FrameAt(i)'
  BY <1>n, <1>1, <1>2 DEF StackOK, FrameAt
<1>4. FrameAt(n + 1)'
  <2>1. n + 1 # 1 /\ stack'[n + 1] = f
    BY <1>n, <1>1, <1>2
  <2> QED
    BY <2>1 DEF FrameAt
<1>5. \A i \in 1..n : Interrupted(i)'
  <2> TAKE i \in 1..n
  <2>1. CASE i = n
    BY <1>n, <1>1, <1>2, <2>1 DEF Interrupted, Top
  <2>2. CASE i # n
    BY <1>n, <1>1, <1>2, <2>2 DEF Interrupted, StackOK
  <2> QED
    BY <2>1, <2>2
<1>6. Top' = f /\ Main' = Main
  BY <1>n, <1>1, <1>2 DEF Top, Main
<1>7. \A i \in 1..(n + 1) : FrameAt(i)' /\ (i < n + 1 => Interrupted(i)')
  <2> TAKE i \in 1..(n + 1)
  <2>1. CASE i = n + 1
    BY <1>n, <1>1, <1>4, <2>1
  <2>2. CASE i # n + 1
    <3>1. i \in 1..n
      BY <1>n, <1>1, <2>2
    <3> QED
      BY <1>3, <1>5, <3>1
  <2> QED
    BY <2>1, <2>2
<1>8. Top'.call = "script" => n + 1 <= MaxDepth
  BY <1>n, <1>1, <1>6, BoundsAssumption
<1> QED
  BY <1>n, <1>1, <1>2, <1>6, <1>7, <1>8, BoundsAssumption DEF StackOK

-------------------------------------------------------------------------------
(***************************************************************************)
(* The windows: the last one is answered and closed by the call that waits *)
(* for it, and a call that goes on without a window leaves them alone.     *)
(***************************************************************************)
LEMMA OneMore ==
  ASSUME RestOK, Opens
  PROVE  windows' \in Seq(BOOLEAN) /\ windows' # <<>> /\ (windows = <<>> => Len(windows') = 1)
<1>1. windows \in Seq(BOOLEAN) /\ windows' = Append(windows, FALSE)
  BY DEF RestOK, Opens
<1>2. windows' \in Seq(BOOLEAN) /\ Len(windows') = Len(windows) + 1 /\ Len(windows) \in Nat
  BY <1>1
<1> QED
  BY <1>2

LEMMA OneLess ==
  ASSUME RestOK, Closes, windows # <<>>
  PROVE  windows' \in Seq(BOOLEAN) /\ (Len(windows) = 1 => windows' = <<>>)
<1>1. windows \in Seq(BOOLEAN) /\ windows' = SubSeq(windows, 1, Len(windows) - 1)
  BY DEF RestOK, Closes
<1>2. Len(windows) \in Nat \ {0}
  BY <1>1
<1>3. PICK n \in Nat : Len(windows) = n + 1
  BY <1>2
<1>4. \A i \in 1..n : windows[i] \in BOOLEAN
  <2>1. \A i \in 1..n : i \in 1..Len(windows)
    BY <1>3
  <2> QED
    BY <1>1, <2>1, ElementOfSeq
<1>5. /\ SubSeq(windows, 1, n) \in Seq(BOOLEAN)
      /\ Len(SubSeq(windows, 1, n)) = IF 1 <= n THEN n - 1 + 1 ELSE 0
  BY <1>3, <1>4, SubSeqProperties
<1>6. windows' = SubSeq(windows, 1, n)
  BY <1>1, <1>3
<1>7. n = 0 => SubSeq(windows, 1, n) = <<>>
  BY SubSeqEmpty
<1>8. Len(windows) = 1 => n = 0
  <2>1. \A k \in Nat : k = 1 /\ k = n + 1 => n = 0
    OBVIOUS
  <2> QED
    BY <1>2, <1>3, <2>1
<1> QED
  BY <1>5, <1>6, <1>7, <1>8

\* A call that waited for no window goes on to another place without one.
LEMMA NoWindowMoves ==
  ASSUME DesktopInv, Top.at \notin Waits, Top'.at \notin Waits,
         UNCHANGED <<windows, alive>>
  PROVE  WindowsAreAnswered' /\ WaitsHaveWindow'
  BY DEF DesktopInv, WindowsAreAnswered, WaitsHaveWindow

\* A call that waited for its window closes it.
LEMMA WindowCloses ==
  ASSUME DesktopInv, Top.at \in Waits, Top'.at \notin Waits, Closes, UNCHANGED alive
  PROVE  WindowsAreAnswered' /\ WaitsHaveWindow' /\ windows' \in Seq(BOOLEAN)
<1>1. windows # <<>> /\ RestOK
  BY DEF DesktopInv, WaitsHaveWindow
<1>2. windows' \in Seq(BOOLEAN) /\ (Len(windows) = 1 => windows' = <<>>)
  BY <1>1, OneLess
<1> QED
  BY <1>2 DEF DesktopInv, WindowsAreAnswered, WaitsHaveWindow

\* A call that waited for no window opens one.
LEMMA WindowOpens ==
  ASSUME DesktopInv, Top.at \notin Waits, Top'.at \in Waits, Opens, UNCHANGED alive
  PROVE  WindowsAreAnswered' /\ WaitsHaveWindow' /\ windows' \in Seq(BOOLEAN)
<1>1. windows' \in Seq(BOOLEAN) /\ windows' # <<>> /\ (windows = <<>> => Len(windows') = 1)
  BY OneMore DEF DesktopInv
<1> QED
  BY <1>1 DEF DesktopInv, WindowsAreAnswered, WaitsHaveWindow

-------------------------------------------------------------------------------
(***************************************************************************)
(* The steps of the start.                                                 *)
(***************************************************************************)
LEMMA InitSound == Init => DesktopInv
<1> SUFFICES ASSUME Init PROVE DesktopInv
  OBVIOUS
<1> DEFINE f == Activation("main", "window", <<>>)
<1>1. f \in Frames /\ Fits(f) /\ f.call = "main" /\ f.at = "window"
  BY DEF Activation, Frames, Fits, Labels, MainLabels
<1>2. stack = <<f>> /\ Len(stack) = 1 /\ stack[1] = f /\ stack \in Seq(Frames)
  BY <1>1 DEF Init
<1>3. Top = f
  BY <1>2 DEF Top
<1>4. StackOK
  BY <1>1, <1>2, <1>3, BoundsAssumption DEF StackOK, FrameAt
<1>5. RestOK
  <2>1. windows \in Seq(BOOLEAN) /\ driver \in {"none", "pcsc"} /\ clicks \in 0..MaxClicks
    BY BoundsAssumption DEF Init
  <2>2. /\ connected \in BOOLEAN /\ held \in BOOLEAN /\ present \in BOOLEAN /\ alive \in BOOLEAN
        /\ {quit, closed, crashed, interrupted} \subseteq BOOLEAN
    BY Zenon DEF Init
  <2> QED
    BY <2>1, <2>2 DEF RestOK
<1>6. WaitsHaveWindow /\ WindowsAreAnswered
  BY <1>1, <1>3 DEF Init, WaitsHaveWindow, WindowsAreAnswered, Waits
<1>7. ~connected /\ ~crashed
  BY Zenon DEF Init
<1>8. Handle /\ KnownCrashes
  BY <1>1, <1>3, <1>7 DEF Handle, KnownCrashes
<1> QED
  BY <1>4, <1>5, <1>6, <1>8 DEF DesktopInv

\* One step of the start from one place to another.
LEMMA MainMoves ==
  ASSUME DesktopInv, NEW from \in MainLabels, NEW to \in MainLabels, Runs("main", from), Goes(to),
         UNCHANGED interrupted
  PROVE  StackOK' /\ Top.at = from /\ Top'.at = to
<1>1. Top \in Frames /\ Top.call = "main" /\ Top.at = from /\ StackOK
  BY TopIsFrame DEF DesktopInv, Runs
<1>2. Fits([Top EXCEPT !.at = to]) /\ to \in Labels
  BY <1>1 DEF Fits, Frames, MainLabels, Labels
<1>3. StackOK' /\ Top' = [Top EXCEPT !.at = to]
  BY <1>1, <1>2, GoesKeeps
<1> QED
  BY <1>1, <1>3 DEF Frames

LEMMA StartsLuaSound == DesktopInv /\ StartsLua => DesktopInv'
<1> SUFFICES ASSUME DesktopInv, StartsLua PROVE DesktopInv'
  OBVIOUS
<1>1. StackOK' /\ Top.at = "window" /\ Top'.at = "install"
  BY MainMoves DEF StartsLua, MainLabels, user
<1>2. WindowsAreAnswered' /\ WaitsHaveWindow'
  BY <1>1, NoWindowMoves DEF StartsLua, Waits, world
<1>3. RestOK'
  BY DEF DesktopInv, RestOK, StartsLua, reader, world, user
<1>4. Handle' /\ KnownCrashes'
  BY <1>1 DEF DesktopInv, Handle, KnownCrashes, StartsLua, Runs, reader, user
<1> QED
  BY <1>1, <1>2, <1>3, <1>4 DEF DesktopInv

LEMMA AsksSound ==
  ASSUME DesktopInv, NEW from \in MainLabels \ Waits, NEW l \in MainLabels \cap Waits,
         NEW to \in MainLabels \ Waits,
         AsksFrom(from, l, to) \/ IsAnswered(l, to)
  PROVE  DesktopInv'
<1>1. CASE AsksFrom(from, l, to) /\ Opens /\ Goes(l)
  <2>1. StackOK' /\ Top.at = from /\ Top'.at = l
    BY <1>1, MainMoves DEF AsksFrom, user
  <2>2. WindowsAreAnswered' /\ WaitsHaveWindow' /\ windows' \in Seq(BOOLEAN)
    BY <1>1, <2>1, WindowOpens DEF AsksFrom, world
  <2>3. RestOK'
    BY <1>1, <2>2 DEF DesktopInv, RestOK, AsksFrom, reader, world, user
  <2>4. Handle' /\ KnownCrashes'
    BY <1>1, <2>1 DEF DesktopInv, Handle, KnownCrashes, AsksFrom, Runs, Waits, reader, user
  <2> QED
    BY <2>1, <2>2, <2>3, <2>4 DEF DesktopInv
<1>2. CASE AsksFrom(from, l, to) /\ Goes(to) /\ UNCHANGED windows
  <2>1. StackOK' /\ Top.at = from /\ Top'.at = to
    BY <1>2, MainMoves DEF AsksFrom, user
  <2>2. WindowsAreAnswered' /\ WaitsHaveWindow'
    BY <1>2, <2>1, NoWindowMoves DEF AsksFrom, world
  <2>3. RestOK'
    BY <1>2 DEF DesktopInv, RestOK, AsksFrom, reader, world, user
  <2>4. Handle' /\ KnownCrashes'
    BY <1>2, <2>1 DEF DesktopInv, Handle, KnownCrashes, AsksFrom, Runs, MainLabels, reader, user
  <2> QED
    BY <2>1, <2>2, <2>3, <2>4 DEF DesktopInv
<1>3. CASE IsAnswered(l, to)
  <2>1. StackOK' /\ Top.at = l /\ Top'.at = to
    BY <1>3, MainMoves DEF IsAnswered, user
  <2>2. WindowsAreAnswered' /\ WaitsHaveWindow' /\ windows' \in Seq(BOOLEAN)
    BY <1>3, <2>1, WindowCloses DEF IsAnswered, world
  <2>3. RestOK'
    BY <1>3, <2>2 DEF DesktopInv, RestOK, IsAnswered, reader, world, user
  <2>4. Handle' /\ KnownCrashes'
    BY <1>3, <2>1 DEF DesktopInv, Handle, KnownCrashes, IsAnswered, Runs, MainLabels, reader, user
  <2> QED
    BY <2>1, <2>2, <2>3, <2>4 DEF DesktopInv
<1> QED
  BY <1>1, <1>2, <1>3 DEF AsksFrom

LEMMA OpensReaderSound == DesktopInv /\ OpensReader => DesktopInv'
<1> SUFFICES ASSUME DesktopInv, OpensReader PROVE DesktopInv'
  OBVIOUS
<1>0. PICK l \in {"update", "over"} : Goes(l) /\ driver' \in {"none", "pcsc"}
  BY DEF OpensReader, DesktopInv, RestOK
<1>1. StackOK' /\ Top.at = "open" /\ Top'.at = l
  BY <1>0, MainMoves DEF OpensReader, MainLabels, user
<1>2. WindowsAreAnswered' /\ WaitsHaveWindow'
  BY <1>1, NoWindowMoves DEF OpensReader, Waits, world
<1>3. RestOK'
  BY <1>0 DEF DesktopInv, RestOK, OpensReader, world, user
<1>4. Handle' /\ KnownCrashes'
  BY <1>1 DEF DesktopInv, Handle, KnownCrashes, OpensReader, Runs, user
<1> QED
  BY <1>1, <1>2, <1>3, <1>4 DEF DesktopInv

LEMMA LeavesLoopSound == DesktopInv /\ LeavesLoop => DesktopInv'
<1> SUFFICES ASSUME DesktopInv, LeavesLoop PROVE DesktopInv'
  OBVIOUS
<1>1. StackOK' /\ Top.at = "loop" /\ Top'.at = "over"
  BY MainMoves DEF LeavesLoop, MainLabels, user
<1>2. WindowsAreAnswered' /\ WaitsHaveWindow'
  BY <1>1, NoWindowMoves DEF LeavesLoop, Waits, world
<1>3. RestOK'
  BY DEF DesktopInv, RestOK, LeavesLoop, reader, world, user
<1>4. Handle' /\ KnownCrashes'
  BY <1>1 DEF DesktopInv, Handle, KnownCrashes, LeavesLoop, Runs, reader, user
<1> QED
  BY <1>1, <1>2, <1>3, <1>4 DEF DesktopInv

LEMMA StartsSound == DesktopInv /\ Starts => DesktopInv'
<1> SUFFICES ASSUME DesktopInv, Starts PROVE DesktopInv'
  OBVIOUS
<1>1. /\ {"install", "choose", "open", "update", "loop"} \subseteq MainLabels \ Waits
      /\ {"installing", "choosing", "updating"} \subseteq MainLabels \cap Waits
  BY DEF MainLabels, Waits
<1>2. CASE Installs
  BY <1>1, <1>2, AsksSound DEF Installs
<1>3. CASE Chooses
  BY <1>1, <1>3, AsksSound DEF Chooses
<1>4. CASE Updates
  BY <1>1, <1>4, AsksSound DEF Updates
<1> QED
  BY <1>2, <1>3, <1>4, StartsLuaSound, OpensReaderSound, LeavesLoopSound DEF Starts

-------------------------------------------------------------------------------
(***************************************************************************)
(* The steps of a program and of its questions.                            *)
(***************************************************************************)
LEMMA RunsNoLuaSound == DesktopInv /\ RunsNoLua => DesktopInv'
<1> SUFFICES ASSUME DesktopInv, RunsNoLua PROVE DesktopInv'
  OBVIOUS
<1>1. Main.at = "window" /\ Main' = Main
  BY DEF RunsNoLua, LuaReady, Main
<1>2. KnownCrashes'
  BY <1>1 DEF KnownCrashes
<1>3. StackOK' /\ WindowsAreAnswered' /\ WaitsHaveWindow' /\ Handle'
  BY DEF DesktopInv, RunsNoLua, StackOK, FrameAt, Interrupted, WindowsAreAnswered,
         WaitsHaveWindow, Handle, Top, reader, world, user
<1>4. RestOK'
  BY DEF DesktopInv, RunsNoLua, RestOK, reader, world, user
<1> QED
  BY <1>2, <1>3, <1>4 DEF DesktopInv

\* The program whose next call is c, and the activation of the call.
LEMMA NextCall ==
  ASSUME DesktopInv, Runs("script", "running"), Top.todo # <<>>,
         UNCHANGED interrupted,
         NEW rest, rest = [stack EXCEPT ![Len(stack)].todo = Tail(@)],
         NEW c \in Calls
  PROVE  /\ stack' = rest => StackOK' /\ Top'.at = "running" /\ (Len(stack) > 1 => Main' = Main)
         /\ c # "exit" /\ stack' = Append(rest, Activation(c, First[c], <<>>))
              => StackOK' /\ Top'.at = First[c] /\ Top'.call = c
<1> DEFINE f == [Top EXCEPT !.todo = Tail(Top.todo)]
<1>1. /\ Top \in Frames /\ Top.call = "script" /\ Top.at = "running"
      /\ stack \in Seq(Frames) /\ Len(stack) \in 2..(MaxDepth + 1) /\ Len(stack) <= MaxDepth
  <2>1. Top \in Frames /\ Top.call = "script" /\ Top.at = "running" /\ Len(stack) # 1
    BY TopIsFrame DEF DesktopInv, Runs
  <2>2. stack \in Seq(Frames) /\ Len(stack) \in 1..(MaxDepth + 1) /\ Len(stack) <= MaxDepth
    BY <2>1 DEF DesktopInv, StackOK
  <2>3. \A k \in 1..(MaxDepth + 1) : k # 1 => k \in 2..(MaxDepth + 1)
    BY BoundsAssumption
  <2> QED
    BY <2>1, <2>2, <2>3
<1>0. Tail(Top.todo) \in Seq(Calls)
  BY <1>1, HeadTailProperties DEF Frames
<1>2. f \in Frames /\ f.call = "script" /\ f.at = "running" /\ Fits(f)
  BY <1>0, <1>1 DEF Frames, Fits
<1>n. PICK n \in 2..MaxDepth : n = Len(stack)
  BY <1>1, BoundsAssumption
<1>3. rest = [stack EXCEPT ![n] = f]
  BY <1>n DEF Top
<1>4. /\ rest \in Seq(Frames) /\ Len(rest) = n
      /\ \A j \in 1..n : rest[j] = IF j = n THEN f ELSE stack[j]
  <2>1. stack \in Seq(Frames) /\ n \in 1..Len(stack) /\ f \in Frames
    BY <1>1, <1>2, <1>n
  <2>2. /\ [stack EXCEPT ![n] = f] \in Seq(Frames)
        /\ Len([stack EXCEPT ![n] = f]) = Len(stack)
        /\ \A j \in 1..Len(stack) : [stack EXCEPT ![n] = f][j] = IF j = n THEN f ELSE stack[j]
    BY <2>1, ExceptSeq
  <2> QED
    BY <1>3, <1>n, <2>2
<1>5. ASSUME NEW i \in 1..n
      PROVE  /\ rest[i] \in Frames /\ Fits(rest[i]) /\ (rest[i].call = "main" <=> i = 1)
             /\ rest[i].at \notin Waits /\ (~interrupted => rest[i].call \notin ReaderCalls)
  <2>1. CASE i = n
    <3>1. rest[i] = f
      BY <1>4, <2>1
    <3>2. i # 1
      BY <1>n, <2>1
    <3> HIDE DEF f
    <3> QED
      BY <1>2, <3>1, <3>2 DEF Waits, ReaderCalls
  <2>2. CASE i # n
    <3>1. FrameAt(i) /\ Interrupted(i)
      BY <1>n, <2>2 DEF DesktopInv, StackOK
    <3> QED
      BY <1>4, <2>2, <3>1 DEF FrameAt, Interrupted
  <2> QED
    BY <2>1, <2>2
<1>6. ASSUME stack' = rest
      PROVE  StackOK' /\ Top'.at = "running" /\ (Len(stack) > 1 => Main' = Main)
  <2>1. Len(stack') = n /\ Top' = f /\ Main' = Main
    BY <1>4, <1>6, <1>n DEF Top, Main
  <2>2. \A i \in 1..n : FrameAt(i)' /\ Interrupted(i)'
    BY <1>5, <1>6 DEF FrameAt, Interrupted
  <2>3. n \in 1..(MaxDepth + 1) /\ n <= MaxDepth
    BY <1>n, BoundsAssumption
  <2> HIDE DEF f
  <2> QED
    BY <1>2, <1>4, <1>6, <2>1, <2>2, <2>3 DEF StackOK
<1>7. ASSUME c # "exit", stack' = Append(rest, Activation(c, First[c], <<>>))
      PROVE  StackOK' /\ Top'.at = First[c] /\ Top'.call = c
  <2> DEFINE g == Activation(c, First[c], <<>>)
  <2>1. g \in Frames /\ Fits(g) /\ g.call = c /\ g.at = First[c] /\ c \notin {"main", "script"}
    BY <1>7 DEF Activation, Frames, Fits, First, Labels, Calls, ReaderCalls
  <2>2. /\ stack' \in Seq(Frames) /\ Len(stack') = n + 1
        /\ \A j \in 1..n : stack'[j] = rest[j]
        /\ stack'[n + 1] = g
    BY <1>4, <1>7, <2>1
  <2>3. Top' = g
    BY <2>2 DEF Top
  <2>4. \A i \in 1..n : FrameAt(i)' /\ Interrupted(i)'
    BY <1>5, <2>2 DEF FrameAt, Interrupted
  <2>5. FrameAt(n + 1)'
    <3>1. n + 1 # 1 /\ stack'[n + 1] = g
      BY <1>n, <2>2
    <3>2. PICK k : k = n + 1
      OBVIOUS
    <3> QED
      BY <2>1, <3>1, <3>2 DEF FrameAt
  <2>6. \A i \in 1..(n + 1) : FrameAt(i)' /\ (i < n + 1 => Interrupted(i)')
    <3> TAKE i \in 1..(n + 1)
    <3>1. CASE i = n + 1
      BY <1>n, <2>5, <3>1
    <3>2. CASE i # n + 1
      <4>1. i \in 1..n
        BY <1>n, <3>2
      <4> QED
        BY <2>4, <4>1
    <3> QED
      BY <3>1, <3>2
  <2> QED
    BY <1>n, <2>1, <2>2, <2>3, <2>6, BoundsAssumption DEF StackOK
<1> QED
  BY <1>6, <1>7

LEMMA ScriptCallsSound == DesktopInv /\ ScriptCalls => DesktopInv'
<1> SUFFICES ASSUME DesktopInv, ScriptCalls PROVE DesktopInv'
  OBVIOUS
<1> DEFINE c == Head(Top.todo)
           rest == [stack EXCEPT ![Len(stack)].todo = Tail(@)]
<1>1. /\ Top \in Frames /\ Top.call = "script" /\ Top.at = "running" /\ Len(stack) > 1
      /\ Main.at \in MainLabels \ Waits
  <2>1. /\ Top \in Frames /\ Top.call = "script" /\ Top.at = "running" /\ Len(stack) # 1
        /\ Main.at \in MainLabels /\ (Len(stack) > 1 => Main.at \notin Waits)
    BY TopIsFrame DEF DesktopInv, ScriptCalls, Runs
  <2>2. Len(stack) \in 1..(MaxDepth + 1) /\ MaxDepth \in Nat
    BY BoundsAssumption DEF DesktopInv, StackOK
  <2>3. \A k \in 1..(MaxDepth + 1) : k # 1 => k > 1
    BY <2>2
  <2> QED
    BY <2>1, <2>2, <2>3
<1>2. c \in Calls
  BY <1>1 DEF ScriptCalls, Frames
<1>3. Top.at \notin Waits
  BY <1>1 DEF Waits
<1>4. Top.todo # <<>> /\ Runs("script", "running") /\ UNCHANGED <<reader, world, user>>
  BY DEF ScriptCalls
<1>5. CASE Missing(c)
  <2>1. crashed' = TRUE /\ UNCHANGED <<stack, windows, quit>>
    BY <1>5 DEF ScriptCalls
  <2>2. StackOK' /\ WindowsAreAnswered' /\ WaitsHaveWindow' /\ Handle' /\ Main' = Main
    BY <1>4, <2>1 DEF DesktopInv, StackOK, FrameAt, Interrupted, WindowsAreAnswered,
         WaitsHaveWindow, Handle, Top, Main, reader, world, user
  <2>3. driver = "none" \/ Main.at \in {"window", "install", "choose", "open"}
    BY <1>1, <1>5 DEF Missing, IsNull, ReaderReady, MainLabels, Waits
  <2>4. KnownCrashes' /\ RestOK'
    BY <1>4, <2>1, <2>2, <2>3 DEF DesktopInv, KnownCrashes, RestOK, reader, world, user
  <2> QED
    BY <2>2, <2>4 DEF DesktopInv
<1>6. CASE ~Missing(c) /\ c = "exit"
  <2>1. Quits /\ stack' = rest /\ UNCHANGED <<windows, crashed>>
    BY <1>6 DEF ScriptCalls
  <2>2. StackOK' /\ Top'.at = "running"
    BY <1>2, <1>4, <2>1, NextCall DEF user
  <2>3. WindowsAreAnswered' /\ WaitsHaveWindow'
    BY <1>3, <1>4, <2>1, <2>2, NoWindowMoves DEF Waits, world
  <2>4. RestOK'
    <3>1. quit' \in BOOLEAN
      BY <2>1 DEF Quits
    <3> QED
      BY <1>4, <2>1, <3>1 DEF DesktopInv, RestOK, reader, world, user
  <2>5. Handle' /\ KnownCrashes'
    BY <1>4, <2>1, <2>2 DEF DesktopInv, Handle, KnownCrashes, Runs, reader, user
  <2> QED
    BY <2>2, <2>3, <2>4, <2>5 DEF DesktopInv
<1>7. CASE ~Missing(c) /\ c # "exit"
  <2>1. /\ stack' = Append(rest, Activation(c, First[c], <<>>))
        /\ IF c = "ask" THEN Opens ELSE UNCHANGED windows
        /\ UNCHANGED <<quit, crashed>>
    BY <1>7 DEF ScriptCalls
  <2>2. StackOK' /\ Top'.at = First[c] /\ Top'.call = c
    BY <1>2, <1>4, <1>7, <2>1, NextCall DEF user
  <2>3. WindowsAreAnswered' /\ WaitsHaveWindow' /\ windows' \in Seq(BOOLEAN)
    <3>1. CASE c = "ask"
      <4>1. Top'.at \in Waits
        BY <2>2, <3>1 DEF First, Waits
      <4> QED
        BY <1>3, <1>4, <2>1, <3>1, <4>1, WindowOpens DEF world
    <3>2. CASE c # "ask"
      <4>1. Top'.at \notin Waits
        BY <1>2, <1>7, <2>2, <3>2 DEF First, Waits, Calls, ReaderCalls
      <4> QED
        BY <1>3, <1>4, <2>1, <3>2, <4>1, NoWindowMoves DEF world, DesktopInv, RestOK
    <3> QED
      BY <3>1, <3>2
  <2>4. RestOK'
    BY <1>4, <2>1, <2>3 DEF DesktopInv, RestOK, reader, world, user
  <2>5. Top'.at \notin {"announce", "renewed"}
    BY <1>2, <1>7, <2>2 DEF First, Calls, ReaderCalls
  <2>6. Handle' /\ KnownCrashes'
    BY <1>4, <2>1, <2>5 DEF DesktopInv, Handle, KnownCrashes, Runs, reader, user
  <2> QED
    BY <2>2, <2>3, <2>4, <2>6 DEF DesktopInv
<1> QED
  BY <1>5, <1>6, <1>7

\* What is known of the call that a return goes back to.
LEMMA ReturnHandle ==
  ASSUME DesktopInv, StackOK', Top'.at \notin Waits,
         ~interrupted => Top'.call \notin ReaderCalls,
         UNCHANGED <<connected, held, interrupted>>
  PROVE  Handle'
<1>1. Fits(Top)'
  <2>1. Len(stack') \in 1..Len(stack')
    BY DEF StackOK
  <2> QED
    BY <2>1 DEF StackOK, FrameAt, Top
<1>2. ~interrupted => Top'.at \notin {"announce", "renewed"}
  BY <1>1 DEF Fits, ReaderCalls, MainLabels
<1> QED
  BY <1>2 DEF DesktopInv, Handle

LEMMA ScriptEndsSound == DesktopInv /\ ScriptEnds => DesktopInv'
<1> SUFFICES ASSUME DesktopInv, ScriptEnds PROVE DesktopInv'
  OBVIOUS
<1>1. Top.call # "main" /\ Top.at \notin Waits /\ StackOK
  BY DEF ScriptEnds, Runs, Waits, DesktopInv
<1>2. StackOK' /\ Top'.at \notin Waits /\ (~interrupted => Top'.call \notin ReaderCalls)
  BY <1>1, ReturnsKeeps DEF ScriptEnds, user
<1>3. WindowsAreAnswered' /\ WaitsHaveWindow'
  BY <1>1, <1>2, NoWindowMoves DEF ScriptEnds, world
<1>4. Handle'
  BY <1>2, ReturnHandle DEF ScriptEnds, reader, user
<1>5. RestOK'
  BY DEF DesktopInv, RestOK, ScriptEnds, reader, world, user
<1>6. KnownCrashes'
  BY DEF KnownCrashes, ScriptEnds, Runs
<1> QED
  BY <1>2, <1>3, <1>4, <1>5, <1>6 DEF DesktopInv

LEMMA AskEndsSound == DesktopInv /\ AskEnds => DesktopInv'
<1> SUFFICES ASSUME DesktopInv, AskEnds PROVE DesktopInv'
  OBVIOUS
<1>1. Top.call # "main" /\ Top.at \in Waits /\ StackOK
  BY DEF AskEnds, Runs, Waits, DesktopInv
<1>2. StackOK' /\ Top'.at \notin Waits /\ (~interrupted => Top'.call \notin ReaderCalls)
  BY <1>1, ReturnsKeeps DEF AskEnds, user
<1>3. WindowsAreAnswered' /\ WaitsHaveWindow' /\ windows' \in Seq(BOOLEAN)
  BY <1>1, <1>2, WindowCloses DEF AskEnds, world
<1>4. Handle'
  BY <1>2, ReturnHandle DEF AskEnds, reader, user
<1>5. RestOK'
  BY <1>3 DEF DesktopInv, RestOK, AskEnds, reader, world, user
<1>6. KnownCrashes'
  BY DEF KnownCrashes, AskEnds, Runs
<1> QED
  BY <1>2, <1>3, <1>4, <1>5, <1>6 DEF DesktopInv

-------------------------------------------------------------------------------
(***************************************************************************)
(* The steps of the calls of the reader.                                   *)
(***************************************************************************)
Places(c) ==
  {l \in Labels : Fits([call |-> c, at |-> l, todo |-> <<>>])}

LEMMA CallMoves ==
  ASSUME DesktopInv, NEW c \in ReaderCalls, NEW from, NEW to \in Places(c),
         Runs(c, from), Goes(to), UNCHANGED interrupted
  PROVE  StackOK' /\ Top.at = from /\ Top'.at = to
<1>1. Top \in Frames /\ Top.call = c /\ Top.at = from /\ StackOK
  BY TopIsFrame DEF DesktopInv, Runs
<1>2. Fits([Top EXCEPT !.at = to]) /\ to \in Labels
  BY <1>1 DEF Fits, Frames, Places
<1>3. StackOK' /\ Top' = [Top EXCEPT !.at = to]
  BY <1>1, <1>2, GoesKeeps
<1> QED
  BY <1>1, <1>3 DEF Frames

LEMMA ThePlaces ==
  /\ {"attempt", "announce", "report", "wait"} \subseteq Places("connect")
  /\ "report" \in Places("disconnect") /\ "report" \in Places("info")
  /\ {"renewed", "lost", "report"} \subseteq Places("reset")
  /\ ReaderCalls = {"connect", "disconnect", "reset", "info"}
  BY DEF Places, Fits, Labels, ReaderCalls

LEMMA QueriesSound == DesktopInv /\ Queries => DesktopInv'
<1> SUFFICES ASSUME DesktopInv, Queries PROVE DesktopInv'
  OBVIOUS
<1>1. PICK to \in {"report", "attempt", "wait"} :
        Goes(to) /\ (IF to = "wait" THEN Opens ELSE UNCHANGED windows)
  BY DEF Queries
<1>2. StackOK' /\ Top.at = "query" /\ Top'.at = to
  BY <1>1, CallMoves, ThePlaces DEF Queries, user
<1>3. WindowsAreAnswered' /\ WaitsHaveWindow' /\ windows' \in Seq(BOOLEAN)
  <2>1. CASE to = "wait"
    BY <1>1, <1>2, <2>1, WindowOpens DEF Queries, Waits, world
  <2>2. CASE to # "wait"
    BY <1>1, <1>2, <2>2, NoWindowMoves DEF Queries, Waits, world, DesktopInv, RestOK
  <2> QED
    BY <2>1, <2>2
<1>4. RestOK'
  BY <1>3 DEF DesktopInv, RestOK, Queries, reader, world, user
<1>5. Handle' /\ KnownCrashes'
  BY <1>2 DEF DesktopInv, Handle, KnownCrashes, Queries, Runs, reader, user
<1> QED
  BY <1>2, <1>3, <1>4, <1>5 DEF DesktopInv

\* Cancelled and SeesCard close the dialog.
LEMMA WaitClosesSound == DesktopInv /\ (Cancelled \/ SeesCard) => DesktopInv'
<1> SUFFICES ASSUME DesktopInv, Cancelled \/ SeesCard PROVE DesktopInv'
  OBVIOUS
<1>0. /\ Runs("connect", "wait") /\ Closes
      /\ UNCHANGED <<reader, world, quit, crashed, user>>
  BY DEF Cancelled, SeesCard
<1>1. PICK to \in {"report", "attempt"} : Goes(to)
  BY DEF Cancelled, SeesCard
<1>2. StackOK' /\ Top.at = "wait" /\ Top'.at = to
  BY <1>0, <1>1, CallMoves, ThePlaces DEF user
<1>3. WindowsAreAnswered' /\ WaitsHaveWindow' /\ windows' \in Seq(BOOLEAN)
  BY <1>0, <1>2, WindowCloses DEF Waits, world
<1>4. RestOK'
  BY <1>0, <1>3 DEF DesktopInv, RestOK, reader, world, user
<1>5. Handle' /\ KnownCrashes'
  BY <1>0, <1>2 DEF DesktopInv, Handle, KnownCrashes, Runs, reader, user
<1> QED
  BY <1>2, <1>3, <1>4, <1>5 DEF DesktopInv

\* The dialog that is left open is that of a reader that failed.
LEMMA WaitFailsSound == DesktopInv /\ WaitFails => DesktopInv'
<1> SUFFICES ASSUME DesktopInv, WaitFails PROVE DesktopInv'
  OBVIOUS
<1>1. StackOK' /\ Top.at = "wait" /\ Top'.at = "report"
  BY CallMoves, ThePlaces DEF WaitFails, user
<1>2. WindowsAreAnswered' /\ WaitsHaveWindow'
  BY <1>1 DEF WaitFails, WindowsAreAnswered, WaitsHaveWindow, Waits, world
<1>3. RestOK'
  BY DEF DesktopInv, RestOK, WaitFails, reader, world, user
<1>4. Handle' /\ KnownCrashes'
  BY <1>1 DEF DesktopInv, Handle, KnownCrashes, WaitFails, Runs, reader, user
<1> QED
  BY <1>1, <1>2, <1>3, <1>4 DEF DesktopInv

LEMMA ConnectsCardSound == DesktopInv /\ ConnectsCard => DesktopInv'
<1> SUFFICES ASSUME DesktopInv, ConnectsCard PROVE DesktopInv'
  OBVIOUS
<1>0. RestOK /\ Handle
  BY DEF DesktopInv
<1>1. PICK to \in {"report", "announce"} :
        Goes(to) /\ (held' = TRUE \/ (to = "report" /\ held' = held))
  BY DEF ConnectsCard
<1>2. StackOK' /\ Top.at = "attempt" /\ Top'.at = to
  BY <1>1, CallMoves, ThePlaces DEF ConnectsCard, user
<1>3. WindowsAreAnswered' /\ WaitsHaveWindow'
  BY <1>1, <1>2, NoWindowMoves DEF ConnectsCard, Waits, world
<1>4. held' \in BOOLEAN
  BY <1>0, <1>1 DEF RestOK
<1>5. RestOK'
  BY <1>4 DEF DesktopInv, RestOK, ConnectsCard, world, user
<1>6. Handle' /\ KnownCrashes'
  BY <1>0, <1>1, <1>2 DEF DesktopInv, Handle, KnownCrashes, ConnectsCard, Runs, user
<1> QED
  BY <1>2, <1>3, <1>5, <1>6 DEF DesktopInv

LEMMA AnnouncesSound == DesktopInv /\ Announces => DesktopInv'
<1> SUFFICES ASSUME DesktopInv, Announces PROVE DesktopInv'
  OBVIOUS
<1>1. StackOK' /\ Top.at = "announce" /\ Top'.at = "report"
  BY CallMoves, ThePlaces DEF Announces, user
<1>2. WindowsAreAnswered' /\ WaitsHaveWindow'
  BY <1>1, NoWindowMoves DEF Announces, Waits, world
<1>3. RestOK'
  BY DEF DesktopInv, RestOK, Announces, world, user
<1>4. Handle' /\ KnownCrashes'
  BY <1>1 DEF DesktopInv, Handle, KnownCrashes, Announces, Runs, user
<1> QED
  BY <1>1, <1>2, <1>3, <1>4 DEF DesktopInv

LEMMA DisconnectsSound == DesktopInv /\ Disconnects => DesktopInv'
<1> SUFFICES ASSUME DesktopInv, Disconnects PROVE DesktopInv'
  OBVIOUS
<1>0. (held' = FALSE /\ connected' = FALSE) \/ (held' = held /\ connected' = connected)
  BY DEF Disconnects
<1>1. StackOK' /\ Top.at = "told" /\ Top'.at = "report"
  BY CallMoves, ThePlaces DEF Disconnects, user
<1>2. WindowsAreAnswered' /\ WaitsHaveWindow'
  BY <1>1, NoWindowMoves DEF Disconnects, Waits, world
<1>3. held' \in BOOLEAN /\ connected' \in BOOLEAN
  BY <1>0 DEF DesktopInv, RestOK
<1>4. RestOK'
  BY <1>3 DEF DesktopInv, RestOK, Disconnects, world, user
<1>5. connected' /\ (connected => held) => held'
  BY <1>0, Zenon
<1>6. Handle' /\ KnownCrashes'
  BY <1>0, <1>1 DEF DesktopInv, Handle, KnownCrashes, Disconnects, Runs, user
<1> QED
  BY <1>1, <1>2, <1>4, <1>6 DEF DesktopInv

LEMMA ResetsSound == DesktopInv /\ Resets => DesktopInv'
<1> SUFFICES ASSUME DesktopInv, Resets PROVE DesktopInv'
  OBVIOUS
<1>1. PICK to \in {"report", "renewed", "lost"} : Goes(to) /\ (to = "renewed" => held)
  BY DEF Resets
<1>2. StackOK' /\ Top.at = "reset" /\ Top'.at = to
  BY <1>1, CallMoves, ThePlaces DEF Resets, user
<1>3. WindowsAreAnswered' /\ WaitsHaveWindow'
  BY <1>2, NoWindowMoves DEF Resets, Waits, world
<1>4. RestOK'
  BY DEF DesktopInv, RestOK, Resets, reader, world, user
<1>5. Handle' /\ KnownCrashes'
  BY <1>1, <1>2 DEF DesktopInv, Handle, KnownCrashes, Resets, Runs, reader, user
<1> QED
  BY <1>2, <1>3, <1>4, <1>5 DEF DesktopInv

LEMMA ResetDoneSound == DesktopInv /\ ResetDone => DesktopInv'
<1> SUFFICES ASSUME DesktopInv, ResetDone PROVE DesktopInv'
  OBVIOUS
<1>0. connected' = (Top.at = "renewed") /\ Goes("report")
  BY DEF ResetDone
<1>1. PICK from \in {"renewed", "lost"} : Runs("reset", from)
  BY DEF ResetDone
<1>2. StackOK' /\ Top.at = from /\ Top'.at = "report"
  BY <1>0, <1>1, CallMoves, ThePlaces DEF ResetDone, user
<1>3. WindowsAreAnswered' /\ WaitsHaveWindow'
  BY <1>2, NoWindowMoves DEF ResetDone, Waits, world
<1>4. connected' \in BOOLEAN
  BY <1>0
<1>5. RestOK'
  BY <1>4 DEF DesktopInv, RestOK, ResetDone, world, user
<1>6. Handle' /\ KnownCrashes'
  BY <1>0, <1>1, <1>2 DEF DesktopInv, Handle, KnownCrashes, ResetDone, Runs, user
<1> QED
  BY <1>2, <1>3, <1>5, <1>6 DEF DesktopInv

LEMMA InformsSound == DesktopInv /\ Informs => DesktopInv'
<1> SUFFICES ASSUME DesktopInv, Informs PROVE DesktopInv'
  OBVIOUS
<1>0. connected' = FALSE \/ connected' = connected
  BY DEF Informs
<1>1. StackOK' /\ Top.at = "status" /\ Top'.at = "report"
  BY CallMoves, ThePlaces DEF Informs, user
<1>2. WindowsAreAnswered' /\ WaitsHaveWindow'
  BY <1>1, NoWindowMoves DEF Informs, Waits, world
<1>3. connected' \in BOOLEAN
  BY <1>0 DEF DesktopInv, RestOK
<1>4. RestOK'
  BY <1>3 DEF DesktopInv, RestOK, Informs, world, user
<1>5. Handle' /\ KnownCrashes'
  BY <1>0, <1>1 DEF DesktopInv, Handle, KnownCrashes, Informs, Runs, user
<1> QED
  BY <1>1, <1>2, <1>4, <1>5 DEF DesktopInv

LEMMA ReportsSound == DesktopInv /\ Reports => DesktopInv'
<1> SUFFICES ASSUME DesktopInv, Reports PROVE DesktopInv'
  OBVIOUS
<1>1. Top.call # "main" /\ Top.at \notin Waits /\ StackOK
  BY DEF Reports, Runs, Waits, DesktopInv, ReaderCalls
<1>2. StackOK' /\ Top'.at \notin Waits /\ (~interrupted => Top'.call \notin ReaderCalls)
  BY <1>1, ReturnsKeeps DEF Reports, user
<1>3. WindowsAreAnswered' /\ WaitsHaveWindow'
  BY <1>1, <1>2, NoWindowMoves DEF Reports, world
<1>4. Handle'
  BY <1>2, ReturnHandle DEF Reports, reader, user
<1>5. RestOK'
  BY DEF DesktopInv, RestOK, Reports, reader, world, user
<1>6. KnownCrashes'
  BY DEF KnownCrashes, Reports, Runs
<1> QED
  BY <1>2, <1>3, <1>4, <1>5, <1>6 DEF DesktopInv

-------------------------------------------------------------------------------
(***************************************************************************)
(* The user and the card.                                                  *)
(***************************************************************************)
LEMMA ClicksSound == ASSUME DesktopInv, NEW p \in Programs, Clicks(p) PROVE DesktopInv'
<1> DEFINE f == Activation("script", "running", p)
<1>1. f \in Frames /\ Fits(f) /\ f.call = "script" /\ f.at = "running"
  BY ProgramsAssumption DEF Activation, Frames, Fits, Labels
<1>2. Top.at \notin Waits
  BY DEF Clicks, MainReachable, DesktopInv, WaitsHaveWindow
<1>3. stack' = Append(stack, f) /\ Len(stack) < MaxDepth /\ interrupted \in BOOLEAN
  BY DEF Clicks, DesktopInv, RestOK
<1>4. interrupted' = (interrupted \/ Top.call \in ReaderCalls)
  BY DEF Clicks
<1>5. (interrupted => interrupted') /\ (~interrupted' => Top.call \notin ReaderCalls)
  BY <1>4
<1>6. StackOK' /\ Top' = f
  <2>1. Len(stack) <= MaxDepth /\ StackOK /\ f.call # "main"
    <3>1. StackOK /\ \A k \in 1..(MaxDepth + 1) : k < MaxDepth => k <= MaxDepth
      BY BoundsAssumption DEF DesktopInv
    <3> QED
      BY <1>1, <1>3, <3>1 DEF StackOK
  <2> HIDE DEF f
  <2> QED
    BY <1>1, <1>2, <1>3, <1>5, <2>1, CallsKeeps
<1>7. WindowsAreAnswered' /\ WaitsHaveWindow'
  BY <1>1, <1>2, <1>6, NoWindowMoves DEF Clicks, Waits, world
<1>8. RestOK'
  <2>1. clicks' \in 0..MaxClicks
    BY BoundsAssumption DEF Clicks, DesktopInv, RestOK
  <2>2. interrupted' \in BOOLEAN
    BY <1>4
  <2> QED
    BY <2>1, <2>2 DEF Clicks, DesktopInv, RestOK, reader, world
<1>9. Handle' /\ KnownCrashes'
  BY <1>1, <1>5, <1>6 DEF DesktopInv, Handle, KnownCrashes, Clicks, MainReachable, Handles, reader
<1> QED
  BY <1>6, <1>7, <1>8, <1>9 DEF DesktopInv

\* What changes neither the stack nor the handle.
LEMMA AsideSound ==
  ASSUME DesktopInv, RestOK', KnownCrashes', UNCHANGED <<stack, reader, interrupted>>,
         windows' = windows \/ (Len(windows') = Len(windows) /\ windows # <<>>),
         alive' = alive \/ alive' = FALSE
  PROVE  DesktopInv'
<1>1. StackOK' /\ Handle'
  BY DEF DesktopInv, StackOK, FrameAt, Interrupted, Handle, Top, reader
<1>2. windows \in Seq(BOOLEAN) /\ windows' \in Seq(BOOLEAN) /\ Top' = Top
  BY DEF DesktopInv, RestOK, Top
<1>3. Len(windows') = Len(windows) /\ (windows = <<>> <=> windows' = <<>>)
  BY <1>2, EmptySeq
<1>4. WaitsHaveWindow' /\ WindowsAreAnswered'
  BY <1>2, <1>3 DEF DesktopInv, WaitsHaveWindow, WindowsAreAnswered
<1> QED
  BY <1>1, <1>4 DEF DesktopInv

LEMMA ClicksQuitSound == DesktopInv /\ ClicksQuit => DesktopInv'
<1> SUFFICES ASSUME DesktopInv, ClicksQuit PROVE DesktopInv'
  OBVIOUS
<1>1. quit' \in BOOLEAN
  BY DEF ClicksQuit, Quits
<1>2. RestOK'
  BY <1>1 DEF ClicksQuit, DesktopInv, RestOK, reader, world, user
<1>3. KnownCrashes'
  BY DEF ClicksQuit, MainReachable, Handles, KnownCrashes
<1> QED
  BY <1>2, <1>3, AsideSound DEF ClicksQuit, user, world

LEMMA ClosesMainSound == DesktopInv /\ ClosesMain => DesktopInv'
<1> SUFFICES ASSUME DesktopInv, ClosesMain PROVE DesktopInv'
  OBVIOUS
<1>1. quit' \in BOOLEAN
  BY DEF ClosesMain, Quits
<1>2. RestOK'
  BY <1>1 DEF ClosesMain, DesktopInv, RestOK, reader, world
<1>3. KnownCrashes'
  BY DEF ClosesMain, KnownCrashes
<1> QED
  BY <1>2, <1>3, AsideSound DEF ClosesMain, world

LEMMA AnswersSound == DesktopInv /\ Answers => DesktopInv'
<1> SUFFICES ASSUME DesktopInv, Answers PROVE DesktopInv'
  OBVIOUS
<1>1. windows \in Seq(BOOLEAN) /\ windows # <<>>
  BY DEF Answers, DesktopInv, RestOK
<1>2. Len(windows) \in 1..Len(windows)
  BY <1>1
<1>3. windows' \in Seq(BOOLEAN) /\ Len(windows') = Len(windows)
  BY <1>1, <1>2, ExceptSeq DEF Answers
<1>4. RestOK'
  BY <1>3 DEF Answers, DesktopInv, RestOK, reader, world, user
<1>5. KnownCrashes'
  BY DEF Answers, Handles, KnownCrashes
<1> QED
  BY <1>1, <1>3, <1>4, <1>5, AsideSound DEF Answers, user, world

LEMMA OthersSound ==
  DesktopInv /\ (UsesClosed \/ CardMoves \/ ReaderFails) => DesktopInv'
<1>1. ASSUME DesktopInv, UsesClosed PROVE DesktopInv'
  <2>1. RestOK' /\ KnownCrashes'
    BY <1>1 DEF UsesClosed, DesktopInv, RestOK, KnownCrashes, reader, world, user
  <2> QED
    BY <1>1, <2>1, AsideSound DEF UsesClosed, user, world
<1>2. ASSUME DesktopInv, CardMoves PROVE DesktopInv'
  <2>1. RestOK' /\ KnownCrashes'
    BY <1>2 DEF CardMoves, DesktopInv, RestOK, KnownCrashes, Ended, reader, user
  <2> QED
    BY <1>2, <2>1, AsideSound DEF CardMoves, user
<1>3. ASSUME DesktopInv, ReaderFails PROVE DesktopInv'
  <2>1. RestOK' /\ KnownCrashes'
    BY <1>3 DEF ReaderFails, DesktopInv, RestOK, KnownCrashes, Ended, reader, user
  <2> QED
    BY <1>3, <2>1, AsideSound DEF ReaderFails, user
<1> QED
  BY <1>1, <1>2, <1>3

-------------------------------------------------------------------------------
LEMMA StepSound == DesktopInv /\ [Next]_vars => DesktopInv'
<1> SUFFICES ASSUME DesktopInv, [Next]_vars PROVE DesktopInv'
  OBVIOUS
<1>1. CASE Starts
  BY <1>1, StartsSound
<1>2. CASE RunsLua
  BY <1>2, RunsNoLuaSound, ScriptCallsSound, ScriptEndsSound, AskEndsSound DEF RunsLua
<1>3. CASE Connects
  BY <1>3, QueriesSound, WaitClosesSound, WaitFailsSound, ConnectsCardSound, AnnouncesSound
     DEF Connects
<1>4. CASE Others
  BY <1>4, DisconnectsSound, ResetsSound, ResetDoneSound, InformsSound, ReportsSound DEF Others
<1>5. CASE \E p \in Programs : Clicks(p)
  BY <1>5, ClicksSound
<1>6. CASE ClicksQuit \/ ClosesMain \/ Answers \/ UsesClosed \/ CardMoves \/ ReaderFails
  BY <1>6, ClicksQuitSound, ClosesMainSound, AnswersSound, OthersSound
<1>7. CASE UNCHANGED vars
  <2>1. RestOK' /\ KnownCrashes'
    BY <1>7 DEF vars, DesktopInv, RestOK, KnownCrashes, Main, reader, world, user
  <2> QED
    BY <1>7, <2>1, AsideSound DEF vars, world, user
<1> QED
  BY <1>1, <1>2, <1>3, <1>4, <1>5, <1>6, <1>7 DEF Next, Thread

LEMMA DesktopSound == Spec => []DesktopInv
  BY InitSound, StepSound, PTL DEF Spec

\* The variables have their types, for all programs and depths.
THEOREM DesktopTyped == Spec => []DesktopTypeOK
<1>1. DesktopInv => DesktopTypeOK
  BY DEF DesktopInv, StackOK, RestOK, DesktopTypeOK, Frames
<1> QED
  BY <1>1, DesktopSound, PTL

\* While the reader answers, the modal windows are those that the running call
\* waits for.
THEOREM WindowsAnswered == Spec => []WindowsAreAnswered
<1>1. DesktopInv => WindowsAreAnswered
  BY DEF DesktopInv
<1> QED
  BY <1>1, DesktopSound, PTL

\* A reader counts as connected with a handle only, unless a program ran inside
\* of one of its calls.
THEOREM HandleIsHeld == Spec => []ConnectedHasHandle
<1>1. DesktopInv => ConnectedHasHandle
  BY DEF DesktopInv, Handle, ConnectedHasHandle
<1> QED
  BY <1>1, DesktopSound, PTL

\* The program uses what is not there for the three known reasons only.
THEOREM CrashesAreKnown == Spec => []KnownCrashes
<1>1. DesktopInv => KnownCrashes
  BY DEF DesktopInv
<1> QED
  BY <1>1, DesktopSound, PTL
===============================================================================

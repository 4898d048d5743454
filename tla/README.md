# Cardpeek in TLA+

Cardpeek reads smart cards: a Lua script sends commands to a card, decodes the
responses and shows them as a tree. This directory models what decides whether
that works: the log of exchanges and its replay, the reader layer that user
interface events re-enter, the recursive `card.send()`, the main loop with its
dialogs, the installation and the update of the scripts, the card tree with its
view and its XML text, and the byte strings and ASN.1 coding that scripts
compute with.

Everything is translated from the source under `src/`; `PROJECT.json` ("map")
names the lines each definition stands for.

## 1. Inventory

The program has one thread. What makes it concurrent is that `log_printf()`, the
reader callback and the tree operations call `ui_update()`, which handles the
GTK events that are pending: a button or a line typed in the scratchpad then
starts a new operation while the present one is still on the stack.

| Component | State | Operations | What must hold | Module |
|---|---|---|---|---|
| Exchange log (`replay.c`) | linked records, cursors `pos` and `atr` | add exchange / reset, cold and warm reset, command look-up, last ATR | the look-ups end, stay in the session, and give the recorded answers in order | `RecordList`, `ReplayLog`, `ReplayCard` |
| Replay driver (`drivers/replay_driver.c`) | `connected`, the ATR | connect, disconnect, reset, transmit, last_atr | a script run again gets what the card gave | `ReplayCard`, `ReplayScript`, `ReplayPromise` |
| Reader layer (`smartcard.c`) | `reader->sw`, `cardlog`, callback | connect, disconnect, warm reset, transmit, last ATR, clear, save | the log is what the card saw, in order, each exchange once, and is what is shown; a call returns no older status than its own | `CardReader` |
| Main loop and dialogs (`main.c`, `lua_ext.c`, `ui/gtk/`) | C stack, modal windows, main window | start, run a script or a command, ask, quit, close | dialogs are answered, nothing missing is used, quitting quits | `Desktop` |
| PC/SC driver, null driver (`drivers/`) | `connected`, `hcard` | connect with its wait loop, disconnect, reset, info | connected means a handle, the wait ends | `Desktop` |
| `card.send()` (`lua_card.c`) | C stack, result buffers | send, re-issue after 6Cxx, GET RESPONSE after 61xx | the whole response, in order; a final status; the recursion ends | `CardSend` |
| Command parser (`iso7816.c`) | none | `iso7816_describe_apdu` | agrees with how commands are built | `Apdu` |
| Script update (`cardpeek_update.c`, `http_download.c`) | scripts, `.download` files, schedule | check, ask, manifest, download, verify, install | only signed content is installed, nothing missing stays missing, the schedule is honest | `ScriptUpdate` |
| Installation (`main.c`, `Makefile.am`) | `.cardpeek` and its files, the archive | ask, unpack, tidy up | what passes for up to date is complete | `Install` |
| Configuration (`lua_ext.c`) | the `cardpeek` table and `config.lua` | load, save | a crash loses no more than the save it cut off, an installation nothing | `ScriptUpdate`, `Install` |
| Card tree (`dyntree_model.c`) and Lua nodes (`lua_nodes.c`) | nodes with four links and cached positions; loops of a script | append, remove, children, find, signals to the view | the view mirrors the tree, no link dangles, a loop misses nothing and repeats nothing | `CardTree`, `OrderedTree` |
| Tree as a document (the same files, `lua_ui.c`) | columns, attribute arrays, XML text and file | set, get, list and search attributes, save, load, to_xml, append_xml | no index leaves an array, what is set is read, what is saved is loaded | `TreeDocument` |
| Byte strings (`bytestring.c`, `lua_bytes.c`) | length, buffer | create, concatenate, set, pad, cut, reverse, convert, get, compare, format | the elements promised, whatever the buffer held | `Bytestring`, `BytePromise`, `LuaBytes` |
| ASN.1 (`asn1.c`, `lua_asn1.c`) | one switch | split, join, split_tag, split_length | split undoes join, splitting in a loop ends | `Asn1`, `LuaBytes` |
| Console interface, crypto, system, card scripts | | | | not modelled (section 8) |

How they interact: a script calls `card.send()` -> `cardreader_transmit()` ->
driver; the reader layer records the exchange in the log and calls back the user
interface, which appends to the reader tab and handles events. A saved log
becomes a reader of its own through the replay driver. Scripts append to the card
tree, whose signals the view follows; the attributes hold byte strings in their
text form. The start shows the window, starts the interpreter with the
configuration, installs the bundled scripts, chooses a reader, updates the
scripts and enters the main loop; the end saves the configuration.

Hard behaviours, each listed with its line under "hazards" in `PROJECT.json`:
calls nested in calls (`smartcard.c`, `lua_card.c`, `pcsc_driver.c`), modal
windows whose owner may fail, loops over lists that wrap (`replay.c`), recursion
whose depth a card decides (`lua_card.c`), crashes between the removal of a file
and the renaming of its successor, within a save or in the middle of an archive,
removal of tree nodes one signal at a time, loops whose body changes the tree
they walk, arrays that grow at different times, and buffers longer than the
strings in them.

## 2. Modules

    RecordList          the list of replay.c as a sequence with positions
      ReplayLog           records, sessions, where look-ups go
        ReplayCard          the emulated card, loops one iteration at a time
          ReplayScript        a script replayed on its own log
      CardReader          the reader layer with nested calls
    ReplayPromise       what the emulation promises (abstract)
    Apdu                commands: how they are built, parsed and corrected
      CardSend            card.send() against a card that answers in pieces
    Desktop             start, main loop, scripts, dialogs, PC/SC driver
    Install             unpacking of the bundled scripts
    ScriptUpdate        schedule, update, crashes
    CardTree            the tree, its view, loops of a script
    OrderedTree         what the tree promises (abstract)
    TreeDocument        columns, attributes, XML
    Bytestring, Asn1    the operations of bytestring.c and asn1.c
      LuaBytes            a script that calls them
    BytePromise         what they promise (abstract)
    MC*                 instances for TLC
    *Proofs             theorems and their proofs

Operators and actions whose comment starts with "Mistake:" are plausible bugs,
used only to show that each property can fail.

**RecordList, ReplayLog, ReplayCard.** A position in a sequence stands for a
pointer into the list, `NULL` (0) for none. `Connect`, `Disconnect`, `LastAtr`,
`CommandBegins` and `ResetBegins` are the driver calls; `CommandFound`,
`CommandTriesNext`, `CommandUnknown`, `ResetFound` and `ResetTriesNext` are the
iterations of the loops in `cardreplay_run_command()` and
`cardreplay_run_warm_reset()`. The log is fixed (it was loaded from a file). A
reset before the first connection reads its cursor, warns, and so handles events,
before it searches: `ResetWarns` puts the cursor on `warned`, any calls may follow,
further such resets too (`MaxWarned` bounds how many are out), and `ResetResumes`
searches from there.

**ReplayPromise** is the abstract card: a book of answers opened at a session; a
command gets the next answer recorded for it, going round. A reset opens the
session that follows. One before the first connection takes two steps, with any
calls between them (`early`): it starts behind the whole log, and so opens the
session that these calls left again, or the first one, unless a reset is the last
record. `ReplayCard` implements it with the book being the session of `atr`, turned
to start at `pos`.

**ReplayScript** makes the recorded calls in their order on that card. Before and
after the script others make any calls (`Others`), and it may run inside of a reset
that warns.

**CardReader.** A call is modelled in the pieces between two points where events
are handled; `stack` holds the calls that are out. An exchange is its number in
the order in which the card saw it. `Adds` is `cardreplay_add_*` with what the
callback appends to the tab. The failed and the answered transmission differ:
the driver logs a failure, and so yields before it is recorded.

**Apdu, CardSend.** `Class`, `Lc`, `Le` are `iso7816_describe_apdu()`; `Built` is
the reference, ISO 7816-3. A frame of `CardSend` is one call of
`luax_card_send()`; the card (external) holds a response of `total` bytes and
may answer with data, 61xx, 6Cxx or an error at any time, and another send may
run at every yield. That one leaves its own status in `reader->sw`
(`OthersLeave`): a final one, or 6Cxx when it was an extended command with data,
whose re-issue is no command and is not sent.

**Desktop.** `stack` holds the activations: `cardpeek_main()` first, then the
programs that clicks start and the calls that these make. `at` is the place where
an activation will go on; it changes at each point where events are handled.
`windows` are the modal ones, TRUE when the user has pressed a button of it.
`connected` is the flag of the reader and `held` whether `hcard` is a handle the
card service knows: `ConnectsCard`, `Announces`, `Disconnects`, `Resets`,
`ResetDone` and `Informs` are the pieces of the PC/SC driver that change them.
`UsesClosed` lets what still runs after the main window is destroyed use a
widget that is gone.

**Install.** One action per step of `install_dot_file()`; tar is `Extracts`, once
per file, in the order that the rule in `Makefile.am` gives the archive.
`Upgrades` exchanges the program for a newer release while it is off. A file that
tar cannot write is left as it was, cut short or missing (`MemberFails`); tar goes
on with the next one, and fails at its end (`ExtractFails`). `missed` remembers
those files, for the properties. `TarStops` and `Crashes` end the extraction where
it is, `CutsShort` being what they leave of the file under extraction. `SaveFails`
is a `config.lua` that cannot be opened at the end of the program.

**ScriptUpdate.** `phase` is where the program is; `disk`, `temp` and `file`
survive a crash. A save has two steps, since `fopen("w")` empties the file.
Every download, rename and save may fail and the program may be stopped
anywhere, at most `MaxFaults` times.

**CardTree.** `parent`, `prev`, `next`, `children`, `sibling_index` and
`n_children` are the fields of a node. A removal is a sequence of `RemovesLeaf`
steps, because the view is signalled after each node. `rows` is what a view
knows that only hears paths. `loop` is the iterator of `nodes.children()` or
`nodes.find()`: the node it holds was looked up before the body of the loop
runs. `OrderedTree` is the promise: removal takes the whole subtree at once.

**TreeDocument.** Nodes in document order with their depth; `values` is the array
of a node, `columns` and `room` those of the model. `Xml` writes the events that
a parser makes of the text, `Parsed` folds the callbacks of the parser over them.
Every attribute has a text event, an empty one if its text is empty.
A save may write any beginning of the text. `saved` and `source` remember what a
text was made from. The version of the parser's context starts with 0 or 1,
because nothing sets it.

**Bytestring, Asn1, BytePromise, LuaBytes.** A byte string is its width, its
length and a buffer; what was never written is the model value `Stale`, which is
no number, so that TLC stops if a result depends on it. `BytePromise` states the
results in terms of the elements alone. `LuaBytes` lets a script call one
function after the other on its variables, in place where the code works in
place, so that buffers have a history.

## 3. Runs

| Run | Instance | Shows |
|---|---|---|
| `replay` | every log of at most 5 records over 2 queries and 2 answers (first exchange named, the others free), 2 resets within their warning, a script among other calls | `SessionInv`: cursors never leave the session; `CallsReturn`: the search loops end; `ImplementsPromise`: the emulation is the circular book; `FaithfulReplay`: each call of the script gets what was recorded for it |
| `card_reader` | 3 driver calls, 3 nested calls, 1 save | `AnsweredInOrder`, `RecordedOnce`, `SavedIsShown`, `StatusNeverOlder` |
| `card_send` | one command of each class (8), responses of 0, 2, 256 and 258 bytes, 2 interruptions | `StatusIsFinal`, `ResultIsPrefix`, `SuccessIsComplete`, `SendReturns` |
| `script_update` | 3 scripts (one too new), each missing or not at first, 2 releases, 2 faults | `OnlyAuthentic`, `MissingIsDue`, `AsksWhenAnnounced`, `PostponedWhenCurrent`, `UpdatesArrive` |
| `install` | 2 scripts, 3 releases, 2 settings, 2 faults, any earlier state | `UpToDateIsInstalled`: what passes for up to date is complete, but for files that tar missed; `SettingKept`; `InstallArrives`: in the end it is installed, refused, or hidden by a version that tar wrote after it missed a file (see `install_missed`) |
| `desktop` | 5 programs, 3 clicks, 5 activations besides the first | `WindowsAreAnswered`, `ConnectedHasHandle`, `KnownCrashes`, `WaitEnds`, `QuitEnds` |
| `card_tree` | 4 nodes | `TreeTypeOK` (nothing dangles), `ViewMirrors`, `IndexesRight`, `LoopMissesNone`, `LoopVisitsOnce`, `KeepsPromise` |
| `document` | 4 calls, 4 attributes (room for one at first), 3 values, 2 files of other versions | `DocumentTypeOK` (no index leaves an array), `LoadRestores`, `ImportOnlyAdds`, `ScriptsReadBack` |
| `lua_bytes` | 3 calls, 2 variables, 5 texts, 2 elements, 4 block lengths, 4 tags | `CallsKeepPromises`, `NumbersAreKept`, `TextsAreExact`, `JoinInvertsSplit`, `SplitAdvances` |

Three runs end with a counterexample, where the code does something else than the
repository says of it ("findings" in `PROJECT.json`):

| Run | Finding |
|---|---|
| `replay_reset_hang` | resetting an emulated card whose file has exchanges but no reset record loops for ever (`replay.c:202`) |
| `send_reissue` | 6Cxx to a command without expected length overwrites P2 or data (`lua_card.c:138`) |
| `install_missed` | after tar missed one file the version is there all the same, and the next start says "Scripts are up to date." (`main.c:104`) |

Why the bounds are enough.

- Five records hold two sessions with a repeated query, an empty session, and a
  search that wraps in either; the loops compare positions, of which a longer log
  only has more. Two resets within their warning can each find what the other one,
  or a connection, has moved.
- With three nested calls one is interrupted by a call that is itself
  interrupted; in `desktop` a third click falls into the call that a second one
  made during the first, or before there is a reader.
- The lengths of `card_send` lie below, at and above 256, where the length byte
  wraps.
- Two faults allow a crash during the recovery from a failure; two releases a
  script newer than its manifest, three an upgrade over a refused release.
- Four nodes give each list a first, middle and last node, and a subtree with a
  sibling after it; a search that climbs two levels at once to a sibling would
  take five and was left out for time. `MCCardTree` uses symmetry: nodes are
  interchangeable memory and it checks safety only.
- In `document` two nodes, one column of room at first and four attributes make
  both arrays grow, at different times for different nodes; the calls allow two
  appends, a save or an export, and a load or an import in that order. The texts
  look like a byte string or are empty.
- In `lua_bytes` strings have at most 2 elements unless they are padded, to 128
  and 129, where the length of ASN.1 changes its form; the third call works on
  buffers with a history of two. Numbers are compared up to 24 bits, since TLC
  counts with 32. One text has a length of 2^32 - 6, with which the position behind
  the value wraps to the start of the string.

## 4. Fairness

- `ReplayCard`: weak fairness of `SearchStep`. A loop is not preempted: nothing
  in it yields. The callers owe nothing.
- `CardSend`: weak fairness of `Step`. A call in progress goes on, a driver call
  returns, an interrupting send ends. That a send ends also rests on the card:
  it answers a corrected length without a further 6Cxx, and its response is
  finite. `MaxInterrupts` bounds the events, not the recursion.
- `Desktop`: weak fairness of `Thread`. The program does not stop by itself: the
  card service answers `SCardGetStatusChange` within its 100 ms, and scripts are
  finite. Nothing is assumed of the user, the card or the reader: `WaitEnds`
  speaks of a user who has pressed Cancel or of a card that stays.
- `ScriptUpdate`: weak fairness of `Program`, which waits for nobody. The rest is
  assumed of the user: the program is started and quit again and again, often
  enough to check (`StartsToCheck`: not always with a command to execute), days
  pass, and whoever is asked again and again accepts once (strong fairness).
- `Install`: weak fairness of the steps of an installation, and of the user that
  he starts and ends the program again and again; strong fairness of accepting.
- `CardReader`, `CardTree`, `TreeDocument` and `LuaBytes` are checked for safety
  only: their calls are sequential, or run within calls of the above.

## 5. What is proved

TLAPS proves the following for every value of the constants ("theorems" in
`PROJECT.json`).

**LogProofs**, of the replay: `TypeCorrect`, `StaysInSession`, `AnswersFromSession`,
`LookupTerminates` (the variant `IterationsLeft` falls with each iteration),
`UnknownIsAbsent` (an error only after the whole session was tried) and
`ReplayKeepsPromise` (every call is a step of `ReplayPromise`, and a reset before
the first connection two), for any set of logs. The invariant is
`TypeOK /\ SessionInv` and, for the look-up, that every record between where it
began and `cur` has been tried, going round
(`TriedInv`): so the record a command is answered from is the first one of the
turned session, and a refusal means there is none. A search for a reset has met
no reset between the session it left and `cur`; one that resumes after its warning
starts from the last record, whatever was opened meanwhile, and then goes round
from the session that the card is in (`CallInv`). `ReplayIsFaithful` and `ReplayFindsAtOnce`, for logs of any length: while a call runs the cursor
stands at the record after `done`, so the first iteration of either loop finds
it.

Of the recording: `ReaderTypeCorrect`, `LogKeepsCardOrder`,
`EachCallRecordedOnce`, `SavesWhatIsShown`, `NoStaleStatus`, for any depth of
nesting. None is inductive alone. `CallsInv` adds that the recorder stands at the
end of the log (`RecorderAtEnd`), that calls further in on the stack have later
numbers (`StackInOrder`), that no number is ahead of the card (`NoneAhead`), and
that `sw` is no older than any transmission still to return (`StatusCovers`).

**CardSendProofs**, of commands: `ParserReadsBuilt`: what ISO 7816-3 builds is
parsed back to its class, length and data, for every class and length.
`CorrectionSetsLe`: the re-issue changes nothing but the expected length for
classes 2S, 4S and 2E. `CorrectionBreaksExtended`: a corrected 4E command (data
and extended length) is never well formed, so such a command answered 6Cxx ends
with an error; `ReissueOnlyCorrectsLength` says nothing of it.

Of `card.send()`: `SendTypeCorrect` and `ReturnsFinalStatus`: whatever the card
does and whoever interrupts, a script is never handed 61xx or 6Cxx. `SendInv`
adds that frames below the top wait for a call (`OthersWait`), that a status from
which a call returns is final, and what the card holds open. `ReturnsPrefix`
and `SuccessReturnsAll`: what is returned is the beginning of the response, in
its order, and all of it when the status is 9000. `PrefixInv` lists how many
bytes had been delivered when each call on the stack began: the data of a call
follow on from there (`Fitted`), an inner call begins where those of the one
around it end, and the innermost ends at what the card has given. A command that is
sent again hands its buffer to the inner call, which begins where the outer one did
(`Live`). Normally the buffer is empty then; when another send left its 6Cxx, it may
hold pieces that the repetition replaces, so that less is returned than was given,
but nothing follows them, because the card has dropped the rest.

**CardTreeProofs**: `TreeInvariant`, `TreeTyped`, `ViewFollows`,
`IndexesStayRight`, `LoopsMissNone`, `LoopsVisitOnce` and `TreeKeepsPromise`, for
any finite set of nodes. The four links say nothing of lists by themselves, and
a recursion along them need not end; `TreeInv` ties them to what the view shows.
The rows below a node are a list without repetition, which `children`, `next`
and `prev` thread; `above[n]`, the ways up to a root, bounds every recursion,
and `sibling_index` and `n_children` agree with the list. Removing a leaf and
linking a node in then change one list each. Of a loop the invariant says, in
document order (`Before`), that what was seen lies behind the node it holds and
what is due lies ahead of it. The refinement maps a removal under way to the tree
without what is still to be removed (`Remaining`): its first step takes the
whole subtree out of `OrderedTree`, and the further ones stutter. The recursive
functions are shown to exist by induction over sets of naturals
(`NatSetInduction`), which needs no operator as a parameter.

**ScriptUpdateProofs**: `UpdateTypeCorrect`, `InstallsOnlyAuthentic`,
`MissingStaysDue`, `AsksOnlyWhenAnnounced` and `PostponesOnlyCurrent`, for any
finite set of scripts and any number of releases and faults. `UpdateInv` adds a
count, that installed and pending items never exceed the items of the manifest
and equal them only if none was skipped (`CountsItems`, `SkipsNone`); that the
schedule is due from the question to the last item (`WaitsForNobody`), so a crash
in between leaves the update due (`MissingSoon`); that the file never waits longer
than the table in memory (`FileNotLater`); and that, unless a save was lost, a
saved schedule is the one in memory and no more eager than the one announced
(`KeepsWord`).

**InstallProofs**: `InstallTyped`, `UpToDateScripts` and `SettingSurvives`, for
any number of releases, settings and faults. `InstallInv` adds that the version
stays older than the program until the last file of the archive is there
(`OldUntilDone`) and that the files extracted before it are new or missed
(`ExtractedAreNew`); it needs the version to be the last file.

**DesktopProofs**: `DesktopTyped`, `WindowsAnswered`, `HandleIsHeld` and
`CrashesAreKnown`, for all programs, any number of clicks and any nesting.
`DesktopInv` says of the interrupted calls that they wait for no window
(`Interrupted`), of a waiting one that it has a window, also when others were
left open (`WaitsHaveWindow`), and of the running one what it knows of the handle
(`Handle`).

**LuaBytesProofs**: `BytesTyped`, `CallsKeep`, `TextsReadBack`, `NumbersKept`,
`NumbersOfAnySize`, `SplitInvertsJoin`, `SplitsAdvance` and `JoinSplit`, for strings of any length, any texts and
elements that a script gives, and any number of calls. `BytesTypeOK` is inductive:
a buffer may hold anything behind the end of its string, but no call takes an
element from there. The argument is one relation, `Holds(b, w, s)`: `b` stands for
the elements `s` of width `w`. A lemma for each operation of `Bytestring` says
what its result holds when its operand holds `s`, wherever the buffer ends, and
the promises follow by comparing sequences. For the texts, digits are shown to
be read one by one as they were written (`DigitsOf`, from the last position
down). For ASN.1, `JoinSplit` goes by way of what each form of a tag and of a
length is decoded to, and holds for every tag that is read as one, every tail and
every value that is not 128 bytes long and shorter than 2^31. The recursive
functions are shown to exist by induction over sets of naturals.

`NumbersOfAnySize` says of numbers what TLC checks up to 24 bits as
`NumbersAreKept`, for strings of any length: conversions to a width that their bits
can be divided in, the number a script gets and the decimal form keep it. Only what `bytes.tonumber()` returns
is bounded, by the 53 bits that a floating-point number holds exactly. A number is
a sum over its elements (`SumsUp`). Dividing it by a power of the base gives an
element back (`ElementsBack`), so a sequence is determined by its number and its
length. Cutting an element into 2, 4 or 8 parts (`CutNumber`) and putting as many
together, the first group perhaps incomplete (`GroupNumber`), leave the sum alone:
hence `ConvertKeeps`. The decimal digits are kept last first: `Worth(d)[k]` is what
they stand for without the first k. An addition changes only `Worth(d)[i]`, carries
end within three places behind the last digit (`CarriesEnd`), and a digit added is
not 0 (`AddFromIs`); so the loop of `MulAdd` has multiplied, from the last digit on,
what is behind its place and nothing else (`MulDone`, `MulStep`). The digits have no
leading zeros (`NoZeros`), which makes their number as long as they are
(`DigitsSpell`), and no number has two lengths (`OneLength`).

**TreeDocumentProofs**: `DocumentTyped`, `AttributesReadBack`, `LoadsRestore` and
`ImportsOnlyAdd`, for any names, texts and files and any number of calls. `DocumentTypeOK` is inductive: the depths of a
list of nodes are those of a tree in document order, and each array of values is
as long as a new one or as the room there was when it grew, with nothing behind
the columns. Lemmas say what `AppendNode`, `SetValue`, `Register` and the removal
keep of it (`AppendNodeTree`, `SetValueTree`, `RegisterTree`, `RemovedTree`). For
a file the invariant is of the parser: each callback takes a member of `Contexts`
(its node is a node of the tree, and its column one of the columns, in the states
that use them) to another (`StepIs`), whatever the event is; so no file leads an
index out of an array. `AttributesReadBack` rests on names being in one column at
most, and on formatted values being told apart by what is read of them
(`PushedIs`).

`LoadsRestore` and `ImportsOnlyAdd` say what the fold over the parser's callbacks
makes of the events that the nodes were written as. The invariant is `TextsFit`:
the file is a prefix of the XML of what was saved, the text is the XML of what was
exported, and both were taken from a tree (`IsPart`). Sets of contexts stand for
how far the parser is: in `Leaving` the first k nodes are copied and nodes are open
down to some depth, in `Inside` only m attributes of the last node are there;
`Copied` compares what is read under each name, as columns may differ. `Takes` says
that the parser goes through some events from one set to another and keeps to a
third on the way, which is what a cut file needs. It is proved for each kind of
event, put together with `TakesJoin`, and extended to the whole text by induction
over the nodes (`TakesAll`, `XmlRead`). A name that breaks its quotes leads to
`Failed`, where no more than the beginning of a copy is promised.

Assumptions: those named in the modules (`LogsAssumption`,
`CommandsAssumption`, `ProgramsAssumption`, `FilesAssumption`, ...), each as weak
as the proof allows; TLC evaluates them on every run. Type invariants that are
proved are not run again, except where TLC checks one that is not proved.

## 6. Only model-checked

- Liveness (`CallsReturn`, `SendReturns`, `UpdatesArrive`, `InstallArrives`,
  `WaitEnds`, `QuitEnds`): with fairness it is out of the prover's reach.

Every invariant, action property and refinement of a run that passes is stated by a
theorem as well.

## 7. Assumptions about the surroundings

- A card keeps to the lengths it announces, and drops a pending response when it
  gets another command.
- An update takes less than a day, so the days left do not change within one.
- A digest stands for the content it is of, and a signed manifest for a release.
- The bundle is made where tar can sort by name, as its rule asks for if it can;
  else the version may be any of the files, and `UpToDateIsInstalled` fails.
- tar extracts the files in the order of the archive, goes on after one that it
  cannot write, and reports it at its end.
- A view does with a path what `GtkTreeModel` documents for `row_inserted` and
  `row_deleted`; GLib's parser calls the text callback for an empty text too.
- A failed `SCardConnect` leaves `hcard` as it is.
- Nobody else uses the emulated card between two calls of the script of
  `ReplayScript`: it would move the cursor that the next call starts from.
- A script does not remove the node that its own loop holds next (`NotHeld`);
  the code has no protection against that, nor against the clear button.
- `fclose` of the configuration puts all of it on disk; memory is not exhausted.
- Tables that scripts give hold at most one attribute: the order in which Lua
  enumerates more of them is not defined.

## 8. Not modelled

- The file format of logs (`cardreplay_load/save`), reader enumeration and the
  command interval: no state that calls share.
- The USB serial driver: unfinished. Crypto: calls of a library on one buffer.
  The bit, iconv, log and crypto libraries of Lua: argument checks.
- Widgets, rendering and layout of the interfaces, the text export of the tree,
  the table of paths, option parsing and signal handlers; that the interface
  handles events is modelled where it matters. The console interface is
  sequential.
- The signature and the tokenizer of the manifest: it is accepted or not.
- References to nodes that were removed: what they read is undefined.
- The card scripts in Lua: programs run by Cardpeek, callers of what is modelled.

## 9. Observed while modelling

What the models do because the code does it, and what a reader of the manual or of
the names in the code may not expect. No property claims the contrary.

- Replay: a second connection starts at the first record again, and queries of
  another session are answered with an error. A log that was cleared in
  mid-session, and saved, has no reset and cannot be connected to.
- `cardreader_transmit()` interrupted by another returns the status of that one
  with its own response (`smartcard.c:245`).
- A second connection overwrites the handle of the first (`pcsc_driver.c:184`).
- A reader that fails while a card is waited for leaves its modal dialog open,
  and the main window is out of reach (`pcsc_driver.c:173`). A click before the
  interpreter or the reader is set up, and `card.info()` with no reader, call
  what is not there. The main window closed during the start leaves a program
  without window.
- An installation replaces the user's `cardpeekrc.lua`, and `config.lua` until
  the program ends; if it cannot be opened then, the settings are lost. A rename of
  the old replay directory that fails is not tried
  again.
- `nodes.find()` without a node looks at the first top-level node only
  (`dyntree_model.c:1638`). `nodes.to_xml(node)` writes the siblings after the
  node too, of which the manual (6.7.12) says nothing.
- XML keeps neither byte strings of width 1 (their digits come back as text), nor
  attributes whose name begins with a minus; names are not escaped; a short write counts as success; the version of the context is not
  initialised (`dyntree_model.c:1484`).
- `asn1.join()` writes the length 128 as the byte 80h, which is not read as 128.
- `bytes.get(b,i,j)` reads `i` again for `j` (`lua_bytes.c:270`) and so gives one
  element, where the manual (6.2.6) says those from i to j: the properties speak of
  the first only. `bytes.get(b,i)` gives 0 for an index behind the end.
- A conversion that groups elements fills up on the left (`bytestring.c:242-341`),
  where the manual (6.2.4) says on the right: the properties speak of conversions
  in which nothing is left over.
- A re-issue after 6Cxx writes the length to the last byte of any command.

## 10. Plan

1. `ReplayFile`: the log format, and that loading a saved log gives the log back;
   with it `CardReader` and `ReplayCard` compose into record, save, load, replay.
2. References: Lua references to nodes as state of `CardTree`, with the clear
   button between any two steps of a script, as far as the code defines it.
3. `FilePath` against the table in `iso7816.h`.

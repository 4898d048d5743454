----------------------------- MODULE ScriptUpdate -----------------------------
(***************************************************************************)
(* The periodic update of the scripts: cardpeek_update_check() and         *)
(* cardpeek_update_perform(), run once when the program starts, with the   *)
(* files they change and the configuration file that schedules them.       *)
(*                                                                         *)
(* The content of a script is the number of the release it is from, 0 for  *)
(* what was first installed; a digest stands for the content it is of.     *)
(* The schedule counts the days left until cardpeek.updates.next_update.   *)
(***************************************************************************)
EXTENDS Integers, FiniteSets

CONSTANTS
  Files,        \* the scripts that a manifest lists
  TooNew,       \* those that require a newer version of Cardpeek
  MaxRelease,   \* how many releases are published
  MaxFaults,    \* how many crashes and failures may happen
  Absent, Junk, \* no file; content of no release
  Nobody        \* no script

ASSUME ReleaseAssumption ==
  /\ IsFiniteSet(Files) /\ TooNew \subseteq Files
  /\ MaxRelease \in Nat \ {0} /\ MaxFaults \in Nat

ASSUME ValuesAssumption ==
  Absent \notin Int /\ Junk \notin Int /\ Absent # Junk /\ Nobody \notin Files

VARIABLES
  phase,     \* where the program is
  release,   \* the release that the server has
  disk,      \* the scripts
  temp,      \* their .download files
  leftover,  \* the manifest is still on disk
  conf,      \* the cardpeek.updates table in memory
  file,      \* and in config.lua
  after,     \* where to go when the configuration is saved
  manifest,  \* the release that the manifest lists
  todo,      \* the items not yet handled
  count,     \* item_count
  updated,   \* how many of them were installed
  item,      \* the one in hand
  kept,      \* the schedule when the program last came past the update
  lost,      \* a crash or a full disk kept a configuration from being saved
  faults

fetching == <<manifest, todo, count, updated, item>>
schedule == <<conf, file, after, kept, lost>>
scripts == <<disk, temp, leftover>>
vars == <<phase, release, scripts, schedule, fetching, faults>>

\* The table: next_update in days, auto_update; no table at all.
Table(wait, auto) == [wait |-> wait, auto |-> auto, defined |-> TRUE]
NoTable == [wait |-> 0, auto |-> TRUE, defined |-> FALSE]

Day == 1
Week == 7

Init ==
  /\ phase = "off" /\ release = 1
  /\ disk \in [Files -> {0, Absent}]
  /\ temp = [f \in Files |-> Absent] /\ leftover = FALSE
  /\ conf = NoTable /\ file = NoTable /\ after = "off"
  /\ manifest = 0 /\ todo = {} /\ count = 0 /\ updated = 0 /\ item = Nobody
  /\ kept = NoTable /\ lost = FALSE /\ faults = 0

Fault == faults < MaxFaults /\ faults' = faults + 1

\* The scripts an update is about, and those that a manifest would change.
Supported == Files \ TooNew

\* Mistake: a file that cannot be read needs no update.
OutdatedIfPresent(r) == {f \in Supported : disk[f] \notin {r, Absent}}

Outdated(r) == {f \in Supported : disk[f] # r}

-------------------------------------------------------------------------------
(***************************************************************************)
(* luax_config_table_save() empties config.lua when it opens it, and       *)
(* leaves it alone if it cannot.  SavesAs(c, p) has c in memory and comes  *)
(* to p in the end.                                                        *)
(***************************************************************************)
SavesAs(c, p) ==
  /\ conf' = c
  /\ \/ file' = NoTable /\ phase' = "saving" /\ after' = p /\ UNCHANGED <<lost, faults>>
     \/ Fault /\ phase' = p /\ lost' = TRUE /\ UNCHANGED <<file, after>>

SaveEnds ==
  /\ phase = "saving"
  /\ file' = conf /\ phase' = after
  /\ UNCHANGED <<release, scripts, conf, after, kept, lost, fetching, faults>>

-------------------------------------------------------------------------------
(***************************************************************************)
(* The program starts, reads its configuration and, unless it was given a  *)
(* command to execute, checks for updates.                                 *)
(***************************************************************************)
Start ==
  /\ phase = "off"
  /\ phase' \in {"check", "run"}
  /\ conf' = file
  /\ UNCHANGED <<release, scripts, file, after, kept, lost, fetching, faults>>

Defaults == Table(0, TRUE)

ChecksDefaults ==
  /\ phase = "check"
  /\ IF conf.defined
     THEN phase' = "due" /\ UNCHANGED <<conf, file, after, lost, faults>>
     ELSE SavesAs(Defaults, "due")
  /\ UNCHANGED <<release, scripts, kept, fetching>>

\* Mistake: the schedule is not looked at.
DueWhenAuto == conf.auto

Due == conf.auto /\ conf.wait = 0

ChecksDue ==
  /\ phase = "due"
  /\ phase' = IF Due THEN "ask" ELSE "past"
  /\ UNCHANGED <<release, scripts, schedule, fetching, faults>>

Accepts ==
  /\ phase = "ask" /\ phase' = "fetch"
  /\ UNCHANGED <<release, scripts, schedule, fetching, faults>>

\* "No, ask me again later" and "No, always use the local copy"; or the dialog
\* is closed.
Declines ==
  /\ phase = "ask"
  /\ \/ SavesAs([conf EXCEPT !.wait = Day], "past")
     \/ SavesAs([conf EXCEPT !.auto = FALSE], "past")
     \/ phase' = "past" /\ UNCHANGED <<conf, file, after, lost, faults>>
  /\ UNCHANGED <<release, scripts, kept, fetching>>

\* update_cardpeek() returned: what the user was told about the schedule.
Continues ==
  /\ phase = "past" /\ phase' = "run"
  /\ kept' = conf
  /\ UNCHANGED <<release, scripts, conf, file, after, lost, fetching, faults>>

\* The program saves its configuration once more when it ends.
Quits ==
  /\ phase = "run"
  /\ SavesAs(conf, "off")
  /\ UNCHANGED <<release, scripts, kept, fetching>>
-------------------------------------------------------------------------------
(***************************************************************************)
(* cardpeek_update_perform(): the manifest is downloaded, its signature    *)
(* verified, and it is narrowed down to the files that differ.             *)
(***************************************************************************)
FetchesManifest ==
  /\ phase = "fetch"
  /\ manifest' = release /\ phase' = "items" /\ leftover' = TRUE
  /\ todo' = Outdated(release) /\ count' = Cardinality(Outdated(release))
  /\ updated' = 0 /\ item' = Nobody
  /\ UNCHANGED <<release, disk, temp, schedule, faults>>

\* Not downloaded, not readable, not well formed or not signed.
ManifestFails ==
  /\ phase = "fetch" /\ Fault
  /\ phase' = "past" /\ leftover' = FALSE
  /\ UNCHANGED <<release, disk, temp, schedule, fetching>>

\* http_download() of a script: what the server has now, which may be later than
\* the manifest, or something else altogether.
Downloads(f) ==
  /\ phase = "items" /\ f \in todo
  /\ item' = f /\ phase' = "verify"
  /\ \/ temp' = [temp EXCEPT ![f] = release] /\ UNCHANGED faults
     \/ temp' = [temp EXCEPT ![f] = Junk] /\ Fault
  /\ UNCHANGED <<release, disk, leftover, schedule, manifest, todo, count, updated>>

\* A download that fails is removed.
DownloadFails(f) ==
  /\ phase = "items" /\ f \in todo /\ Fault
  /\ todo' = todo \ {f} /\ temp' = [temp EXCEPT ![f] = Absent]
  /\ UNCHANGED <<phase, release, disk, leftover, schedule, manifest, count, updated, item>>

\* Mistake: any file that was downloaded is installed.
AnyFile(f) == temp[f] # Absent

Authentic(f) == temp[f] = manifest

\* An authentic script replaces the old one, which is removed first.
Verifies ==
  /\ phase = "verify"
  /\ IF Authentic(item)
     THEN disk' = [disk EXCEPT ![item] = Absent] /\ phase' = "rename"
     ELSE phase' = "clean" /\ UNCHANGED disk
  /\ UNCHANGED <<release, temp, leftover, schedule, fetching, faults>>

Renames ==
  /\ phase = "rename" /\ phase' = "clean"
  /\ disk' = [disk EXCEPT ![item] = temp[item]]
  /\ temp' = [temp EXCEPT ![item] = Absent]
  /\ updated' = updated + 1
  /\ UNCHANGED <<release, leftover, schedule, manifest, todo, count, item, faults>>

\* Mistake: an attempt counts as an update.
RenameFailsCounted ==
  /\ phase = "rename" /\ phase' = "clean" /\ Fault
  /\ updated' = updated + 1
  /\ UNCHANGED <<release, scripts, schedule, manifest, todo, count, item>>

RenameFails ==
  /\ phase = "rename" /\ phase' = "clean" /\ Fault
  /\ UNCHANGED <<release, scripts, schedule, fetching>>

RemovesDownload ==
  /\ phase = "clean" /\ phase' = "items"
  /\ temp' = [temp EXCEPT ![item] = Absent]
  /\ todo' = todo \ {item} /\ item' = Nobody
  /\ UNCHANGED <<release, disk, leftover, schedule, manifest, count, updated, faults>>

\* Mistake: one success is enough.
SomeInstalled == updated > 0 \/ count = 0

AllInstalled == updated = count

\* After the last item: the next update is in a week if all were installed.
EndsItems ==
  /\ phase = "items" /\ todo = {}
  /\ IF AllInstalled
     THEN SavesAs([conf EXCEPT !.wait = Week], "remove")
     ELSE phase' = "remove" /\ UNCHANGED <<conf, file, after, lost, faults>>
  /\ UNCHANGED <<release, scripts, kept, fetching>>

RemovesManifest ==
  /\ phase = "remove" /\ phase' = "past"
  /\ leftover' = FALSE
  /\ UNCHANGED <<release, disk, temp, schedule, fetching, faults>>

-------------------------------------------------------------------------------
(***************************************************************************)
(* The world: the program may be stopped at any time, days pass and        *)
(* releases are published.  An update takes less than a day.               *)
(***************************************************************************)
Crashes ==
  /\ phase # "off" /\ Fault
  /\ phase' = "off"
  /\ lost' = (lost \/ phase = "saving")
  /\ UNCHANGED <<release, scripts, conf, file, after, kept, fetching>>

OneDayLess(c) == [c EXCEPT !.wait = IF @ > 0 THEN @ - 1 ELSE 0]

DayPasses ==
  /\ phase \in {"off", "run"}
  /\ conf' = OneDayLess(conf) /\ file' = OneDayLess(file) /\ kept' = OneDayLess(kept)
  /\ UNCHANGED <<phase, release, scripts, after, lost, fetching, faults>>

Publishes ==
  /\ release < MaxRelease /\ release' = release + 1
  /\ UNCHANGED <<phase, scripts, schedule, fetching, faults>>

-------------------------------------------------------------------------------
Checking == ChecksDefaults \/ ChecksDue \/ Continues

Performing ==
  \/ FetchesManifest \/ ManifestFails
  \/ \E f \in Files : Downloads(f) \/ DownloadFails(f)
  \/ Verifies \/ Renames \/ RenameFails \/ RemovesDownload
  \/ EndsItems \/ RemovesManifest

Program == Checking \/ Performing \/ SaveEnds

Next ==
  \/ Start \/ Program \/ Accepts \/ Declines \/ Quits
  \/ Crashes \/ DayPasses \/ Publishes

Spec == Init /\ [][Next]_vars

\* The update does not wait for anything: the program goes on.  Of the user it
\* is assumed that the program is started and ended again and again, that days
\* pass meanwhile, and that whoever is asked often enough accepts.
StartsToCheck == Start /\ phase' = "check"

FairSpec ==
  /\ Spec
  /\ WF_vars(Program) /\ WF_vars(Quits) /\ SF_vars(DayPasses)
  /\ WF_vars(Start) /\ SF_vars(StartsToCheck) /\ SF_vars(Accepts)

-------------------------------------------------------------------------------
Phases ==
  {"off", "check", "due", "ask", "past", "run", "saving", "fetch", "items",
   "verify", "rename", "clean", "remove"}

Tables == [wait : 0..Week, auto : BOOLEAN, defined : BOOLEAN]

\* An item is in hand exactly when the code uses one, and no more items are
\* installed than there were.
UpdateTypeOK ==
  /\ phase \in Phases /\ after \in Phases /\ release \in 1..MaxRelease
  /\ disk \in [Files -> Nat \cup {Absent}]
  /\ temp \in [Files -> Nat \cup {Absent, Junk}] /\ leftover \in BOOLEAN
  /\ conf \in Tables /\ file \in Tables /\ kept \in Tables
  /\ manifest \in 0..MaxRelease /\ todo \subseteq Supported
  /\ count \in Nat /\ updated \in 0..count
  /\ item \in Files \cup {Nobody}
  /\ phase \in {"verify", "rename", "clean"} => item \in todo
  /\ lost \in BOOLEAN /\ faults \in 0..MaxFaults

\* Whatever the server delivers and wherever the update was cut off, a script
\* is one that was first installed or one that a signed manifest listed.
OnlyAuthentic == \A f \in Files : disk[f] \in 0..release \cup {Absent}

\* The next update is put off by a week only when every script of the
\* manifest is there with its listed content.
PostponedWhenCurrent ==
  [][conf'.wait > conf.wait /\ conf'.wait = Week =>
       \A f \in Supported : disk'[f] = manifest]_vars

\* A script that an update removed and did not replace (crash or failed rename)
\* is due for update again, or is put off for the day that the user asked for.
MissingIsDue ==
  phase = "off" => \A f \in Supported : disk[f] = Absent => file.wait <= Day

\* The user is not asked on a day he was told he would not be, nor after he
\* chose the local copy, whatever crash happened, unless one cut off a save.
AsksWhenAnnounced == phase = "ask" /\ ~lost => kept.auto /\ kept.wait = 0

Current == \A f \in Supported : disk[f] = release

Declined == LET c == IF phase = "off" THEN file ELSE conf IN c.defined /\ ~c.auto

\* In the end the user has the last release, or has declined updates.
UpdatesArrive == <>[](Current \/ Declined)
===============================================================================

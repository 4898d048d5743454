-------------------------------- MODULE Install --------------------------------
(***************************************************************************)
(* The files of the program: install_dot_file() unpacks the bundled        *)
(* scripts, with a file that names their version, when the program starts  *)
(* and finds older ones or none.  The bundle has a config.lua too, which   *)
(* replaces the user's; the program has loaded that one before, and writes *)
(* its configuration back when it ends.                                    *)
(*                                                                         *)
(* The content of a script is the number of the release it is from, 0 if   *)
(* it is cut short.  A configuration is a number, and 0 is that of the     *)
(* bundle or of a file that is not complete.                               *)
(***************************************************************************)
EXTENDS Integers, Sequences

CONSTANTS
  First, Second, \* two of the scripts, in the order of their names
  Config,        \* config.lua
  Version,       \* the file "version"
  MaxRelease,    \* how many releases of the program there are
  MaxSettings,   \* how often the user changes the configuration
  MaxFaults      \* how many crashes and failures may happen

ASSUME InstallBounds ==
  MaxRelease \in Nat \ {0} /\ MaxSettings \in Nat /\ MaxFaults \in Nat

Scripts == {First, Second}
Files == Scripts \cup {Config, Version}

ASSUME FilesAssumption ==
  First # Second /\ Config \notin Scripts /\ Version \notin Scripts \cup {Config}

Absent == -1

VARIABLES
  phase,    \* where the program is
  program,  \* SCRIPT_VERSION of the program that runs, or is run next
  dir,      \* the directory .cardpeek exists
  disk,     \* its files
  replays,  \* where the recorded exchanges are, in the "old" or the "new" place
  archive,  \* dot_cardpeek.tar.gz: Absent, 0 if it is not complete, or its release
  done,     \* how many of its files tar has dealt with
  missed,   \* those that tar could not write, and has not written since
  conf,     \* the configuration in memory
  setting,  \* the last one that the user made or found
  lost,     \* it was not on disk when the program was stopped
  refused,  \* the releases that the user does not want to be asked about
  faults

files == <<dir, disk, replays, archive, done, missed>>
choice == <<conf, setting, lost, refused>>
vars == <<phase, program, files, choice, faults>>

\* What was installed before: nothing, an empty directory, or some release.
Init ==
  /\ phase = "off" /\ program = 1
  /\ dir \in BOOLEAN
  /\ \/ disk = [f \in Files |-> Absent]
     \/ dir /\ \E r \in 1..MaxRelease : disk = [f \in Files |-> IF f = Config THEN 0 ELSE r]
  /\ replays \in {"old", "new"} /\ archive = Absent /\ done = 0 /\ missed = {}
  /\ conf = 0 /\ setting = 0 /\ lost = FALSE /\ refused = {}
  /\ faults = 0

Fault == faults < MaxFaults /\ faults' = faults + 1

\* Mistake: the version is the first file of the archive.
BundleUnordered == <<Version, Config, First, Second>>

\* The archive is made with its files sorted by name: the version is the last.
Bundle == <<Config, First, Second, Version>>

Content(f, r) == IF f = Config THEN 0 ELSE r

Found(f) == IF disk[f] = Absent THEN 0 ELSE disk[f]

-------------------------------------------------------------------------------
(***************************************************************************)
(* luax_init() loads the configuration, then the version is looked at and  *)
(* the user asked.                                                         *)
(***************************************************************************)
Start ==
  /\ phase = "off" /\ phase' = "look"
  /\ conf' = Found(Config) /\ setting' = (IF lost THEN Found(Config) ELSE setting)
  /\ lost' = FALSE
  /\ UNCHANGED <<program, files, refused, faults>>

\* Mistake: scripts are up to date if they have a version.
UpToDateAtAll == dir /\ Found(Version) > 0

UpToDate == dir /\ Found(Version) >= program

Looks ==
  /\ phase = "look"
  /\ phase' = IF UpToDate THEN "run" ELSE "ask"
  /\ UNCHANGED <<program, files, choice, faults>>

\* "Yes": the directory is made if there is none, and the exchanges recorded
\* with older programs are moved, if that is possible.
Accepts ==
  /\ phase = "ask"
  /\ phase' = "pack" /\ dir' = TRUE
  /\ replays' \in {replays, "new"}
  /\ UNCHANGED <<program, disk, archive, done, missed, choice, faults>>

DirectoryFails ==
  /\ phase = "ask" /\ ~dir /\ Fault
  /\ phase' = "run"
  /\ UNCHANGED <<program, files, choice>>

\* "No", or the dialog is closed, or the version cannot be written.
Declines ==
  /\ phase = "ask" /\ phase' = "run"
  /\ UNCHANGED <<program, files, choice, faults>>

\* "No, don't ask me again" writes the version of scripts that are not there.
Refuses ==
  /\ phase = "ask" /\ dir /\ phase' = "run"
  /\ disk' = [disk EXCEPT ![Version] = program]
  /\ refused' = refused \cup {program}
  /\ UNCHANGED <<program, dir, replays, archive, done, missed, conf, setting, lost, faults>>

-------------------------------------------------------------------------------
(***************************************************************************)
(* The archive is written, extracted by tar, and removed.                  *)
(***************************************************************************)
Packs ==
  /\ phase = "pack" /\ phase' = "extract"
  /\ archive' = program /\ done' = 0
  /\ UNCHANGED <<program, dir, disk, replays, missed, choice, faults>>

\* It cannot be created, or not be written.
PackFails ==
  /\ phase = "pack" /\ Fault /\ phase' = "run"
  /\ archive' \in {archive, 0}
  /\ UNCHANGED <<program, dir, disk, replays, done, missed, choice>>

Extracts ==
  /\ phase = "extract" /\ done < Len(Bundle)
  /\ LET f == Bundle[done + 1]
     IN /\ disk' = [disk EXCEPT ![f] = Content(f, archive)]
        /\ missed' = missed \ {f}
  /\ done' = done + 1
  /\ UNCHANGED <<phase, program, dir, replays, archive, choice, faults>>

\* tar cannot remove, make or write a file: it goes on with the next one.
MemberFails ==
  /\ phase = "extract" /\ done < Len(Bundle) /\ Fault
  /\ LET f == Bundle[done + 1]
     IN /\ \E c \in {disk[f], Absent, 0} : disk' = [disk EXCEPT ![f] = c]
        /\ missed' = missed \cup {f}
  /\ done' = done + 1
  /\ UNCHANGED <<phase, program, dir, replays, archive, choice>>

\* The file that tar was writing may be cut short.
CutsShort ==
  \/ UNCHANGED disk
  \/ /\ phase = "extract" /\ done < Len(Bundle)
     /\ disk' = [disk EXCEPT ![Bundle[done + 1]] = 0]

\* tar cannot be run, or ends before the last file.  The archive is left behind.
TarStops ==
  /\ phase = "extract" /\ Fault /\ phase' = "run"
  /\ CutsShort
  /\ UNCHANGED <<program, dir, replays, archive, done, missed, choice>>

\* tar has missed a file and says so when it ends: what it wrote stays.
ExtractFails ==
  /\ phase = "extract" /\ done = Len(Bundle) /\ missed # {} /\ phase' = "run"
  /\ UNCHANGED <<program, files, choice, faults>>

\* Mistake: the new configuration is loaded at once.
TidiesAndLoads ==
  /\ phase = "extract" /\ done = Len(Bundle) /\ missed = {} /\ phase' = "run"
  /\ archive' = Absent /\ conf' = Found(Config)
  /\ UNCHANGED <<program, dir, disk, replays, done, missed, setting, lost, refused, faults>>

\* The outcome of "rm" is not looked at.
Tidies ==
  /\ phase = "extract" /\ done = Len(Bundle) /\ missed = {} /\ phase' = "run"
  /\ archive' \in {archive, Absent}
  /\ UNCHANGED <<program, dir, disk, replays, done, missed, choice, faults>>

-------------------------------------------------------------------------------
(***************************************************************************)
(* The session, and the end of the program: luax_config_table_save()       *)
(* empties config.lua before it writes it, and may not be able to open it. *)
(***************************************************************************)
Sets ==
  /\ phase = "run" /\ setting < MaxSettings
  /\ setting' = setting + 1 /\ conf' = setting + 1
  /\ UNCHANGED <<phase, program, files, lost, refused, faults>>

Quits ==
  /\ phase = "run" /\ dir /\ phase' = "saving"
  /\ disk' = [disk EXCEPT ![Config] = 0]
  /\ UNCHANGED <<program, dir, replays, archive, done, missed, choice, faults>>

\* It cannot where there is no directory, and may fail where there is one.
SaveFails ==
  /\ phase = "run" /\ (IF dir THEN Fault ELSE UNCHANGED faults) /\ phase' = "off"
  /\ lost' = (Found(Config) # setting)
  /\ UNCHANGED <<program, files, conf, setting, refused>>

Saves ==
  /\ phase = "saving" /\ phase' = "off"
  /\ disk' = [disk EXCEPT ![Config] = conf]
  /\ UNCHANGED <<program, dir, replays, archive, done, missed, choice, faults>>

\* What is not written to the end is cut short, with or without a crash.
Crashes ==
  /\ phase # "off" /\ Fault /\ phase' = "off"
  /\ CutsShort /\ lost' = (Found(Config)' # setting)
  /\ UNCHANGED <<program, dir, replays, archive, done, missed, conf, setting, refused>>

\* The user installs a newer program.
Upgrades ==
  /\ phase = "off" /\ program < MaxRelease /\ program' = program + 1
  /\ UNCHANGED <<phase, files, choice, faults>>

-------------------------------------------------------------------------------
Installs ==
  \/ Looks \/ DirectoryFails \/ Packs \/ PackFails
  \/ Extracts \/ MemberFails \/ TarStops \/ ExtractFails \/ Tidies

Ends == Quits \/ SaveFails

Next ==
  \/ Start \/ Installs \/ Accepts \/ Declines \/ Refuses
  \/ Sets \/ Ends \/ Saves \/ Crashes \/ Upgrades

Spec == Init /\ [][Next]_vars

\* Installing goes on once accepted; of the user it is assumed that the program
\* is started and ended again and again, and that asked often enough he accepts.
FairSpec ==
  /\ Spec
  /\ WF_vars(Looks) /\ WF_vars(Packs) /\ WF_vars(Extracts)
  /\ WF_vars(ExtractFails \/ Tidies)
  /\ WF_vars(Start) /\ WF_vars(Ends) /\ WF_vars(Saves) /\ SF_vars(Accepts)

-------------------------------------------------------------------------------
InstallTypeOK ==
  /\ phase \in {"off", "look", "ask", "pack", "extract", "run", "saving"}
  /\ program \in 1..MaxRelease /\ dir \in BOOLEAN
  /\ disk \in [Files -> Nat \cup {Absent}]
  /\ \A f \in Scripts \cup {Version} : disk[f] \in 0..MaxRelease \cup {Absent}
  /\ disk[Config] \in 0..MaxSettings \cup {Absent}
  /\ replays \in {"old", "new"} /\ archive \in 0..MaxRelease \cup {Absent}
  /\ done \in 0..Len(Bundle) /\ missed \subseteq Files
  /\ phase = "extract" => archive = program
  /\ conf \in 0..MaxSettings /\ setting \in 0..MaxSettings /\ lost \in BOOLEAN
  /\ refused \subseteq 1..MaxRelease /\ faults \in 0..MaxFaults

\* Scripts that pass for up to date, main.c:104, are of that release or a newer
\* one and complete, wherever an installation was cut off before, unless the user
\* refused them, or tar itself could not write them.
UpToDateIsInstalled ==
  LET v == Found(Version)
  IN UpToDate => v \in refused \/ \A s \in Scripts \ missed : Found(s) >= v

\* "Scripts are up to date." (main.c:106): all of them, also after an extraction
\* that was reported as failed.
UpToDateWhenSaid ==
  LET v == Found(Version)
  IN UpToDate => v \in refused \/ \A s \in Scripts : Found(s) >= v

\* The configuration survives installations, although these replace its file:
\* the program has it in memory until it is on disk again, unless it is stopped
\* before that, or the file cannot be written.
SettingKept ==
  IF phase = "off" THEN lost \/ Found(Config) = setting ELSE conf = setting

\* Whatever failed before, in the end the scripts are those of the program, or
\* newer, or the user refused them, or those that tar could not write have a
\* version beside them that hides it.
Installed == dir /\ \A s \in Scripts : Found(s) >= program

Hidden == UpToDate /\ missed \cap Scripts # {}

InstallArrives == <>[](Installed \/ Found(Version) \in refused \/ Hidden)
===============================================================================

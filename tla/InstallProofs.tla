----------------------------- MODULE InstallProofs -----------------------------
(***************************************************************************)
(* What is proved of the installation, for all numbers of releases,        *)
(* settings, crashes and failures: scripts that pass for up to date are    *)
(* complete but for those that tar could not write, and the configuration  *)
(* survives.  The argument is that the version stays older than the        *)
(* program from the question to the last file of the archive.              *)
(***************************************************************************)
EXTENDS Install, TLAPS

NothingWithoutDirectory ==
  /\ ~dir => disk[Version] = Absent
  /\ phase \in {"pack", "extract"} => dir

\* Until the last file is extracted, the scripts do not pass for up to date.
OldUntilDone ==
  /\ phase \in {"ask", "pack"} => Found(Version) < program
  /\ phase = "extract" /\ done < 4 => Found(Version) < program

\* The files of the archive that tar has dealt with are those of the program, or
\* were missed.
ExtractedAreNew ==
  phase = "extract" =>
    /\ done >= 2 => disk[First] = program \/ First \in missed
    /\ done >= 3 => disk[Second] = program \/ Second \in missed

InstallInv ==
  /\ InstallTypeOK
  /\ NothingWithoutDirectory /\ OldUntilDone /\ ExtractedAreNew
  /\ UpToDateIsInstalled /\ SettingKept

-------------------------------------------------------------------------------
LEMMA BundleIs ==
  /\ Len(Bundle) = 4
  /\ Bundle[1] = Config /\ Bundle[2] = First /\ Bundle[3] = Second /\ Bundle[4] = Version
  BY DEF Bundle

LEMMA FilesDiffer ==
  /\ First # Second /\ Config # First /\ Config # Second
  /\ Version # First /\ Version # Second /\ Version # Config
  /\ {First, Second, Config, Version} \subseteq Files
  BY FilesAssumption DEF Scripts, Files

\* What was found of a file that has its type.
LEMMA FoundTypes ==
  ASSUME InstallTypeOK
  PROVE  /\ \A f \in Files : Found(f) \in Nat
         /\ Found(Config) \in 0..MaxSettings /\ Found(Version) \in 0..MaxRelease
         /\ program \in Nat \ {0}
  BY FilesDiffer, InstallBounds DEF InstallTypeOK, Found, Files, Scripts, Absent

LEMMA InitInstalled == Init => InstallInv
<1> SUFFICES ASSUME Init PROVE InstallInv
  OBVIOUS
<1>1. InstallTypeOK
  <2>1. disk \in [Files -> Nat \cup {Absent}]
    BY InstallBounds DEF Init
  <2>2. /\ \A f \in Scripts \cup {Version} : disk[f] \in 0..MaxRelease \cup {Absent}
        /\ disk[Config] \in 0..MaxSettings \cup {Absent}
    BY InstallBounds, FilesDiffer DEF Init, Files, Scripts
  <2>3. archive \in 0..MaxRelease \cup {Absent} /\ done \in 0..Len(Bundle)
    BY BundleIs DEF Init
  <2>4. dir \in BOOLEAN /\ lost \in BOOLEAN
    BY Zenon DEF Init
  <2>5. program \in 1..MaxRelease /\ conf \in 0..MaxSettings /\ setting \in 0..MaxSettings
        /\ faults \in 0..MaxFaults /\ refused \subseteq 1..MaxRelease
        /\ replays \in {"old", "new"} /\ phase = "off" /\ missed \subseteq Files
    BY InstallBounds DEF Init
  <2> QED
    BY <2>1, <2>2, <2>3, <2>4, <2>5 DEF InstallTypeOK
<1>2. NothingWithoutDirectory /\ OldUntilDone /\ ExtractedAreNew
  BY FilesDiffer DEF Init, NothingWithoutDirectory, OldUntilDone, ExtractedAreNew
<1>3. UpToDateIsInstalled
  BY FilesDiffer, InstallBounds DEF Init, UpToDateIsInstalled, UpToDate, Found, Files, Scripts, Absent
<1>4. SettingKept
  BY FilesDiffer DEF Init, SettingKept, Found, Absent
<1> QED
  BY <1>1, <1>2, <1>3, <1>4 DEF InstallInv

\* A step that leaves the files and the program alone.
LEMMA FilesAlone ==
  ASSUME InstallInv, UNCHANGED <<program, dir, disk, refused, missed>>
  PROVE  UpToDateIsInstalled' /\ (\A f \in Files : Found(f)' = Found(f)) /\ UpToDate' = UpToDate
  BY DEF InstallInv, UpToDateIsInstalled, UpToDate, Found

LEMMA StartSound == InstallInv /\ Start => InstallInv'
<1> SUFFICES ASSUME InstallInv, Start PROVE InstallInv'
  OBVIOUS
<1>1. UpToDateIsInstalled' /\ Found(Config)' = Found(Config) /\ Found(Config) \in 0..MaxSettings
  BY FilesAlone, FoundTypes, FilesDiffer DEF Start, files, InstallInv
<1>2. InstallTypeOK'
  BY <1>1 DEF InstallInv, InstallTypeOK, Start, files
<1>3. NothingWithoutDirectory' /\ OldUntilDone' /\ ExtractedAreNew'
  BY DEF InstallInv, NothingWithoutDirectory, OldUntilDone, ExtractedAreNew, Start, files
<1>4. SettingKept'
  BY DEF InstallInv, SettingKept, Start
<1> QED
  BY <1>1, <1>2, <1>3, <1>4 DEF InstallInv

LEMMA LooksSound == InstallInv /\ Looks => InstallInv'
<1> SUFFICES ASSUME InstallInv, Looks PROVE InstallInv'
  OBVIOUS
<1>1. /\ UpToDateIsInstalled' /\ Found(Version)' = Found(Version)
      /\ Found(Version) \in 0..MaxRelease /\ program \in Nat \ {0}
  BY FilesAlone, FoundTypes, FilesDiffer DEF Looks, files, choice, InstallInv
<1>2. InstallTypeOK'
  BY DEF InstallInv, InstallTypeOK, Looks, files, choice
<1>3. ~dir => Found(Version) = 0
  BY DEF InstallInv, NothingWithoutDirectory, Found
<1>4. ~UpToDate => Found(Version) < program
  BY <1>1, <1>3 DEF UpToDate
<1>5. NothingWithoutDirectory' /\ OldUntilDone' /\ ExtractedAreNew'
  BY <1>1, <1>4 DEF InstallInv, NothingWithoutDirectory, OldUntilDone, ExtractedAreNew, Looks, files
<1>6. SettingKept'
  BY DEF InstallInv, SettingKept, Looks, files, choice
<1> QED
  BY <1>1, <1>2, <1>5, <1>6 DEF InstallInv

\* From the question to the archive, or to the session.
LEMMA AskSound == InstallInv /\ (Accepts \/ DirectoryFails \/ Declines \/ Packs \/ PackFails) => InstallInv'
<1> SUFFICES ASSUME InstallInv, Accepts \/ DirectoryFails \/ Declines \/ Packs \/ PackFails
             PROVE  InstallInv'
  OBVIOUS
<1>1. /\ UNCHANGED <<program, disk, missed, conf, setting, lost, refused>>
      /\ phase \in {"ask", "pack"} /\ phase' \in {"pack", "extract", "run"}
      /\ phase = "pack" => dir' = dir
      /\ phase' = "extract" => archive' = program /\ done' = 0 /\ dir
      /\ phase' = "pack" => dir' = TRUE
      /\ dir' = dir \/ (phase = "ask" /\ dir' = TRUE)
  BY DEF Accepts, DirectoryFails, Declines, Packs, PackFails, files, choice, Fault,
         InstallInv, NothingWithoutDirectory
<1>2. Found(Version) < program /\ Found(Version)' = Found(Version)
  BY <1>1 DEF InstallInv, OldUntilDone, Found
<1>3. Found(Version) \in Nat /\ program \in Nat
  BY FoundTypes, FilesDiffer DEF InstallInv
<1>4. UpToDateIsInstalled'
  BY <1>1, <1>2, <1>3 DEF UpToDateIsInstalled, UpToDate
<1>5. InstallTypeOK'
  <2>1. archive' \in 0..MaxRelease \cup {Absent} /\ done' \in 0..Len(Bundle)
    BY BundleIs, InstallBounds DEF Accepts, DirectoryFails, Declines, Packs, PackFails, files,
       InstallInv, InstallTypeOK
  <2>2. faults' \in 0..MaxFaults /\ replays' \in {"old", "new"}
    BY InstallBounds DEF Accepts, DirectoryFails, Declines, Packs, PackFails, Fault, files, choice,
       InstallInv, InstallTypeOK
  <2>3. dir' \in BOOLEAN
    BY <1>1, Zenon DEF InstallInv, InstallTypeOK
  <2> QED
    BY <1>1, <2>1, <2>2, <2>3 DEF InstallInv, InstallTypeOK
<1>6. NothingWithoutDirectory' /\ OldUntilDone' /\ ExtractedAreNew'
  BY <1>1, <1>2 DEF InstallInv, NothingWithoutDirectory, OldUntilDone, ExtractedAreNew
<1>7. SettingKept'
  BY <1>1 DEF InstallInv, SettingKept
<1> QED
  BY <1>4, <1>5, <1>6, <1>7 DEF InstallInv

LEMMA RefusesSound == InstallInv /\ Refuses => InstallInv'
<1> SUFFICES ASSUME InstallInv, Refuses PROVE InstallInv'
  OBVIOUS
<1>1. disk' = [disk EXCEPT ![Version] = program] /\ disk \in [Files -> Nat \cup {Absent}]
  BY DEF Refuses, InstallInv, InstallTypeOK
<1>2. /\ disk' \in [Files -> Nat \cup {Absent}] /\ disk'[Version] = program
      /\ \A f \in Files : f # Version => disk'[f] = disk[f]
  BY <1>1, FilesDiffer, FoundTypes DEF InstallInv
<1>3. InstallTypeOK'
  BY <1>2, FilesDiffer, InstallBounds DEF InstallInv, InstallTypeOK, Refuses, Scripts, Files
<1>4. program \in refused' /\ program' = program /\ program # Absent
  BY FoundTypes DEF Refuses, InstallInv, Absent
<1>5. UpToDateIsInstalled'
  BY <1>2, <1>4 DEF UpToDateIsInstalled, Found
<1>6. NothingWithoutDirectory' /\ OldUntilDone' /\ ExtractedAreNew'
  BY DEF Refuses, InstallInv, NothingWithoutDirectory, OldUntilDone, ExtractedAreNew
<1>7. SettingKept'
  BY DEF Refuses, InstallInv, SettingKept
<1> QED
  BY <1>3, <1>5, <1>6, <1>7 DEF InstallInv

-------------------------------------------------------------------------------
(***************************************************************************)
(* The archive.                                                            *)
(***************************************************************************)
\* A file is written, or missed: the version is the last one.
LEMMA MemberDone ==
  ASSUME InstallInv, phase = "extract", done \in 0..3, done' = done + 1,
         NEW f \in Files, f = Bundle[done + 1], NEW c \in Nat \cup {Absent},
         disk' = [disk EXCEPT ![f] = c],
         \/ c = Content(f, program) /\ missed' = missed \ {f}
         \/ c \in {disk[f], Absent, 0} /\ missed' = missed \cup {f},
         UNCHANGED <<phase, program, dir, replays, archive, conf, setting, lost, refused>>,
         faults' \in 0..MaxFaults
  PROVE  InstallInv'
<1>1. disk \in [Files -> Nat \cup {Absent}] /\ missed \subseteq Files /\ program \in 1..MaxRelease
  BY DEF InstallInv, InstallTypeOK
<1>2. /\ disk' \in [Files -> Nat \cup {Absent}] /\ disk'[f] = c
      /\ \A g \in Files : g # f => disk'[g] = disk[g]
      /\ \A g \in Files : g # f => (g \in missed' <=> g \in missed)
      /\ missed' \subseteq Files
  BY <1>1
<1>3. /\ done = 0 => f = Config
      /\ done = 1 => f = First
      /\ done = 2 => f = Second
      /\ done = 3 => f = Version
  BY BundleIs
<1>4. \/ c = (IF f = Config THEN 0 ELSE program) /\ f \notin missed'
      \/ c \in {disk[f], Absent, 0} /\ f \in missed'
  BY <1>1 DEF Content
<1>5. Found(Version) \in Nat /\ program \in Nat \ {0}
  BY FoundTypes, FilesDiffer DEF InstallInv
<1>6. done < 3 => Found(Version)' = Found(Version)
  BY <1>2, <1>3, FilesDiffer DEF Found
<1>7. InstallTypeOK'
  <2>1. /\ \A g \in Scripts \cup {Version} : disk'[g] \in 0..MaxRelease \cup {Absent}
        /\ disk'[Config] \in 0..MaxSettings \cup {Absent}
    <3>1. /\ f # Config => c \in 0..MaxRelease \cup {Absent}
          /\ f = Config => c \in 0..MaxSettings \cup {Absent}
      BY <1>1, <1>3, <1>4, FilesDiffer, InstallBounds DEF InstallInv, InstallTypeOK, Scripts
    <3> QED
      BY <1>2, <3>1, FilesDiffer DEF InstallInv, InstallTypeOK, Scripts
  <2> QED
    BY <1>2, <2>1, BundleIs DEF InstallInv, InstallTypeOK
<1>8. OldUntilDone' /\ NothingWithoutDirectory'
  BY <1>6 DEF InstallInv, OldUntilDone, NothingWithoutDirectory
<1>9. ExtractedAreNew'
  BY <1>2, <1>3, <1>4, FilesDiffer DEF InstallInv, ExtractedAreNew
<1>10. UpToDateIsInstalled'
  <2>1. CASE done < 3
    BY <1>5, <1>6, <2>1 DEF InstallInv, OldUntilDone, UpToDateIsInstalled, UpToDate
  <2>2. CASE done = 3 /\ c = program
    <3>1. \A s \in Scripts : disk'[s] = program \/ s \in missed'
      BY <1>2, <1>3, <2>2, FilesDiffer DEF InstallInv, ExtractedAreNew, Scripts
    <3>2. Found(Version)' = program
      BY <1>2, <1>3, <1>5, <2>2 DEF Found, Absent
    <3> QED
      BY <1>5, <3>1, <3>2 DEF UpToDateIsInstalled, Found, Absent
  <2>3. CASE done = 3 /\ c # program
    <3>1. c \in {disk[Version], Absent, 0} /\ Found(Version)' = (IF c = Absent THEN 0 ELSE c)
      BY <1>2, <1>3, <1>4, <2>3, FilesDiffer DEF Found
    <3>2. Found(Version)' \in Nat /\ Found(Version)' < program
      BY <1>1, <1>5, <2>3, <3>1 DEF InstallInv, OldUntilDone, UpToDateIsInstalled, UpToDate, Found, Absent,
         NothingWithoutDirectory
    <3> QED
      BY <1>5, <3>2 DEF UpToDateIsInstalled, UpToDate
  <2> QED
    BY <2>1, <2>2, <2>3
<1>11. SettingKept'
  BY DEF InstallInv, SettingKept
<1> QED
  BY <1>7, <1>8, <1>9, <1>10, <1>11 DEF InstallInv

LEMMA ExtractsSound == InstallInv /\ (Extracts \/ MemberFails) => InstallInv'
<1> SUFFICES ASSUME InstallInv, Extracts \/ MemberFails PROVE InstallInv'
  OBVIOUS
<1>1. /\ phase = "extract" /\ done \in 0..3 /\ done' = done + 1 /\ archive = program
      /\ UNCHANGED <<phase, program, dir, replays, archive, conf, setting, lost, refused>>
      /\ faults' \in 0..MaxFaults /\ program \in Nat
      /\ disk \in [Files -> Nat \cup {Absent}]
  BY BundleIs, InstallBounds DEF Extracts, MemberFails, Fault, choice, InstallInv, InstallTypeOK
<1>2. PICK f \in Files : f = Bundle[done + 1]
  BY <1>1, BundleIs, FilesDiffer
<1>3. CASE Extracts
  <2>1. disk' = [disk EXCEPT ![f] = Content(f, program)] /\ missed' = missed \ {f}
    BY <1>1, <1>2, <1>3 DEF Extracts
  <2>2. Content(f, program) \in Nat \cup {Absent}
    BY <1>1 DEF Content
  <2> QED
    BY <1>1, <1>2, <2>1, <2>2, MemberDone
<1>4. CASE MemberFails
  <2>1. PICK c \in {disk[f], Absent, 0} : disk' = [disk EXCEPT ![f] = c] /\ missed' = missed \cup {f}
    BY <1>2, <1>4 DEF MemberFails
  <2>2. c \in Nat \cup {Absent}
    BY <1>1, <2>1
  <2> QED
    BY <1>1, <1>2, <2>1, <2>2, MemberDone
<1> QED
  BY <1>3, <1>4

LEMMA TidiesSound == InstallInv /\ (Tidies \/ ExtractFails) => InstallInv'
<1> SUFFICES ASSUME InstallInv, Tidies \/ ExtractFails PROVE InstallInv'
  OBVIOUS
<1>1. UpToDateIsInstalled'
  BY FilesAlone DEF Tidies, ExtractFails, choice, files
<1>2. InstallTypeOK'
  BY DEF InstallInv, InstallTypeOK, Tidies, ExtractFails, choice, files
<1>3. NothingWithoutDirectory' /\ OldUntilDone' /\ ExtractedAreNew'
  BY DEF InstallInv, NothingWithoutDirectory, OldUntilDone, ExtractedAreNew, Tidies, ExtractFails, choice, files
<1>4. SettingKept'
  BY DEF InstallInv, SettingKept, Tidies, ExtractFails, choice, files
<1> QED
  BY <1>1, <1>2, <1>3, <1>4 DEF InstallInv

\* What a file that is cut short does to the others and to the version.
LEMMA CutShort ==
  ASSUME InstallInv, CutsShort, UNCHANGED <<program, dir, missed, refused>>
  PROVE  /\ disk' \in [Files -> Nat \cup {Absent}]
         /\ \A f \in Files : disk'[f] \in {disk[f], 0}
         /\ ~dir => disk' = disk
         /\ UpToDateIsInstalled'
<1>1. disk \in [Files -> Nat \cup {Absent}]
  BY DEF InstallInv, InstallTypeOK
<1>2. CASE UNCHANGED disk
  BY <1>1, <1>2, FilesAlone
<1>3. CASE /\ phase = "extract" /\ done < Len(Bundle)
           /\ disk' = [disk EXCEPT ![Bundle[done + 1]] = 0]
  <2>1. done \in 0..3 /\ dir
    BY <1>3, BundleIs DEF InstallInv, InstallTypeOK, NothingWithoutDirectory
  <2>2. /\ disk' \in [Files -> Nat \cup {Absent}]
        /\ \A f \in Files : disk'[f] \in {disk[f], 0}
    BY <1>1, <1>3
  <2>3. Found(Version)' < program
    <3>1. Found(Version) < program /\ program \in Nat \ {0}
      BY <1>3, <2>1, FoundTypes DEF InstallInv, OldUntilDone
    <3> QED
      BY <2>2, <3>1, FilesDiffer DEF Found, Absent
  <2>4. Found(Version)' \in Nat /\ program \in Nat
    BY <2>2, FilesDiffer, FoundTypes DEF Found, Absent, InstallInv
  <2> QED
    BY <2>1, <2>2, <2>3, <2>4 DEF UpToDateIsInstalled, UpToDate
<1> QED
  BY <1>2, <1>3 DEF CutsShort

LEMMA TarStopsSound == InstallInv /\ TarStops => InstallInv'
<1> SUFFICES ASSUME InstallInv, TarStops PROVE InstallInv'
  OBVIOUS
<1>1. /\ CutsShort /\ phase = "extract" /\ phase' = "run" /\ faults' = faults + 1 /\ faults < MaxFaults
      /\ UNCHANGED <<program, dir, replays, archive, done, missed, conf, setting, lost, refused>>
  BY DEF TarStops, Fault, choice
<1>2. /\ disk' \in [Files -> Nat \cup {Absent}]
      /\ \A f \in Files : disk'[f] \in {disk[f], 0}
      /\ UpToDateIsInstalled' /\ dir
  BY <1>1, CutShort DEF InstallInv, NothingWithoutDirectory
<1>3. InstallTypeOK'
  BY <1>1, <1>2, FilesDiffer, InstallBounds DEF InstallInv, InstallTypeOK, Scripts, Files
<1>4. NothingWithoutDirectory' /\ OldUntilDone' /\ ExtractedAreNew'
  BY <1>1, <1>2 DEF NothingWithoutDirectory, OldUntilDone, ExtractedAreNew
<1>5. SettingKept'
  BY <1>1 DEF InstallInv, SettingKept
<1> QED
  BY <1>2, <1>3, <1>4, <1>5 DEF InstallInv

-------------------------------------------------------------------------------
(***************************************************************************)
(* The session, the end of the program, and a newer one.                   *)
(***************************************************************************)
LEMMA SetsSound == InstallInv /\ Sets => InstallInv'
<1> SUFFICES ASSUME InstallInv, Sets PROVE InstallInv'
  OBVIOUS
<1>1. UpToDateIsInstalled'
  BY FilesAlone DEF Sets, files
<1>2. InstallTypeOK'
  BY InstallBounds DEF InstallInv, InstallTypeOK, Sets, files
<1>3. NothingWithoutDirectory' /\ OldUntilDone' /\ ExtractedAreNew'
  BY DEF InstallInv, NothingWithoutDirectory, OldUntilDone, ExtractedAreNew, Sets, files
<1>4. SettingKept'
  BY DEF InstallInv, SettingKept, Sets
<1> QED
  BY <1>1, <1>2, <1>3, <1>4 DEF InstallInv

\* The configuration is the only file that is written.
LEMMA ConfigWritten ==
  ASSUME InstallInv, NEW c \in Nat, disk' = [disk EXCEPT ![Config] = c],
         UNCHANGED <<program, dir, missed, refused>>
  PROVE  /\ disk' \in [Files -> Nat \cup {Absent}] /\ disk'[Config] = c
         /\ \A f \in Files : f # Config => disk'[f] = disk[f]
         /\ UpToDateIsInstalled'
<1>1. disk \in [Files -> Nat \cup {Absent}]
  BY DEF InstallInv, InstallTypeOK
<1>2. /\ disk' \in [Files -> Nat \cup {Absent}] /\ disk'[Config] = c
      /\ \A f \in Files : f # Config => disk'[f] = disk[f]
  BY <1>1, FilesDiffer
<1>3. \A f \in Scripts \cup {Version} : Found(f)' = Found(f)
  BY <1>2, FilesDiffer DEF Found, Scripts
<1> QED
  BY <1>2, <1>3 DEF InstallInv, UpToDateIsInstalled, UpToDate

LEMMA QuitsSound == InstallInv /\ Quits => InstallInv'
<1> SUFFICES ASSUME InstallInv, Quits PROVE InstallInv'
  OBVIOUS
<1>1. /\ phase = "run" /\ dir /\ phase' = "saving" /\ disk' = [disk EXCEPT ![Config] = 0]
      /\ UNCHANGED <<lost, program, dir, replays, archive, done, missed, conf, setting, refused, faults>>
  BY DEF Quits, choice
<1>2. /\ disk' \in [Files -> Nat \cup {Absent}] /\ disk'[Config] = 0
      /\ \A f \in Files : f # Config => disk'[f] = disk[f]
      /\ UpToDateIsInstalled'
  BY <1>1, ConfigWritten
<1>3. InstallTypeOK'
  BY <1>1, <1>2, FilesDiffer, InstallBounds DEF InstallInv, InstallTypeOK, Scripts
<1>4. NothingWithoutDirectory' /\ OldUntilDone' /\ ExtractedAreNew'
  BY <1>1 DEF NothingWithoutDirectory, OldUntilDone, ExtractedAreNew
<1>5. SettingKept'
  BY <1>1 DEF InstallInv, SettingKept
<1> QED
  BY <1>2, <1>3, <1>4, <1>5 DEF InstallInv

LEMMA SaveFailsSound == InstallInv /\ SaveFails => InstallInv'
<1> SUFFICES ASSUME InstallInv, SaveFails PROVE InstallInv'
  OBVIOUS
<1>1. /\ phase' = "off" /\ lost' = (Found(Config) # setting) /\ UNCHANGED disk
      /\ UNCHANGED <<program, dir, replays, archive, done, missed, conf, setting, refused>>
      /\ faults' \in 0..MaxFaults
  BY InstallBounds DEF SaveFails, Fault, files, InstallInv, InstallTypeOK
<1>2. UpToDateIsInstalled' /\ Found(Config)' = Found(Config)
  BY <1>1, FilesAlone, FilesDiffer
<1>3. lost' \in BOOLEAN
  BY <1>1
<1>4. InstallTypeOK'
  BY <1>1, <1>3 DEF InstallInv, InstallTypeOK
<1>5. NothingWithoutDirectory' /\ OldUntilDone' /\ ExtractedAreNew'
  BY <1>1 DEF InstallInv, NothingWithoutDirectory, OldUntilDone, ExtractedAreNew
<1>6. SettingKept'
  BY <1>1, <1>2 DEF SettingKept
<1> QED
  BY <1>2, <1>4, <1>5, <1>6 DEF InstallInv

LEMMA SavesSound == InstallInv /\ Saves => InstallInv'
<1> SUFFICES ASSUME InstallInv, Saves PROVE InstallInv'
  OBVIOUS
<1>1. /\ phase = "saving" /\ phase' = "off" /\ disk' = [disk EXCEPT ![Config] = conf]
      /\ UNCHANGED <<lost, program, dir, replays, archive, done, missed, conf, setting, refused, faults>>
  BY DEF Saves, choice
<1>2. conf \in Nat /\ conf \in 0..MaxSettings
  BY InstallBounds DEF InstallInv, InstallTypeOK
<1>3. /\ disk' \in [Files -> Nat \cup {Absent}] /\ disk'[Config] = conf
      /\ \A f \in Files : f # Config => disk'[f] = disk[f]
      /\ UpToDateIsInstalled'
  BY <1>1, <1>2, ConfigWritten
<1>4. InstallTypeOK'
  BY <1>1, <1>2, <1>3, FilesDiffer DEF InstallInv, InstallTypeOK, Scripts
<1>5. NothingWithoutDirectory' /\ OldUntilDone' /\ ExtractedAreNew'
  BY <1>1, <1>3, FilesDiffer DEF InstallInv, NothingWithoutDirectory, OldUntilDone, ExtractedAreNew
<1>6. SettingKept'
  BY <1>1, <1>2, <1>3 DEF InstallInv, SettingKept, Found, Absent
<1> QED
  BY <1>3, <1>4, <1>5, <1>6 DEF InstallInv

LEMMA CrashesSound == InstallInv /\ Crashes => InstallInv'
<1> SUFFICES ASSUME InstallInv, Crashes PROVE InstallInv'
  OBVIOUS
<1>1. /\ CutsShort /\ phase' = "off" /\ faults' = faults + 1 /\ faults < MaxFaults
      /\ lost' = (Found(Config)' # setting)
      /\ UNCHANGED <<program, dir, replays, archive, done, missed, conf, setting, refused>>
  BY DEF Crashes, Fault
<1>2. /\ disk' \in [Files -> Nat \cup {Absent}]
      /\ \A f \in Files : disk'[f] \in {disk[f], 0}
      /\ ~dir => disk' = disk
      /\ UpToDateIsInstalled'
  BY <1>1, CutShort
<1>3. lost' \in BOOLEAN
  BY <1>1
<1>4. InstallTypeOK'
  BY <1>1, <1>2, <1>3, FilesDiffer, InstallBounds DEF InstallInv, InstallTypeOK, Scripts, Files
<1>5. NothingWithoutDirectory' /\ OldUntilDone' /\ ExtractedAreNew'
  BY <1>1, <1>2 DEF InstallInv, NothingWithoutDirectory, OldUntilDone, ExtractedAreNew
<1>6. SettingKept'
  BY <1>1 DEF SettingKept
<1> QED
  BY <1>2, <1>4, <1>5, <1>6 DEF InstallInv

LEMMA UpgradesSound == InstallInv /\ Upgrades => InstallInv'
<1> SUFFICES ASSUME InstallInv, Upgrades PROVE InstallInv'
  OBVIOUS
<1>1. /\ phase = "off" /\ phase' = "off" /\ program' = program + 1 /\ program' \in 1..MaxRelease
      /\ UNCHANGED <<dir, disk, replays, archive, done, missed, conf, setting, lost, refused, faults>>
  BY InstallBounds DEF Upgrades, files, choice, InstallInv, InstallTypeOK
<1>2. InstallTypeOK'
  BY <1>1 DEF InstallInv, InstallTypeOK
<1>3. NothingWithoutDirectory' /\ OldUntilDone' /\ ExtractedAreNew'
  BY <1>1 DEF InstallInv, NothingWithoutDirectory, OldUntilDone, ExtractedAreNew
<1>4. UpToDateIsInstalled'
  <2>1. UpToDate' => UpToDate
    <3>1. Found(Version) \in Nat /\ program \in Nat /\ Found(Version)' = Found(Version)
      BY <1>1, FoundTypes, FilesDiffer DEF InstallInv, Found
    <3> QED
      BY <1>1, <3>1 DEF UpToDate
  <2> QED
    BY <1>1, <2>1 DEF InstallInv, UpToDateIsInstalled, Found
<1>5. SettingKept'
  BY <1>1 DEF InstallInv, SettingKept, Found
<1> QED
  BY <1>2, <1>3, <1>4, <1>5 DEF InstallInv

-------------------------------------------------------------------------------
LEMMA StepInstalled == InstallInv /\ [Next]_vars => InstallInv'
<1> SUFFICES ASSUME InstallInv, [Next]_vars PROVE InstallInv'
  OBVIOUS
<1>1. CASE Start \/ Accepts \/ Declines \/ Refuses
  BY <1>1, StartSound, AskSound, RefusesSound
<1>2. CASE Installs
  BY <1>2, LooksSound, AskSound, ExtractsSound, TarStopsSound, TidiesSound DEF Installs
<1>3. CASE Sets \/ Ends \/ Saves \/ Crashes \/ Upgrades
  BY <1>3, SetsSound, QuitsSound, SaveFailsSound, SavesSound, CrashesSound, UpgradesSound DEF Ends
<1>4. CASE UNCHANGED vars
  BY <1>4 DEF vars, files, choice, InstallInv, InstallTypeOK, NothingWithoutDirectory, OldUntilDone,
     ExtractedAreNew, UpToDateIsInstalled, UpToDate, SettingKept, Found
<1> QED
  BY <1>1, <1>2, <1>3, <1>4 DEF Next

LEMMA InstallSound == Spec => []InstallInv
  BY InitInstalled, StepInstalled, PTL DEF Spec

\* The variables have their types, for all numbers of releases and faults.
THEOREM InstallTyped == Spec => []InstallTypeOK
<1>1. InstallInv => InstallTypeOK
  BY DEF InstallInv
<1> QED
  BY <1>1, InstallSound, PTL

\* Scripts that pass for up to date are complete, wherever crashes and failures
\* cut installations off: those excepted that tar could not write, or that the
\* user refused.
THEOREM UpToDateScripts == Spec => []UpToDateIsInstalled
<1>1. InstallInv => UpToDateIsInstalled
  BY DEF InstallInv
<1> QED
  BY <1>1, InstallSound, PTL

\* The configuration of the user survives the installations, unless the program
\* is stopped before it is saved, or cannot save it.
THEOREM SettingSurvives == Spec => []SettingKept
<1>1. InstallInv => SettingKept
  BY DEF InstallInv
<1> QED
  BY <1>1, InstallSound, PTL
===============================================================================

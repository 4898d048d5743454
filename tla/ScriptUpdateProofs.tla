-------------------------- MODULE ScriptUpdateProofs --------------------------
(***************************************************************************)
(* The safety properties of ScriptUpdate, for any set of scripts, number   *)
(* of releases and of faults.                                              *)
(*                                                                         *)
(* None of them is inductive alone.  That an update is put off only when   *)
(* it is complete rests on a count: what was installed and what is still   *)
(* to do never exceed the items there were, and when they equal them no    *)
(* item was skipped.  That a removed script stays due rests on the         *)
(* schedule being 0 all through an update; and that the user is asked when *)
(* announced, on the file being no more eager than the table in memory.    *)
(***************************************************************************)
EXTENDS ScriptUpdate, FiniteSetTheorems, TLAPS

InItems == phase \in {"items", "verify", "rename", "clean"}

\* The items that are still to be installed.
Pending == IF phase = "clean" THEN todo \ {item} ELSE todo

SaveTargets == after \in {"off", "due", "past", "remove"}

Verified == phase = "rename" => temp[item] = manifest

CountsItems == InItems => updated + Cardinality(Pending) <= count

SkipsNone ==
  InItems /\ updated + Cardinality(Pending) = count =>
    \A f \in Supported \ Pending : disk[f] = manifest

NoTableNoWait == \A c \in {conf, file} : ~c.defined => c.wait = 0 /\ c.auto

WaitsForNobody == InItems \/ phase \in {"ask", "fetch"} => conf.wait = 0 /\ conf.auto

HasTable ==
  InItems \/ phase \in {"due", "ask", "fetch"} \/ (phase = "saving" /\ after = "due")
    => conf.defined

FileNotLater == file.wait <= conf.wait

MissingSoon == \A f \in Supported : disk[f] = Absent => conf.wait <= Day

KeepsWord ==
  ~lost => /\ phase # "saving" => conf = file
           /\ kept.wait <= conf.wait /\ (conf.auto => kept.auto)

UpdateInv ==
  /\ UpdateTypeOK /\ SaveTargets /\ Verified /\ manifest <= release
  /\ OnlyAuthentic
  /\ CountsItems /\ SkipsNone
  /\ NoTableNoWait /\ WaitsForNobody /\ HasTable /\ FileNotLater
  /\ MissingSoon
  /\ KeepsWord

-------------------------------------------------------------------------------
\* What counting the items comes down to.
LEMMA ItemsFinite == ASSUME NEW S \in SUBSET Files
                     PROVE  IsFiniteSet(S) /\ Cardinality(S) \in Nat
BY ReleaseAssumption, FS_Subset, FS_CardinalityType

LEMMA OneItemLess ==
  ASSUME NEW S \in SUBSET Files, NEW f \in S
  PROVE  Cardinality(S \ {f}) = Cardinality(S) - 1 /\ Cardinality(S) \in Nat \ {0}
<1>1. IsFiniteSet(S) /\ Cardinality(S) \in Nat
  BY ItemsFinite
<1>2. Cardinality(S \ {f}) = Cardinality(S) - 1
  BY <1>1, FS_RemoveElement
<1>3. Cardinality(S \ {f}) \in Nat
  BY ItemsFinite
<1>4. QED
  BY <1>1, <1>2, <1>3

\* What a save does to the types.
LEMMA SaveTyped ==
  ASSUME UpdateTypeOK, NEW c \in Tables, NEW p \in Phases, SavesAs(c, p)
  PROVE  /\ conf' \in Tables /\ file' \in Tables /\ faults' \in 0..MaxFaults
         /\ lost' \in BOOLEAN
         /\ phase' \in {p, "saving"} /\ after' \in {after, p}
<1>1. lost' \in BOOLEAN
  BY DEF SavesAs, UpdateTypeOK
<1>2. NoTable \in Tables
  BY DEF NoTable, Tables, Week
<1>3. faults' \in 0..MaxFaults
  BY ReleaseAssumption DEF SavesAs, UpdateTypeOK, Fault
<1>4. QED
  BY <1>1, <1>2, <1>3 DEF SavesAs, UpdateTypeOK

-------------------------------------------------------------------------------
\* Types, and the places where the program goes on after a save.
LEMMA NextType ==
  ASSUME UpdateInv, [Next]_vars
  PROVE  UpdateTypeOK' /\ SaveTargets'
<1> USE ReleaseAssumption, ValuesAssumption
<1>0. UpdateTypeOK /\ SaveTargets /\ Verified /\ CountsItems
  BY DEF UpdateInv
<1> USE <1>0
<1> USE DEF UpdateTypeOK, SaveTargets, Phases, Tables, NoTable, Day, Week,
            Supported, Fault, scripts, schedule, fetching
<1>1. ASSUME FetchesManifest PROVE UpdateTypeOK' /\ SaveTargets'
  <2>1. Outdated(release) \in SUBSET Files /\ Outdated(release) \subseteq Supported
    BY DEF Outdated
  <2>2. Cardinality(Outdated(release)) \in Nat
    BY <2>1, ItemsFinite
  <2>3. QED
    BY <1>1, <2>1, <2>2 DEF FetchesManifest
<1>2. ASSUME Renames PROVE UpdateTypeOK' /\ SaveTargets'
  <2>1. todo \in SUBSET Files /\ item \in todo
    BY <1>2 DEF Renames
  <2>2. Cardinality(todo) \in Nat \ {0} /\ updated + Cardinality(todo) <= count
    BY <1>2, <2>1, OneItemLess DEF Renames, CountsItems, InItems, Pending
  <2>3. updated + 1 \in 0..count
    BY <2>2
  <2>4. disk' \in [Files -> Nat \cup {Absent}] /\ temp' \in [Files -> Nat \cup {Absent, Junk}]
    BY <1>2, <2>1 DEF Renames, Verified
  <2>5. QED
    BY <1>2, <2>3, <2>4 DEF Renames
<1>3. ASSUME ChecksDefaults PROVE UpdateTypeOK' /\ SaveTargets'
  <2>1. Defaults \in Tables
    BY DEF Defaults, Table
  <2>2. QED
    BY <1>3, <2>1, SaveTyped DEF ChecksDefaults
<1>4. ASSUME EndsItems PROVE UpdateTypeOK' /\ SaveTargets'
  <2>1. [conf EXCEPT !.wait = Week] \in Tables
    OBVIOUS
  <2>2. CASE AllInstalled
    BY <1>4, <2>1, <2>2, SaveTyped DEF EndsItems
  <2>3. CASE ~AllInstalled
    BY <1>4, <2>3 DEF EndsItems
  <2>4. QED
    BY <2>2, <2>3
<1>5. ASSUME Declines PROVE UpdateTypeOK' /\ SaveTargets'
  <2>1. [conf EXCEPT !.wait = Day] \in Tables
    OBVIOUS
  <2>2. [conf EXCEPT !.auto = FALSE] \in Tables
    OBVIOUS
  <2>3. QED
    BY <1>5, <2>1, <2>2, SaveTyped DEF Declines
<1>6. ASSUME Quits PROVE UpdateTypeOK' /\ SaveTargets'
  BY <1>6, SaveTyped DEF Quits
<1>7. ASSUME ManifestFails PROVE UpdateTypeOK' /\ SaveTargets'
  <2>1. leftover' \in BOOLEAN
    BY <1>7 DEF ManifestFails
  <2>2. QED
    BY <1>7, <2>1 DEF ManifestFails
<1>8. ASSUME NEW f \in Files, Downloads(f) PROVE UpdateTypeOK' /\ SaveTargets'
  BY <1>8 DEF Downloads, Fault
<1>9. ASSUME NEW f \in Files, DownloadFails(f) PROVE UpdateTypeOK' /\ SaveTargets'
  BY <1>9 DEF DownloadFails, Fault
<1>10. ASSUME Start
      PROVE  UpdateTypeOK' /\ SaveTargets'
  BY <1>10 DEF Start
<1>11. ASSUME ChecksDue
      PROVE  UpdateTypeOK' /\ SaveTargets'
  BY <1>11 DEF ChecksDue, Due
<1>12. ASSUME Continues
      PROVE  UpdateTypeOK' /\ SaveTargets'
  BY <1>12 DEF Continues
<1>13. ASSUME Verifies
      PROVE  UpdateTypeOK' /\ SaveTargets'
  BY <1>13 DEF Verifies, Authentic
<1>14. ASSUME RenameFails
      PROVE  UpdateTypeOK' /\ SaveTargets'
  BY <1>14 DEF RenameFails, Fault
<1>15. ASSUME RemovesDownload
      PROVE  UpdateTypeOK' /\ SaveTargets'
  BY <1>15 DEF RemovesDownload
<1>16. ASSUME RemovesManifest
      PROVE  UpdateTypeOK' /\ SaveTargets'
  BY <1>16, ZenonT(60) DEF RemovesManifest
<1>17. ASSUME SaveEnds
      PROVE  UpdateTypeOK' /\ SaveTargets'
  BY <1>17 DEF SaveEnds
<1>18. ASSUME Accepts
      PROVE  UpdateTypeOK' /\ SaveTargets'
  BY <1>18 DEF Accepts
<1>19. ASSUME Crashes
      PROVE  UpdateTypeOK' /\ SaveTargets'
  BY <1>19 DEF Crashes, Fault
<1>20. ASSUME DayPasses
      PROVE  UpdateTypeOK' /\ SaveTargets'
  BY <1>20 DEF DayPasses, OneDayLess
<1>21. ASSUME Publishes
      PROVE  UpdateTypeOK' /\ SaveTargets'
  BY <1>21 DEF Publishes
<1>22. ASSUME UNCHANGED vars PROVE UpdateTypeOK' /\ SaveTargets'
  BY <1>22 DEF vars
<1>23. QED
  BY <1>1, <1>2, <1>3, <1>4, <1>5, <1>6, <1>7, <1>8, <1>9, <1>10, <1>11, <1>12,
     <1>13, <1>14, <1>15, <1>16, <1>17, <1>18, <1>19, <1>20, <1>21, <1>22
     DEF Next, Program, Checking, Performing

-------------------------------------------------------------------------------
\* Only what was compared with the manifest is installed.
LEMMA NextAuthentic ==
  ASSUME UpdateInv, [Next]_vars
  PROVE  Verified' /\ (manifest <= release)' /\ OnlyAuthentic'
<1> USE ReleaseAssumption, ValuesAssumption
<1>0. UpdateTypeOK /\ SaveTargets /\ Verified /\ manifest <= release /\ OnlyAuthentic
  BY DEF UpdateInv
<1> USE <1>0
<1> USE DEF Verified, OnlyAuthentic, UpdateTypeOK, SaveTargets, scripts, schedule,
            fetching
<1>1. ASSUME NEW f \in Files, Downloads(f)
      PROVE  Verified' /\ (manifest <= release)' /\ OnlyAuthentic'
  BY <1>1 DEF Downloads, Fault
<1>2. ASSUME NEW f \in Files, DownloadFails(f)
      PROVE  Verified' /\ (manifest <= release)' /\ OnlyAuthentic'
  BY <1>2 DEF DownloadFails, Fault
<1>3. ASSUME Start
      PROVE  Verified' /\ (manifest <= release)' /\ OnlyAuthentic'
  BY <1>3 DEF Start
<1>4. ASSUME ChecksDefaults
      PROVE  Verified' /\ (manifest <= release)' /\ OnlyAuthentic'
  BY <1>4 DEF ChecksDefaults, Defaults, SavesAs, Table
<1>5. ASSUME ChecksDue
      PROVE  Verified' /\ (manifest <= release)' /\ OnlyAuthentic'
  BY <1>5 DEF ChecksDue, Due
<1>6. ASSUME Continues
      PROVE  Verified' /\ (manifest <= release)' /\ OnlyAuthentic'
  BY <1>6 DEF Continues
<1>7. ASSUME FetchesManifest
      PROVE  Verified' /\ (manifest <= release)' /\ OnlyAuthentic'
  BY <1>7 DEF FetchesManifest
<1>8. ASSUME ManifestFails
      PROVE  Verified' /\ (manifest <= release)' /\ OnlyAuthentic'
  BY <1>8 DEF ManifestFails, Fault
<1>9. ASSUME Verifies
      PROVE  Verified' /\ (manifest <= release)' /\ OnlyAuthentic'
  BY <1>9 DEF Verifies, Authentic
<1>10. ASSUME Renames
      PROVE  Verified' /\ (manifest <= release)' /\ OnlyAuthentic'
  BY <1>10 DEF Renames
<1>11. ASSUME RenameFails
      PROVE  Verified' /\ (manifest <= release)' /\ OnlyAuthentic'
  BY <1>11 DEF RenameFails, Fault
<1>12. ASSUME RemovesDownload
      PROVE  Verified' /\ (manifest <= release)' /\ OnlyAuthentic'
  BY <1>12 DEF RemovesDownload
<1>13. ASSUME EndsItems
      PROVE  Verified' /\ (manifest <= release)' /\ OnlyAuthentic'
  BY <1>13 DEF EndsItems, AllInstalled, SavesAs
<1>14. ASSUME RemovesManifest
      PROVE  Verified' /\ (manifest <= release)' /\ OnlyAuthentic'
  BY <1>14 DEF RemovesManifest
<1>15. ASSUME SaveEnds
      PROVE  Verified' /\ (manifest <= release)' /\ OnlyAuthentic'
  BY <1>15 DEF SaveEnds
<1>16. ASSUME Accepts
      PROVE  Verified' /\ (manifest <= release)' /\ OnlyAuthentic'
  BY <1>16 DEF Accepts
<1>17. ASSUME Declines
      PROVE  Verified' /\ (manifest <= release)' /\ OnlyAuthentic'
  BY <1>17 DEF Declines, SavesAs
<1>18. ASSUME Quits
      PROVE  Verified' /\ (manifest <= release)' /\ OnlyAuthentic'
  BY <1>18 DEF Quits, SavesAs
<1>19. ASSUME Crashes
      PROVE  Verified' /\ (manifest <= release)' /\ OnlyAuthentic'
  BY <1>19 DEF Crashes, Fault
<1>20. ASSUME DayPasses
      PROVE  Verified' /\ (manifest <= release)' /\ OnlyAuthentic'
  BY <1>20 DEF DayPasses, OneDayLess
<1>21. ASSUME Publishes
      PROVE  Verified' /\ (manifest <= release)' /\ OnlyAuthentic'
  BY <1>21 DEF Publishes
<1>22. ASSUME UNCHANGED vars PROVE Verified' /\ (manifest <= release)' /\ OnlyAuthentic'
  BY <1>22 DEF vars
<1>23. QED
  BY <1>1, <1>2, <1>3, <1>4, <1>5, <1>6, <1>7, <1>8, <1>9, <1>10, <1>11, <1>12,
     <1>13, <1>14, <1>15, <1>16, <1>17, <1>18, <1>19, <1>20, <1>21, <1>22
     DEF Next, Program, Checking, Performing

-------------------------------------------------------------------------------
\* The file and what the user was told, against the table in memory.
LEMMA NextKept ==
  ASSUME UpdateInv, [Next]_vars
  PROVE  KeepsWord'
<1>0. UpdateTypeOK /\ SaveTargets /\ KeepsWord /\ NoTableNoWait /\ WaitsForNobody
  BY DEF UpdateInv
<1> USE <1>0
<1> USE DEF KeepsWord, NoTableNoWait, WaitsForNobody, UpdateTypeOK, Tables, Table,
            NoTable, Day, Week, InItems, SaveTargets, scripts, schedule, fetching
<1>1. ASSUME NEW f \in Files, Downloads(f) PROVE KeepsWord'
  BY <1>1 DEF Downloads, Fault
<1>2. ASSUME NEW f \in Files, DownloadFails(f) PROVE KeepsWord'
  BY <1>2 DEF DownloadFails, Fault
<1>3. ASSUME Start
      PROVE  KeepsWord'
  BY <1>3 DEF Start
<1>4. ASSUME ChecksDefaults
      PROVE  KeepsWord'
  BY <1>4 DEF ChecksDefaults, Defaults, SavesAs, Table
<1>5. ASSUME ChecksDue
      PROVE  KeepsWord'
  BY <1>5 DEF ChecksDue, Due
<1>6. ASSUME Continues
      PROVE  KeepsWord'
  BY <1>6 DEF Continues
<1>7. ASSUME FetchesManifest
      PROVE  KeepsWord'
  BY <1>7 DEF FetchesManifest
<1>8. ASSUME ManifestFails
      PROVE  KeepsWord'
  BY <1>8 DEF ManifestFails, Fault
<1>9. ASSUME Verifies
      PROVE  KeepsWord'
  BY <1>9 DEF Verifies, Authentic
<1>10. ASSUME Renames
      PROVE  KeepsWord'
  BY <1>10 DEF Renames
<1>11. ASSUME RenameFails
      PROVE  KeepsWord'
  BY <1>11 DEF RenameFails, Fault
<1>12. ASSUME RemovesDownload
      PROVE  KeepsWord'
  BY <1>12 DEF RemovesDownload
<1>13. ASSUME EndsItems
      PROVE  KeepsWord'
  BY <1>13 DEF EndsItems, AllInstalled, SavesAs
<1>14. ASSUME RemovesManifest
      PROVE  KeepsWord'
  BY <1>14 DEF RemovesManifest
<1>15. ASSUME SaveEnds
      PROVE  KeepsWord'
  BY <1>15 DEF SaveEnds
<1>16. ASSUME Accepts
      PROVE  KeepsWord'
  BY <1>16 DEF Accepts
<1>17. ASSUME Declines
      PROVE  KeepsWord'
  BY <1>17 DEF Declines, SavesAs
<1>18. ASSUME Quits
      PROVE  KeepsWord'
  BY <1>18 DEF Quits, SavesAs
<1>19. ASSUME Crashes
      PROVE  KeepsWord'
  BY <1>19 DEF Crashes, Fault
<1>20. ASSUME DayPasses
      PROVE  KeepsWord'
  BY <1>20 DEF DayPasses, OneDayLess
<1>21. ASSUME Publishes
      PROVE  KeepsWord'
  BY <1>21 DEF Publishes
<1>22. ASSUME UNCHANGED vars PROVE KeepsWord'
  BY <1>22 DEF vars
<1>23. QED
  BY <1>1, <1>2, <1>3, <1>4, <1>5, <1>6, <1>7, <1>8, <1>9, <1>10, <1>11, <1>12,
     <1>13, <1>14, <1>15, <1>16, <1>17, <1>18, <1>19, <1>20, <1>21, <1>22
     DEF Next, Program, Checking, Performing

-------------------------------------------------------------------------------
\* The schedule is 0 from the question to the last item.
LEMMA NextSchedule ==
  ASSUME UpdateInv, [Next]_vars
  PROVE  NoTableNoWait' /\ WaitsForNobody' /\ HasTable' /\ FileNotLater'
<1>0. UpdateTypeOK /\ SaveTargets /\ NoTableNoWait /\ WaitsForNobody /\ HasTable /\ FileNotLater
  BY DEF UpdateInv
<1> USE <1>0
<1> USE DEF NoTableNoWait, WaitsForNobody, HasTable, FileNotLater, UpdateTypeOK,
            Tables, Table, NoTable, Day, Week, InItems, SaveTargets, scripts,
            schedule, fetching
<1>1. ASSUME NEW f \in Files, Downloads(f)
      PROVE  NoTableNoWait' /\ WaitsForNobody' /\ HasTable' /\ FileNotLater'
  BY <1>1 DEF Downloads, Fault
<1>2. ASSUME NEW f \in Files, DownloadFails(f)
      PROVE  NoTableNoWait' /\ WaitsForNobody' /\ HasTable' /\ FileNotLater'
  BY <1>2 DEF DownloadFails, Fault
<1>3. ASSUME Start
      PROVE  NoTableNoWait' /\ WaitsForNobody' /\ HasTable' /\ FileNotLater'
  BY <1>3 DEF Start
<1>4. ASSUME ChecksDefaults
      PROVE  NoTableNoWait' /\ WaitsForNobody' /\ HasTable' /\ FileNotLater'
  BY <1>4 DEF ChecksDefaults, Defaults, SavesAs, Table
<1>5. ASSUME ChecksDue
      PROVE  NoTableNoWait' /\ WaitsForNobody' /\ HasTable' /\ FileNotLater'
  BY <1>5 DEF ChecksDue, Due
<1>6. ASSUME Continues
      PROVE  NoTableNoWait' /\ WaitsForNobody' /\ HasTable' /\ FileNotLater'
  BY <1>6 DEF Continues
<1>7. ASSUME FetchesManifest
      PROVE  NoTableNoWait' /\ WaitsForNobody' /\ HasTable' /\ FileNotLater'
  BY <1>7 DEF FetchesManifest
<1>8. ASSUME ManifestFails
      PROVE  NoTableNoWait' /\ WaitsForNobody' /\ HasTable' /\ FileNotLater'
  BY <1>8 DEF ManifestFails, Fault
<1>9. ASSUME Verifies
      PROVE  NoTableNoWait' /\ WaitsForNobody' /\ HasTable' /\ FileNotLater'
  BY <1>9 DEF Verifies, Authentic
<1>10. ASSUME Renames
      PROVE  NoTableNoWait' /\ WaitsForNobody' /\ HasTable' /\ FileNotLater'
  BY <1>10 DEF Renames
<1>11. ASSUME RenameFails
      PROVE  NoTableNoWait' /\ WaitsForNobody' /\ HasTable' /\ FileNotLater'
  BY <1>11 DEF RenameFails, Fault
<1>12. ASSUME RemovesDownload
      PROVE  NoTableNoWait' /\ WaitsForNobody' /\ HasTable' /\ FileNotLater'
  BY <1>12 DEF RemovesDownload
<1>13. ASSUME EndsItems
      PROVE  NoTableNoWait' /\ WaitsForNobody' /\ HasTable' /\ FileNotLater'
  BY <1>13 DEF EndsItems, AllInstalled, SavesAs
<1>14. ASSUME RemovesManifest
      PROVE  NoTableNoWait' /\ WaitsForNobody' /\ HasTable' /\ FileNotLater'
  BY <1>14 DEF RemovesManifest
<1>15. ASSUME SaveEnds
      PROVE  NoTableNoWait' /\ WaitsForNobody' /\ HasTable' /\ FileNotLater'
  BY <1>15 DEF SaveEnds
<1>16. ASSUME Accepts
      PROVE  NoTableNoWait' /\ WaitsForNobody' /\ HasTable' /\ FileNotLater'
  BY <1>16 DEF Accepts
<1>17. ASSUME Declines
      PROVE  NoTableNoWait' /\ WaitsForNobody' /\ HasTable' /\ FileNotLater'
  BY <1>17 DEF Declines, SavesAs
<1>18. ASSUME Quits
      PROVE  NoTableNoWait' /\ WaitsForNobody' /\ HasTable' /\ FileNotLater'
  BY <1>18 DEF Quits, SavesAs
<1>19. ASSUME Crashes
      PROVE  NoTableNoWait' /\ WaitsForNobody' /\ HasTable' /\ FileNotLater'
  BY <1>19 DEF Crashes, Fault
<1>20. ASSUME DayPasses
      PROVE  NoTableNoWait' /\ WaitsForNobody' /\ HasTable' /\ FileNotLater'
  BY <1>20 DEF DayPasses, OneDayLess
<1>21. ASSUME Publishes
      PROVE  NoTableNoWait' /\ WaitsForNobody' /\ HasTable' /\ FileNotLater'
  BY <1>21 DEF Publishes
<1>22. ASSUME UNCHANGED vars
       PROVE  NoTableNoWait' /\ WaitsForNobody' /\ HasTable' /\ FileNotLater'
  BY <1>22 DEF vars
<1>23. QED
  BY <1>1, <1>2, <1>3, <1>4, <1>5, <1>6, <1>7, <1>8, <1>9, <1>10, <1>11, <1>12,
     <1>13, <1>14, <1>15, <1>16, <1>17, <1>18, <1>19, <1>20, <1>21, <1>22
     DEF Next, Program, Checking, Performing

-------------------------------------------------------------------------------
\* A script that is missing is due by tomorrow.
LEMMA NextMissing ==
  ASSUME UpdateInv, [Next]_vars
  PROVE  MissingSoon'
<1>0. UpdateTypeOK /\ MissingSoon /\ WaitsForNobody /\ SkipsNone /\ FileNotLater
  BY DEF UpdateInv
<1> USE <1>0
<1> USE DEF MissingSoon, FileNotLater, UpdateTypeOK, Tables, Table, NoTable, Day,
            Week, SaveTargets, scripts, schedule, fetching
<1>1. ASSUME EndsItems PROVE MissingSoon'
  <2>1. ASSUME AllInstalled, NEW f \in Supported PROVE disk[f] # Absent
    <3>1. updated + Cardinality(Pending) = count
      BY <1>1, <2>1, FS_EmptySet DEF EndsItems, AllInstalled, Pending
    <3>2. disk[f] = manifest
      BY <1>1, <2>1, <3>1 DEF SkipsNone, InItems, EndsItems, Pending
    <3>3. QED
      BY <3>2, ValuesAssumption
  <2>2. QED
    BY <1>1, <2>1 DEF EndsItems, SavesAs
<1>2. ASSUME Verifies PROVE MissingSoon'
  <2>1. conf.wait = 0
    BY <1>2 DEF Verifies, WaitsForNobody, InItems
  <2>2. QED
    BY <1>2, <2>1 DEF Verifies
<1>3. ASSUME Renames PROVE MissingSoon'
  <2>1. conf.wait = 0
    BY <1>3 DEF Renames, WaitsForNobody, InItems
  <2>2. QED
    BY <1>3, <2>1 DEF Renames
<1>4. ASSUME NEW f \in Files, Downloads(f) PROVE MissingSoon'
  BY <1>4 DEF Downloads, Fault
<1>5. ASSUME NEW f \in Files, DownloadFails(f) PROVE MissingSoon'
  BY <1>5 DEF DownloadFails, Fault
<1>6. ASSUME Start
      PROVE  MissingSoon'
  BY <1>6 DEF Start
<1>7. ASSUME ChecksDefaults
      PROVE  MissingSoon'
  BY <1>7 DEF ChecksDefaults, Defaults, SavesAs, Table
<1>8. ASSUME ChecksDue
      PROVE  MissingSoon'
  BY <1>8 DEF ChecksDue, Due
<1>9. ASSUME Continues
      PROVE  MissingSoon'
  BY <1>9 DEF Continues
<1>10. ASSUME FetchesManifest
      PROVE  MissingSoon'
  BY <1>10 DEF FetchesManifest
<1>11. ASSUME ManifestFails
      PROVE  MissingSoon'
  BY <1>11 DEF ManifestFails, Fault
<1>12. ASSUME RenameFails
      PROVE  MissingSoon'
  BY <1>12 DEF RenameFails, Fault
<1>13. ASSUME RemovesDownload
      PROVE  MissingSoon'
  BY <1>13 DEF RemovesDownload
<1>14. ASSUME RemovesManifest
      PROVE  MissingSoon'
  BY <1>14 DEF RemovesManifest
<1>15. ASSUME SaveEnds
      PROVE  MissingSoon'
  BY <1>15 DEF SaveEnds
<1>16. ASSUME Accepts
      PROVE  MissingSoon'
  BY <1>16 DEF Accepts
<1>17. ASSUME Declines
      PROVE  MissingSoon'
  BY <1>17 DEF Declines, SavesAs
<1>18. ASSUME Quits
      PROVE  MissingSoon'
  BY <1>18 DEF Quits, SavesAs
<1>19. ASSUME Crashes
      PROVE  MissingSoon'
  BY <1>19 DEF Crashes, Fault
<1>20. ASSUME DayPasses
      PROVE  MissingSoon'
  BY <1>20 DEF DayPasses, OneDayLess
<1>21. ASSUME Publishes
      PROVE  MissingSoon'
  BY <1>21 DEF Publishes
<1>22. ASSUME UNCHANGED vars PROVE MissingSoon'
  BY <1>22 DEF vars
<1>23. QED
  BY <1>1, <1>2, <1>3, <1>4, <1>5, <1>6, <1>7, <1>8, <1>9, <1>10, <1>11, <1>12,
     <1>13, <1>14, <1>15, <1>16, <1>17, <1>18, <1>19, <1>20, <1>21, <1>22
     DEF Next, Program, Checking, Performing

-------------------------------------------------------------------------------
\* Installed items and items to do, against how many there were.
LEMMA NextCount ==
  ASSUME UpdateInv, [Next]_vars
  PROVE  CountsItems' /\ SkipsNone'
<1>0. UpdateTypeOK /\ SaveTargets /\ Verified /\ CountsItems /\ SkipsNone
  BY DEF UpdateInv
<1> USE <1>0
<1> USE DEF CountsItems, SkipsNone, InItems, Pending, UpdateTypeOK, SaveTargets,
            scripts, schedule, fetching
<1>1. ASSUME FetchesManifest PROVE CountsItems' /\ SkipsNone'
  <2>1. Cardinality(Outdated(release)) \in Nat
    BY ItemsFinite DEF Outdated, Supported
  <2>2. \A f \in Supported \ Outdated(release) : disk[f] = release
    BY DEF Outdated
  <2>3. /\ phase' = "items" /\ updated' = 0 /\ Pending' = Outdated(release)
        /\ count' = Cardinality(Outdated(release)) /\ manifest' = release /\ disk' = disk
    BY <1>1 DEF FetchesManifest
  <2>4. QED
    BY <2>1, <2>2, <2>3
<1>2. ASSUME NEW f \in Files, DownloadFails(f) PROVE CountsItems' /\ SkipsNone'
  <2>1. todo \in SUBSET Files /\ f \in todo
    BY <1>2 DEF DownloadFails, Supported
  <2>2. /\ Cardinality(todo \ {f}) = Cardinality(todo) - 1
        /\ Cardinality(todo) \in Nat \ {0}
    BY <2>1, OneItemLess
  <2>3. QED
    BY <1>2, <2>2 DEF DownloadFails
<1>3. ASSUME Verifies PROVE CountsItems' /\ SkipsNone'
  <2>1. todo \in SUBSET Files /\ item \in todo
    BY <1>3 DEF Verifies, Supported
  <2>2. /\ Cardinality(todo \ {item}) = Cardinality(todo) - 1
        /\ Cardinality(todo) \in Nat \ {0}
    BY <2>1, OneItemLess
  <2>3. QED
    BY <1>3, <2>1, <2>2 DEF Verifies, Supported
<1>4. ASSUME Renames PROVE CountsItems' /\ SkipsNone'
  <2>1. todo \in SUBSET Files /\ item \in todo
    BY <1>4 DEF Renames, Supported
  <2>2. /\ Cardinality(todo \ {item}) = Cardinality(todo) - 1
        /\ Cardinality(todo) \in Nat \ {0}
    BY <2>1, OneItemLess
  <2>3. disk'[item] = manifest /\ \A f \in Files \ {item} : disk'[f] = disk[f]
    BY <1>4, <2>1 DEF Renames, Verified
  <2>4. QED
    BY <1>4, <2>2, <2>3 DEF Renames, Supported
<1>5. ASSUME RenameFails PROVE CountsItems' /\ SkipsNone'
  <2>1. todo \in SUBSET Files /\ item \in todo
    BY <1>5 DEF RenameFails, Supported
  <2>2. /\ Cardinality(todo \ {item}) = Cardinality(todo) - 1
        /\ Cardinality(todo) \in Nat \ {0}
    BY <2>1, OneItemLess
  <2>3. QED
    BY <1>5, <2>2 DEF RenameFails
<1>6. ASSUME NEW f \in Files, Downloads(f) PROVE CountsItems' /\ SkipsNone'
  BY <1>6 DEF Downloads, Fault
<1>7. ASSUME Start
      PROVE  CountsItems' /\ SkipsNone'
  BY <1>7 DEF Start
<1>8. ASSUME ChecksDefaults
      PROVE  CountsItems' /\ SkipsNone'
  BY <1>8 DEF ChecksDefaults, Defaults, SavesAs, Table
<1>9. ASSUME ChecksDue
      PROVE  CountsItems' /\ SkipsNone'
  BY <1>9 DEF ChecksDue, Due
<1>10. ASSUME Continues
      PROVE  CountsItems' /\ SkipsNone'
  BY <1>10 DEF Continues
<1>11. ASSUME ManifestFails
      PROVE  CountsItems' /\ SkipsNone'
  BY <1>11 DEF ManifestFails, Fault
<1>12. ASSUME RemovesDownload
      PROVE  CountsItems' /\ SkipsNone'
  BY <1>12 DEF RemovesDownload
<1>13. ASSUME EndsItems
      PROVE  CountsItems' /\ SkipsNone'
  BY <1>13 DEF EndsItems, AllInstalled, SavesAs
<1>14. ASSUME RemovesManifest
      PROVE  CountsItems' /\ SkipsNone'
  BY <1>14 DEF RemovesManifest
<1>15. ASSUME SaveEnds
      PROVE  CountsItems' /\ SkipsNone'
  BY <1>15 DEF SaveEnds
<1>16. ASSUME Accepts
      PROVE  CountsItems' /\ SkipsNone'
  BY <1>16 DEF Accepts
<1>17. ASSUME Declines
      PROVE  CountsItems' /\ SkipsNone'
  BY <1>17 DEF Declines, SavesAs
<1>18. ASSUME Quits
      PROVE  CountsItems' /\ SkipsNone'
  BY <1>18 DEF Quits, SavesAs
<1>19. ASSUME Crashes
      PROVE  CountsItems' /\ SkipsNone'
  BY <1>19 DEF Crashes, Fault
<1>20. ASSUME DayPasses
      PROVE  CountsItems' /\ SkipsNone'
  BY <1>20 DEF DayPasses, OneDayLess
<1>21. ASSUME Publishes
      PROVE  CountsItems' /\ SkipsNone'
  BY <1>21 DEF Publishes
<1>22. ASSUME UNCHANGED vars PROVE CountsItems' /\ SkipsNone'
  BY <1>22 DEF vars
<1>23. QED
  BY <1>1, <1>2, <1>3, <1>4, <1>5, <1>6, <1>7, <1>8, <1>9, <1>10, <1>11, <1>12,
     <1>13, <1>14, <1>15, <1>16, <1>17, <1>18, <1>19, <1>20, <1>21, <1>22
     DEF Next, Program, Checking, Performing

-------------------------------------------------------------------------------
\* The invariant holds at first, and every step keeps it.
LEMMA InitUpdateInv == Init => UpdateInv
<1> SUFFICES ASSUME Init PROVE UpdateInv
  OBVIOUS
<1> USE ReleaseAssumption, ValuesAssumption
<1>1. UpdateTypeOK
  <2>1. lost \in BOOLEAN /\ leftover \in BOOLEAN
    BY DEF Init
  <2>2. NoTable \in Tables
    BY DEF NoTable, Tables, Week
  <2>3. QED
    BY <2>1, <2>2 DEF Init, UpdateTypeOK, Phases
<1>2. OnlyAuthentic /\ SaveTargets /\ Verified /\ manifest <= release
  BY DEF Init, OnlyAuthentic, SaveTargets, Verified
<1>3. CountsItems /\ SkipsNone /\ WaitsForNobody /\ HasTable
  BY DEF Init, CountsItems, SkipsNone, WaitsForNobody, HasTable, InItems
<1>4. NoTableNoWait /\ FileNotLater /\ MissingSoon /\ KeepsWord
  BY DEF Init, NoTableNoWait, FileNotLater, MissingSoon, KeepsWord, NoTable, Day
<1>5. QED
  BY <1>1, <1>2, <1>3, <1>4 DEF UpdateInv

LEMMA NextUpdateInv == UpdateInv /\ [Next]_vars => UpdateInv'
<1> SUFFICES ASSUME UpdateInv, [Next]_vars PROVE UpdateInv'
  OBVIOUS
<1>1. QED
  BY NextType, NextAuthentic, NextKept, NextSchedule, NextMissing, NextCount DEF UpdateInv

\* The parts of the invariant hold together in every reachable state.
THEOREM UpdateInvariant == Spec => []UpdateInv
BY InitUpdateInv, NextUpdateInv, PTL DEF Spec

\* Every state of the update is well typed, an item is in hand whenever one is
\* used, and never more items count as installed than there were.
THEOREM UpdateTypeCorrect == Spec => []UpdateTypeOK
<1>1. UpdateInv => UpdateTypeOK
  BY DEF UpdateInv
<1>2. QED
  BY <1>1, UpdateInvariant, PTL

\* Whatever is downloaded and wherever the update is cut off, nothing becomes a
\* script that no signed manifest listed.
THEOREM InstallsOnlyAuthentic == Spec => []OnlyAuthentic
<1>1. UpdateInv => OnlyAuthentic
  BY DEF UpdateInv
<1>2. QED
  BY <1>1, UpdateInvariant, PTL

\* A script that an update lost is updated again when the user next agrees.
THEOREM MissingStaysDue == Spec => []MissingIsDue
<1>1. UpdateInv => MissingIsDue
  BY DEF UpdateInv, UpdateTypeOK, Tables, FileNotLater, MissingSoon, MissingIsDue, Day, Week
<1>2. QED
  BY <1>1, UpdateInvariant, PTL

\* Announced delays are kept over restarts and crashes.
THEOREM AsksOnlyWhenAnnounced == Spec => []AsksWhenAnnounced
<1>1. UpdateInv => AsksWhenAnnounced
  BY DEF UpdateInv, UpdateTypeOK, Tables, Week, KeepsWord, WaitsForNobody, AsksWhenAnnounced
<1>2. QED
  BY <1>1, UpdateInvariant, PTL

-------------------------------------------------------------------------------
\* The only step that puts the update off for a week is the one after the last item.
LEMMA PostponesLate ==
  ASSUME UpdateInv, [Next]_vars
  PROVE  conf'.wait > conf.wait /\ conf'.wait = Week => EndsItems /\ AllInstalled
<1>0. UpdateTypeOK /\ FileNotLater
  BY DEF UpdateInv
<1> USE <1>0
<1> USE DEF UpdateTypeOK, Tables, Table, NoTable, Day, Week, FileNotLater, scripts,
            schedule, fetching
<1>1. ASSUME NEW f \in Files, Downloads(f)
      PROVE  conf'.wait > conf.wait /\ conf'.wait = Week => EndsItems /\ AllInstalled
  BY <1>1 DEF Downloads, Fault
<1>2. ASSUME NEW f \in Files, DownloadFails(f)
      PROVE  conf'.wait > conf.wait /\ conf'.wait = Week => EndsItems /\ AllInstalled
  BY <1>2 DEF DownloadFails, Fault
<1>3. ASSUME Start
      PROVE  conf'.wait > conf.wait /\ conf'.wait = Week => EndsItems /\ AllInstalled
  BY <1>3 DEF Start
<1>4. ASSUME ChecksDefaults
      PROVE  conf'.wait > conf.wait /\ conf'.wait = Week => EndsItems /\ AllInstalled
  BY <1>4 DEF ChecksDefaults, Defaults, SavesAs, Table
<1>5. ASSUME ChecksDue
      PROVE  conf'.wait > conf.wait /\ conf'.wait = Week => EndsItems /\ AllInstalled
  BY <1>5 DEF ChecksDue, Due
<1>6. ASSUME Continues
      PROVE  conf'.wait > conf.wait /\ conf'.wait = Week => EndsItems /\ AllInstalled
  BY <1>6 DEF Continues
<1>7. ASSUME FetchesManifest
      PROVE  conf'.wait > conf.wait /\ conf'.wait = Week => EndsItems /\ AllInstalled
  BY <1>7 DEF FetchesManifest
<1>8. ASSUME ManifestFails
      PROVE  conf'.wait > conf.wait /\ conf'.wait = Week => EndsItems /\ AllInstalled
  BY <1>8 DEF ManifestFails, Fault
<1>9. ASSUME Verifies
      PROVE  conf'.wait > conf.wait /\ conf'.wait = Week => EndsItems /\ AllInstalled
  BY <1>9 DEF Verifies, Authentic
<1>10. ASSUME Renames
      PROVE  conf'.wait > conf.wait /\ conf'.wait = Week => EndsItems /\ AllInstalled
  BY <1>10 DEF Renames
<1>11. ASSUME RenameFails
      PROVE  conf'.wait > conf.wait /\ conf'.wait = Week => EndsItems /\ AllInstalled
  BY <1>11 DEF RenameFails, Fault
<1>12. ASSUME RemovesDownload
      PROVE  conf'.wait > conf.wait /\ conf'.wait = Week => EndsItems /\ AllInstalled
  BY <1>12 DEF RemovesDownload
<1>13. ASSUME EndsItems
      PROVE  conf'.wait > conf.wait /\ conf'.wait = Week => EndsItems /\ AllInstalled
  BY <1>13 DEF EndsItems, AllInstalled, SavesAs
<1>14. ASSUME RemovesManifest
      PROVE  conf'.wait > conf.wait /\ conf'.wait = Week => EndsItems /\ AllInstalled
  BY <1>14 DEF RemovesManifest
<1>15. ASSUME SaveEnds
      PROVE  conf'.wait > conf.wait /\ conf'.wait = Week => EndsItems /\ AllInstalled
  BY <1>15 DEF SaveEnds
<1>16. ASSUME Accepts
      PROVE  conf'.wait > conf.wait /\ conf'.wait = Week => EndsItems /\ AllInstalled
  BY <1>16 DEF Accepts
<1>17. ASSUME Declines
      PROVE  conf'.wait > conf.wait /\ conf'.wait = Week => EndsItems /\ AllInstalled
  BY <1>17 DEF Declines, SavesAs
<1>18. ASSUME Quits
      PROVE  conf'.wait > conf.wait /\ conf'.wait = Week => EndsItems /\ AllInstalled
  BY <1>18 DEF Quits, SavesAs
<1>19. ASSUME Crashes
      PROVE  conf'.wait > conf.wait /\ conf'.wait = Week => EndsItems /\ AllInstalled
  BY <1>19 DEF Crashes, Fault
<1>20. ASSUME DayPasses
      PROVE  conf'.wait > conf.wait /\ conf'.wait = Week => EndsItems /\ AllInstalled
  BY <1>20 DEF DayPasses, OneDayLess
<1>21. ASSUME Publishes
      PROVE  conf'.wait > conf.wait /\ conf'.wait = Week => EndsItems /\ AllInstalled
  BY <1>21 DEF Publishes
<1>22. ASSUME UNCHANGED vars
       PROVE  conf'.wait > conf.wait /\ conf'.wait = Week => EndsItems /\ AllInstalled
  BY <1>22 DEF vars
<1>23. QED
  BY <1>1, <1>2, <1>3, <1>4, <1>5, <1>6, <1>7, <1>8, <1>9, <1>10, <1>11, <1>12,
     <1>13, <1>14, <1>15, <1>16, <1>17, <1>18, <1>19, <1>20, <1>21, <1>22
     DEF Next, Program, Checking, Performing

\* An update is put off for a week only if every script that the program can
\* run is there, with the content that the manifest lists.
THEOREM PostponesOnlyCurrent == Spec => PostponedWhenCurrent
<1>1. UpdateInv /\ [Next]_vars =>
        [conf'.wait > conf.wait /\ conf'.wait = Week =>
           \A f \in Supported : disk'[f] = manifest]_vars
  <2> SUFFICES ASSUME UpdateInv, [Next]_vars, conf'.wait > conf.wait, conf'.wait = Week,
                      NEW f \in Supported
               PROVE  disk'[f] = manifest
    OBVIOUS
  <2>1. EndsItems /\ AllInstalled
    BY PostponesLate
  <2>2. Pending = {} /\ InItems /\ disk' = disk
    BY <2>1 DEF EndsItems, Pending, InItems, scripts
  <2>3. updated + Cardinality(Pending) = count
    BY <2>1, <2>2, FS_EmptySet DEF AllInstalled, UpdateInv, UpdateTypeOK
  <2>4. QED
    BY <2>2, <2>3 DEF UpdateInv, SkipsNone
<1>2. QED
  BY <1>1, UpdateInvariant, PTL DEF Spec, PostponedWhenCurrent
===============================================================================

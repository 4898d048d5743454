SPECIFICATION FairSpec
CONSTANTS
  Files = {tlv, emv, new}
  TooNew = {new}
  MaxRelease = 2
  MaxFaults = 2
  Absent = Absent
  Junk = Junk
  Nobody = Nobody
INVARIANTS OnlyAuthentic MissingIsDue AsksWhenAnnounced
PROPERTIES PostponedWhenCurrent UpdatesArrive

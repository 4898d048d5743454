SPECIFICATION Spec
CONSTANTS
  First = AtrScript
  Second = EmvScript
  Config = ConfigFile
  Version = VersionFile
  MaxRelease = 3
  MaxSettings = 2
  MaxFaults = 1
INVARIANT UpToDateWhenSaid

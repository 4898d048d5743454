SPECIFICATION FairSpec
CONSTANTS
  First = AtrScript
  Second = EmvScript
  Config = ConfigFile
  Version = VersionFile
  MaxRelease = 3
  MaxSettings = 2
  MaxFaults = 2
INVARIANTS UpToDateIsInstalled SettingKept
PROPERTIES InstallArrives

SPECIFICATION FairSpec
CONSTANTS
  Size = 3
  Transfers <- TransfersMC
  NoBuffer = NoBuffer
  NoFile = NoFile
  Partial = Partial
  Nothing = Nothing
  NoJob = NoJob
  Nobody = Nobody
  MaxVersions = 3
  Failures = {"open", "write", "rename"}
INVARIANTS SavedFileIsSound
PROPERTIES HistoryKept EventuallySaved

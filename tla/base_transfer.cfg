SPECIFICATION Spec
CONSTANTS
  log1 = log1
  log2 = log2
  MaxLen = 3
  Sessions = 1
  File <- Files
  output_log <- Logs
  FileLen <- SameLen
  windowSize = 2
  window_size = 2
  StartSeqs = {9}
  Lossy <- NoPackets
  Replayable <- AllButStartAcks
  Corruptible <- DataPackets
  Unreadable <- NoPackets
  QuietLaunch = FALSE
  MayInterrupt = TRUE
  MayKill = FALSE
  MaxFiles = 2
  OutputDirIsCwd = TRUE
  OpenFaults = FALSE
  WriteFaults = FALSE
  MaxRestarts = 0
CHECK_DEADLOCK FALSE
INVARIANTS TypeOK AckedIsStored UnstoredIsKept EndMeansComplete WindowNeverUnderflows WindowIsContiguous
PROPERTY ImplementsReliable

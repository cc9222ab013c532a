SPECIFICATION Spec
CONSTANTS
  log1 = log1
  log2 = log2
  MaxLen = 2
  Sessions = 2
  File <- Files
  output_log <- Logs
  FileLen <- SameLen
  windowSize = 2
  window_size = 2
  StartSeqs = {9}
  Lossy <- NoPackets
  Replayable <- AllPackets
  Corruptible <- NoPackets
  Unreadable <- NoPackets
  QuietLaunch = FALSE
  MayInterrupt = FALSE
  MayKill = FALSE
  MaxFiles = 2
  OutputDirIsCwd = TRUE
  OpenFaults = TRUE
  WriteFaults = FALSE
  MaxRestarts = 0
CHECK_DEADLOCK FALSE
INVARIANT FilesHaveNoGaps
PROPERTY FilesOnlyGrow

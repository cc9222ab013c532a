SPECIFICATION Spec
CONSTANTS
  log1 = log1
  log2 = log2
  MaxLen = 1
  Sessions = 2
  File <- Files
  output_log <- Logs
  FileLen <- SameLen
  windowSize = 1
  window_size = 1
  StartSeqs = {9}
  Lossy <- NoPackets
  Replayable <- NoPackets
  Corruptible <- NoPackets
  Unreadable <- NoPackets
  QuietLaunch = TRUE
  MayInterrupt = FALSE
  MayKill = FALSE
  MaxFiles = 2
  OutputDirIsCwd = FALSE
  OpenFaults = FALSE
  WriteFaults = FALSE
  MaxRestarts = 1
CHECK_DEADLOCK FALSE
INVARIANT FilesAreUnmixed

SPECIFICATION FairSpec
CONSTANTS
  log1 = log1
  log2 = log2
  MaxLen = 3
  Sessions = 1
  File <- Files
  output_log <- Logs
  FileLen <- SameLen
  windowSize = 3
  window_size = 2
  StartSeqs = {9}
  Lossy <- AllButAcks
  Replayable <- NoPackets
  Corruptible <- NoPackets
  Unreadable <- NoPackets
  QuietLaunch = FALSE
  MayInterrupt = FALSE
  MayKill = FALSE
  MaxFiles = 1
  OutputDirIsCwd = TRUE
  OpenFaults = FALSE
  WriteFaults = FALSE
  MaxRestarts = 0
  Timeout = 2
  Late = 1
CHECK_DEADLOCK FALSE
PROPERTY TransferCompletes

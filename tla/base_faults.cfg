SPECIFICATION Spec
CONSTANTS
  log1 = log1
  log2 = log2
  MaxLen = 2
  Sessions = 2
  File <- Files
  output_log <- Logs
  FileLen <- SameLen
  windowSize = 2
  window_size = 2
  StartSeqs = {8, 9}
  Lossy <- AllPackets
  Replayable <- DataPackets
  Corruptible <- DataAcks
  Unreadable <- Log1
  QuietLaunch = TRUE
  MayInterrupt = TRUE
  MayKill = TRUE
  MaxFiles = 2
  OutputDirIsCwd = TRUE
  OpenFaults = FALSE
  WriteFaults = TRUE
  MaxRestarts = 1
CHECK_DEADLOCK FALSE
INVARIANTS FilesInOrder ConnectionIsOwn FileIsOwn

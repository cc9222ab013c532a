SPECIFICATION FairSpec
CONSTANTS
  in1 = in1
  in2 = in2
  MaxLen = 2
  Sessions = 1
  File <- Files
  input_file <- Inputs
  FileLen <- SameLen
  windowSize = 2
  window_size = 2
  StartSeqs = {9}
  Lossy <- AllButStartAcks
  Replayable <- NoPackets
  Corruptible <- DataAcks
  Unreadable <- NoPackets
  QuietLaunch = FALSE
  MayInterrupt = FALSE
  MaxFiles = 1
  OutputDirIsCwd = TRUE
  Timeout = 3
  Late = 1
CHECK_DEADLOCK FALSE
INVARIANTS SleepIsBounded ResentInTime
PROPERTY TransferCompletes

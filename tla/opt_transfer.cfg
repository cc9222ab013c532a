SPECIFICATION Spec
CONSTANTS
  in1 = in1
  in2 = in2
  MaxLen = 3
  Sessions = 2
  File <- Files
  input_file <- Inputs
  FileLen <- SameLen
  windowSize = 2
  window_size = 2
  StartSeqs = {9}
  Lossy <- AllPackets
  Replayable <- AllPackets
  Corruptible <- DataPackets
  Unreadable <- NoPackets
  QuietLaunch = TRUE
  MayInterrupt = FALSE
  MaxFiles = 2
  OutputDirIsCwd = TRUE
CHECK_DEADLOCK FALSE
INVARIANTS TypeOK AckedIsReceived WindowIsOutstanding KeptWithinWindow
PROPERTY ImplementsReliable

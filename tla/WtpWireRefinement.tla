------------------------- MODULE WtpWireRefinement -------------------------
(***************************************************************************)
(* The transfer on the wire compared with that of BaseTransfer: a datagram *)
(* is the packet that its receiver reads, with the chunk of the file its   *)
(* number stands for, and intact if it carries that chunk.                 *)
(***************************************************************************)
EXTENDS WtpWire

CONSTANT Sent   \* the file whose transfer is compared

Chunks(f) == (Len(f) + CHUNK_SIZE - 1) \div CHUNK_SIZE
ChunkOf(f, n) == SubSeq(f, n * CHUNK_SIZE + 1, Min({(n + 1) * CHUNK_SIZE, Len(f)}))

(* Data numbers do not overflow, and START's is none of them.              *)
ASSUME SentAssumption ==
  /\ Sent \in Contents
  /\ Chunks(Sent) < 2^30
  /\ \A r \in StartSeqs, n \in 0..Chunks(Sent) : r # Bits(n)

(* START's number r stands for one above the data numbers.                 *)
StartNumber == Chunks(Sent) + 1
SeqNumber(r, w) ==
  IF w = r THEN StartNumber ELSE CHOOSE n \in 0..Chunks(Sent) : Bits(n) = w

AsPacket(r, p) ==
  LET seq == SeqNumber(r, p.seqNum) IN
  CASE p.type = START -> [type |-> "START", seq |-> seq, intact |-> TRUE]
    [] p.type = END -> [type |-> "END", seq |-> seq, intact |-> TRUE]
    [] p.type = ACK -> [type |-> "ACK", seq |-> seq, intact |-> isAckValid(p)]
    [] p.type = DATA -> [type |-> "DATA", seq |-> seq,
                         data |-> [of |-> Sent, idx |-> seq],
                         intact |-> p.data = ChunkOf(Sent, seq)]

AsWindow(r, w) == [i \in DOMAIN w |-> AsPacket(r, w[i])]
Received(r, d) == IF d = <<>> THEN {} ELSE {AsPacket(r, Packet1(d))}
Answers(r, d) == IF d = <<>> THEN {} ELSE {AsPacket(r, receiveAck(d))}

(* The chunks that the bytes written are. *)
AsChunks(bytes) ==
  [k \in 1..Chunks(bytes) |->
     [of |-> Sent, idx |-> IF ChunkOf(bytes, k - 1) = ChunkOf(Sent, k - 1)
                             THEN k - 1 ELSE Chunks(Sent)]]

Packets == INSTANCE BaseTransfer WITH
  File <- {Sent}, Lossy <- {}, Replayable <- {},
  Corruptible <- [type : {"DATA"}, seq : Nat,
                  data : [of : {Sent}, idx : Nat], intact : {TRUE}],
  windowSize <- 1, StartSeqs <- {StartNumber}, Sessions <- 1,
  output_log <- <<Sent>>, FileLen <- [f \in {Sent} |-> Chunks(f)],
  Unreadable <- {}, QuietLaunch <- FALSE, MayInterrupt <- FALSE, MayKill <- FALSE,
  window_size <- 1, MaxFiles <- 1, OutputDirIsCwd <- TRUE,
  OpenFaults <- FALSE, WriteFaults <- FALSE, MaxRestarts <- 0,
  session <- IF phase = "idle" THEN 0 ELSE 1,
  randSeqNum <- IF phase = "idle" THEN 0 ELSE StartNumber,
  window <- AsWindow(randSeqNum, window),
  offset <- dataSeqNum,
  counter <- IF startACK = {} THEN -1 ELSE 0,
  startACK <- IF startACK = {} THEN 0 ELSE SeqNumber(randSeqNum, startACK),
  receivedPackets <- <<>>,
  files <- [i \in {-1, 0} |-> IF i = 0 THEN AsChunks(output) ELSE <<>>],
  restarts <- 0,
  toReceiver <- Received(randSeqNum, toReceiver),
  toSender <- Answers(randSeqNum, toSender)

(* The transfer on the wire of the file Sent implements BaseTransfer.      *)
ImplementsPackets ==
  /\ file = Sent => Packets!Init
  /\ [][file = Sent => [Packets!Next]_(Packets!vars)]_vars
===========================================================================

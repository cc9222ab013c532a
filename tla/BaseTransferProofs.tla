------------------------ MODULE BaseTransferProofs ------------------------
(***************************************************************************)
(* Proofs about BaseTransfer, for any files, windows, numbers of sessions, *)
(* connections and restarts, and for any network: types, the sender's      *)
(* window, and the output files, which are in order, without gaps, and     *)
(* only grow.                                                              *)
(*                                                                         *)
(* A file is safe because a chunk and its number never part on the way     *)
(* from the sender's buffer to the disk (ChunksKeepNumbers), because       *)
(* next_seq, which only moves with the file, is the number of the chunk    *)
(* written, and because the file a connection starts with is empty: START  *)
(* truncates it, or no connection had that index before.                   *)
(* All of this holds of a sender with a clock too (ImplementsUntimed).     *)
(***************************************************************************)
EXTENDS BaseTimers, WtpNetworkProofs

---------------------------------------------------------------------------
(* An answer of recvfrom is a packet and nothing new is in flight. *)
LEMMA ReceivedPacket ==
  ASSUME NetworkTypeOK, NEW p, receiveAck(p)
  PROVE  p \in Packet /\ toSender' \subseteq toSender
<1>1. noPacket \in Packet /\ zeroPacket \in Packet
  BY BuiltPackets DEF noPacket, zeroPacket, Packet, ControlPacket
<1>2. p \in toSender => p \in Packet
  BY DEF NetworkTypeOK
<1>3. toSender' \in Remaining(p, toSender) => toSender' \subseteq toSender
  BY RemainingSubset
<1> QED
  BY <1>1, <1>2, <1>3 DEF receiveAck

---------------------------------------------------------------------------
(* Type correctness, one lemma for each part of Next. *)

(* Windows are sequences of packets however they are cut and extended. *)
LEMMA WindowTypes ==
  ASSUME SenderTypeOK
  PROVE  /\ \A p \in Packet : Append(window, p) \in Seq(Packet)
         /\ \A n \in Nat : removeAcknowledgedPackets(n) \in Seq(Packet)
         /\ Range(window) \subseteq Packet
<1>1. window \in Seq(Packet) /\ Len(window) \in Nat
  BY LenProperties DEF SenderTypeOK
<1>2. \A i \in 1..Len(window) : window[i] \in Packet
  BY <1>1, ElementOfSeq
<1>3. \A p \in Packet : Append(window, p) \in Seq(Packet)
  BY <1>1, AppendProperties
<1>4. ASSUME NEW n \in Nat
      PROVE  removeAcknowledgedPackets(n) \in Seq(Packet)
  <2>1. \A i \in (n + 1)..Len(window) : window[i] \in Packet
    BY <1>1, <1>2
  <2> QED
    BY <1>1, <2>1, SubSeqProperties DEF removeAcknowledgedPackets
<1>5. Range(window) \subseteq Packet
  BY <1>1, <1>2, LenProperties DEF Range
<1> QED
  BY <1>3, <1>4, <1>5

(* The sender waits for an ACK only with a packet in its window, so the    *)
(* front it compares the ACK with exists.                                  *)
LEMMA FrontExists ==
  ASSUME SenderTypeOK, AwaitsAck
  PROVE  window # <<>> /\ getNextSeqNum \in Nat
<1>1. window \in Seq(Packet) /\ Len(window) \in Nat
  BY LenProperties DEF SenderTypeOK
<1>2. window # <<>>
  <2>1. CASE offset < FileLen[SentFile]
    <3>1. ~(Len(window) < windowSize)
      BY <2>1 DEF AwaitsAck, CanSend, canAddPacket
    <3> QED
      BY <1>1, <3>1, SenderAssumption, EmptySeq DEF SenderAssumption
  <2>2. CASE hasUnacknowledgedPackets
    BY <2>2 DEF hasUnacknowledgedPackets
  <2> QED
    BY <2>1, <2>2 DEF AwaitsAck
<1>3. Head(window) \in Packet
  BY <1>1, <1>2, HeadTailProperties
<1> QED
  BY <1>2, <1>3, PacketFields DEF getNextSeqNum

(* A started sender has a file to send. *)
LEMMA SentFileExists ==
  ASSUME SenderTypeOK, phase # "idle"
  PROVE  SentFile \in File /\ FileLen[SentFile] \in Nat
BY SenderAssumption DEF SenderTypeOK, SentFile, SenderAssumption

(* No step of wSender, or of its user, leaves TypeOK. *)
LEMMA SenderKeepsTypes ==
  ASSUME TypeOK, SenderStep, UNCHANGED receiverVars
  PROVE  TypeOK'
<1> USE DEF TypeOK
<1>0. ReceiverTypeOK'
  BY DEF ReceiverTypeOK, receiverVars
<1>1. CASE Launch
  <2>1. session' \in 1..Sessions /\ session' \in 0..Sessions
    BY <1>1, SenderAssumption DEF Launch, SenderTypeOK, SenderAssumption
  <2>2. PICK r \in StartSeqs : /\ randSeqNum' = r
                               /\ toReceiver' = toReceiver \cup {StartPacket(r)}
                               /\ window' = <<StartPacket(r)>>
    BY <1>1 DEF Launch, sendPacket
  <2>3. r \in Nat /\ StartPacket(r) \in Packet
    BY BuiltPackets, SenderAssumption DEF SenderAssumption
  <2>4. window' \in Seq(Packet)
    BY <2>2, <2>3
  <2> QED
    BY <1>0, <1>1, <2>1, <2>2, <2>3, <2>4
    DEF Launch, SenderTypeOK, NetworkTypeOK, Running
<1>2. CASE OpenFile
  BY <1>0, <1>2 DEF OpenFile, SenderTypeOK, NetworkTypeOK, Running, Stopped, networkVars
<1>3. CASE SendData
  <2>1. DataPacketOf(SentFile, offset) \in Packet
    BY <1>3, SentFileExists, BuiltPackets DEF SendData, SenderTypeOK
  <2>2. Append(window, DataPacketOf(SentFile, offset)) \in Seq(Packet)
    BY <2>1, WindowTypes
  <2>3. offset + 1 \in Nat
    BY DEF SenderTypeOK
  <2> QED
    BY <1>0, <1>3, <2>1, <2>2, <2>3
    DEF SendData, sendPacket, SenderTypeOK, NetworkTypeOK
<1>4. CASE EndConnection
  <2>1. EndPacket(randSeqNum) \in Packet
    BY BuiltPackets DEF SenderTypeOK
  <2> QED
    BY <1>0, <1>4, <2>1, WindowTypes
    DEF EndConnection, sendPacket, SenderTypeOK, NetworkTypeOK, Running
<1>5. CASE \E p \in Received : SenderReceives(p)
  <2>1. PICK p \in Received : SenderReceives(p)
    BY <1>5
  <2>2. receiveAck(p)
    BY <2>1 DEF SenderReceives, StartAcked, StartRetried, RetransmitWindow,
                AdvanceWindow, IgnoreAck, FinishConnection
  <2>3. p \in Packet /\ toSender' \subseteq Packet
    BY <2>2, ReceivedPacket DEF NetworkTypeOK
  <2>4. CASE StartAcked(p)
    <3>1. window' \in Seq(Packet)
      BY <2>4, WindowTypes DEF StartAcked
    <3> QED
      BY <1>0, <2>3, <2>4, <3>1 DEF StartAcked, SenderTypeOK, NetworkTypeOK, Running
  <2>5. CASE StartRetried(p)
    <3>1. StartPacket(randSeqNum) \in Packet
      BY BuiltPackets DEF SenderTypeOK
    <3> QED
      BY <1>0, <2>3, <2>5, <3>1
      DEF StartRetried, sendPacket, SenderTypeOK, NetworkTypeOK, Running
  <2>6. CASE RetransmitWindow(p)
    BY <1>0, <2>3, <2>6, WindowTypes
    DEF RetransmitWindow, SenderTypeOK, NetworkTypeOK, senderVars
  <2>7. CASE AdvanceWindow(p)
    <3>1. p.seq - getNextSeqNum \in Nat
      BY <2>3, <2>7, FrontExists, PacketFields DEF AdvanceWindow, Acknowledges
    <3>2. \/ /\ window' = removeAcknowledgedPackets(p.seq - getNextSeqNum)
             /\ phase' = phase
          \/ window' = <<>> /\ phase' = "undefined"
      BY <2>7 DEF AdvanceWindow
    <3>3. removeAcknowledgedPackets(p.seq - getNextSeqNum) \in Seq(Packet)
      BY <3>1, WindowTypes
    <3>4. window' \in Seq(Packet) /\ phase' \in {phase, "undefined"}
      BY <3>2, <3>3, EmptySeq
    <3> QED
      BY <1>0, <2>3, <2>7, <3>4
      DEF AdvanceWindow, AwaitsAck, SenderTypeOK, NetworkTypeOK, Running, Stopped
  <2>8. CASE IgnoreAck(p)
    BY <1>0, <2>3, <2>8 DEF IgnoreAck, SenderTypeOK, NetworkTypeOK, senderVars
  <2>9. CASE FinishConnection(p)
    <3>1. EndPacket(randSeqNum) \in Packet
      BY BuiltPackets DEF SenderTypeOK
    <3>2. toReceiver' \subseteq Packet
      BY <2>9, <3>1 DEF FinishConnection, sendPacket, NetworkTypeOK
    <3> QED
      BY <1>0, <2>3, <2>9, <3>2
      DEF FinishConnection, SenderTypeOK, NetworkTypeOK, Running, Stopped
  <2> QED
    BY <2>1, <2>4, <2>5, <2>6, <2>7, <2>8, <2>9 DEF SenderReceives
<1>6. CASE Kill
  BY <1>0, <1>6 DEF Kill, SenderTypeOK, NetworkTypeOK, Running, Stopped, networkVars
<1> QED
  BY <1>1, <1>2, <1>3, <1>4, <1>5, <1>6 DEF SenderStep, SenderLocal

(* A chunk stored under a number leaves a map from numbers to chunks. *)
LEMMA StoredTypes ==
  ASSUME ReceiverTypeOK, NEW p \in Packet, p.type = "DATA"
  PROVE  /\ DOMAIN Stored(p) = DOMAIN receivedPackets \cup {p.seq}
         /\ DOMAIN Stored(p) \subseteq Nat
         /\ \A n \in DOMAIN Stored(p) : Stored(p)[n] \in Chunk
         /\ Stored(p)[p.seq] = p.data
<1>1. p.seq \in Nat /\ p.data \in Chunk
  BY PacketFields
<1> QED
  BY <1>1 DEF Stored, ReceiverTypeOK

(* No turn of wReceiver's loop, and no restart, leaves TypeOK. *)
LEMMA ReceiverKeepsTypes ==
  ASSUME TypeOK, ReceiverStep, UNCHANGED senderVars
  PROVE  TypeOK'
<1> USE DEF TypeOK
<1>0. SenderTypeOK'
  BY DEF SenderTypeOK, senderVars
<1>1. CASE Restart
  <2>1. restarts' \in 0..MaxRestarts
    BY <1>1, ReceiverAssumption DEF Restart, ReceiverTypeOK, ReceiverAssumption
  <2>2. -1 \in FileIndex
    BY ReceiverAssumption DEF FileIndex, ReceiverAssumption
  <2>3. /\ receivedPackets' = <<>> /\ DOMAIN receivedPackets' = {}
        /\ files' = files /\ counter' = -1 /\ next_seq' = 0 /\ startACK' = 0
        /\ connection' = FALSE /\ toReceiver' = toReceiver /\ toSender' = toSender
    BY <1>1 DEF Restart, networkVars
  <2>4. ReceiverTypeOK'
    BY <2>1, <2>2, <2>3 DEF ReceiverTypeOK
  <2> QED
    BY <1>0, <2>3, <2>4 DEF NetworkTypeOK
<1>2. CASE \E p \in toReceiver : ReceiverHandles(p)
  <2>1. PICK p \in toReceiver : ReceiverHandles(p)
    BY <1>2
  <2>2. p \in Packet /\ p.seq \in Nat
    BY PacketFields DEF NetworkTypeOK
  <2>3. toReceiver' \subseteq Packet
    BY <2>1, RemainingSubset
    DEF ReceiverHandles, StartIgnored, StartAccepted, EndReceived, DataDropped,
        DataBuffered, DataWritten, receive, NetworkTypeOK
  <2>4. ASSUME NEW n \in Nat, sendAck(n)
        PROVE  toSender' \subseteq Packet
    BY <2>4, BuiltPackets DEF sendAck, NetworkTypeOK
  <2>5. CASE StartIgnored(p)
    BY <1>0, <2>3, <2>5 DEF StartIgnored, ReceiverTypeOK, NetworkTypeOK, receiverVars
  <2>6. CASE StartAccepted(p)
    <3>1. counter + 1 \in FileIndex
      BY <2>6, ReceiverAssumption
      DEF StartAccepted, ReceiverTypeOK, FileIndex, ReceiverAssumption
    <3>2. files' \in [FileIndex -> Seq(Chunk)]
      <4>1. \/ files' = files
            \/ files' = [files EXCEPT ![counter + 1] = <<>>]
        BY <2>6 DEF StartAccepted, openOutput
      <4> QED
        BY <4>1, EmptySeq DEF ReceiverTypeOK
    <3> QED
      BY <1>0, <2>2, <2>3, <2>4, <2>6, <3>1, <3>2
      DEF StartAccepted, ReceiverTypeOK, NetworkTypeOK
  <2>7. CASE EndReceived(p)
    BY <1>0, <2>3, <2>4, <2>7 DEF EndReceived, ReceiverTypeOK, NetworkTypeOK
  <2>8. CASE DataDropped(p)
    BY <1>0, <2>3, <2>8 DEF DataDropped, ReceiverTypeOK, NetworkTypeOK, receiverVars
  <2>9. CASE DataBuffered(p)
    BY <1>0, <2>2, <2>3, <2>4, <2>9, StoredTypes
    DEF DataBuffered, ReceiverTypeOK, NetworkTypeOK
  <2>10. CASE DataWritten(p)
    <3>1. Stored(p)[next_seq] \in Chunk
      BY <2>2, <2>10, StoredTypes DEF DataWritten
    <3>2. Append(files[counter], Stored(p)[next_seq]) \in Seq(Chunk)
      BY <3>1, AppendProperties DEF ReceiverTypeOK
    <3>3. files' \in [FileIndex -> Seq(Chunk)]
      BY <2>10, <3>2 DEF DataWritten, writeToFile, ReceiverTypeOK
    <3>4. /\ DOMAIN receivedPackets' \subseteq Nat
          /\ \A n \in DOMAIN receivedPackets' : receivedPackets'[n] \in Chunk
      BY <2>2, <2>10, StoredTypes DEF DataWritten, Restrict, ReceiverTypeOK
    <3>5. next_seq + 1 \in Nat
      BY DEF ReceiverTypeOK
    <3> QED
      BY <1>0, <2>3, <2>4, <2>10, <3>3, <3>4, <3>5
      DEF DataWritten, ReceiverTypeOK, NetworkTypeOK
  <2> QED
    BY <2>1, <2>5, <2>6, <2>7, <2>8, <2>9, <2>10 DEF ReceiverHandles
<1> QED
  BY <1>1, <1>2 DEF ReceiverStep

(* Loss and damage leave TypeOK. *)
LEMMA NetworkKeepsTypes ==
  ASSUME TypeOK, NetworkStep, UNCHANGED <<senderVars, receiverVars>>
  PROVE  TypeOK'
<1>1. SenderTypeOK' /\ ReceiverTypeOK'
  BY DEF TypeOK, SenderTypeOK, ReceiverTypeOK, senderVars, receiverVars
<1>2. NetworkTypeOK'
  BY NetworkStaysTyped DEF TypeOK
<1> QED
  BY <1>1, <1>2 DEF TypeOK

(* Every reachable state is well typed: sequence numbers stay natural,     *)
(* windows hold packets, the map and the files hold chunks, the counter    *)
(* names a file.                                                           *)
THEOREM TypeCorrect == Spec => []TypeOK
<1>1. Init => TypeOK
  <2> SUFFICES ASSUME Init PROVE TypeOK
    OBVIOUS
  <2>1. -1 \in FileIndex
    BY ReceiverAssumption DEF FileIndex, ReceiverAssumption
  <2>2. SenderTypeOK
    BY SenderAssumption
    DEF Init, SenderInit, SenderTypeOK, Running, Stopped, SenderAssumption
  <2>3. files \in [FileIndex -> Seq(Chunk)]
    BY DEF Init, ReceiverInit
  <2>4. ReceiverTypeOK
    BY <2>1, <2>3, ReceiverAssumption
    DEF Init, ReceiverInit, ReceiverTypeOK, ReceiverAssumption
  <2>5. NetworkTypeOK
    BY DEF Init, NetworkInit, NetworkTypeOK
  <2> QED
    BY <2>2, <2>4, <2>5 DEF TypeOK
<1>2. TypeOK /\ [Next]_vars => TypeOK'
  <2> SUFFICES ASSUME TypeOK, [Next]_vars PROVE TypeOK'
    OBVIOUS
  <2>1. CASE UNCHANGED vars
    BY <2>1 DEF vars, TypeOK, SenderTypeOK, ReceiverTypeOK, NetworkTypeOK,
                senderVars, receiverVars, networkVars
  <2> QED
    BY <2>1, SenderKeepsTypes, ReceiverKeepsTypes, NetworkKeepsTypes DEF Next
<1> QED
  BY <1>1, <1>2, PTL DEF Spec

---------------------------------------------------------------------------
(* The sender's window, whatever ACKs arrive.                              *)
(*                                                                         *)
(* sendData turns a number in an ACK into a count of packets to pop.  That *)
(* is meaningful only while the window is a run of consecutive chunks that *)
(* ends at offset, which must hold from the moment startConnection returns *)
(* (WindowStarts) and through every ACK, stale, repeated or damaged.       *)

(* Until the data phase begins the window holds START at most, and START   *)
(* can only have left it in answer to the ACK startConnection waits for.   *)
WindowStarts ==
  /\ phase = "start" => window = <<StartPacket(randSeqNum)>>
  /\ phase = "open" => window = <<>> \/ window = <<StartPacket(randSeqNum)>>
  /\ phase \in {"start", "open"} => offset = 0

WindowInv == WindowStarts /\ WindowIsContiguous

(* A window of one START, or none, is contiguous for any window size. *)
LEMMA ShortWindows ==
  ASSUME NEW r \in Nat
  PROVE  /\ Len(<<StartPacket(r)>>) = 1 /\ <<StartPacket(r)>>[1].type = "START"
         /\ DOMAIN <<StartPacket(r)>> = {1}
         /\ Len(<<>>) = 0 /\ DOMAIN <<>> = {}
         /\ 1 <= windowSize
<1>1. windowSize \in Nat \ {0}
  BY SenderAssumption DEF SenderAssumption
<1>2. Len(<<StartPacket(r)>>) = 1 /\ <<StartPacket(r)>>[1].type = "START"
  BY DEF StartPacket
<1>3. DOMAIN <<StartPacket(r)>> = {1}
  OBVIOUS
<1>4. Len(<<>>) = 0 /\ DOMAIN <<>> = {}
  OBVIOUS
<1> QED
  BY <1>1, <1>2, <1>3, <1>4

(* One step of wSender keeps the window contiguous. *)
LEMMA SenderKeepsWindow ==
  ASSUME TypeOK, WindowInv, SenderStep
  PROVE  WindowInv'
<1> DEFINE n == Len(window)
           Contiguous(i) ==
             \/ i = 1 /\ window[i].type = "START"
             \/ window[i] = DataPacketOf(SentFile, offset - Len(window) + i - 1)
<1>0. /\ window \in Seq(Packet) /\ n \in Nat /\ DOMAIN window = 1..n
      /\ offset \in Nat /\ randSeqNum \in Nat /\ windowSize \in Nat \ {0}
  BY LenProperties, SenderAssumption DEF TypeOK, SenderTypeOK, SenderAssumption
<1>1. phase = "data" => n <= windowSize /\ \A i \in 1..n : Contiguous(i)
  BY <1>0 DEF WindowInv, WindowIsContiguous
<1>2. CASE phase' \notin {"start", "open", "data"}
  BY <1>2 DEF WindowInv, WindowStarts, WindowIsContiguous
<1>3. CASE Launch
  BY <1>3 DEF Launch, sendPacket, WindowInv, WindowStarts, WindowIsContiguous
<1>4. CASE OpenFile
  <2>1. /\ phase = "open" /\ phase' \in {"failed", "data"}
        /\ window' = window /\ offset' = offset /\ session' = session
    BY <1>4 DEF OpenFile
  <2>2. window = <<>> \/ window = <<StartPacket(randSeqNum)>>
    BY <2>1 DEF WindowInv, WindowStarts
  <2>3. Len(window) <= windowSize
        /\ \A i \in DOMAIN window : i = 1 /\ window[i].type = "START"
    BY <1>0, <2>2, ShortWindows
  <2> QED
    BY <2>1, <2>3 DEF WindowInv, WindowStarts, WindowIsContiguous
<1>5. CASE SendData
  <2>1. /\ phase = "data" /\ phase' = "data" /\ offset' = offset + 1
        /\ n < windowSize /\ SentFile' = SentFile
        /\ window' = Append(window, DataPacketOf(SentFile, offset))
    BY <1>5 DEF SendData, CanSend, canAddPacket, SentFile
  <2>2. DataPacketOf(SentFile, offset) \in Packet
    BY <1>5, SentFileExists, BuiltPackets DEF SendData, SenderTypeOK, TypeOK
  <2>3. /\ Len(window') = n + 1 /\ DOMAIN window' = 1..(n + 1)
        /\ \A i \in 1..n : window'[i] = window[i]
        /\ window'[n + 1] = DataPacketOf(SentFile, offset)
    <3>1. Append(window, DataPacketOf(SentFile, offset)) \in Seq(Packet)
      BY <1>0, <2>2, AppendProperties
    <3> QED
      BY <1>0, <2>1, <2>2, <3>1, AppendProperties, LenProperties
  <2>4. ASSUME NEW i \in 1..(n + 1)
        PROVE  \/ i = 1 /\ window'[i].type = "START"
               \/ window'[i] =
                    DataPacketOf(SentFile, (offset + 1) - (n + 1) + i - 1)
    <3>1. (offset + 1) - (n + 1) + i - 1 = offset - n + i - 1
      BY <1>0
    <3>2. CASE i = n + 1
      <4>1. offset - n + i - 1 = offset
        BY <1>0, <3>2
      <4> QED
        BY <2>3, <3>1, <3>2, <4>1
    <3>3. CASE i # n + 1
      <4>1. i \in 1..n
        BY <1>0, <3>3
      <4>2. Contiguous(i)
        BY <1>1, <2>1, <4>1
      <4> QED
        BY <2>3, <3>1, <4>1, <4>2
    <3> QED
      BY <3>2, <3>3
  <2>5. n + 1 <= windowSize
    BY <1>0, <2>1
  <2> QED
    BY <2>1, <2>3, <2>4, <2>5 DEF WindowInv, WindowStarts, WindowIsContiguous
<1>6. CASE \E p \in Received : SenderReceives(p)
  <2>1. PICK p \in Received : SenderReceives(p)
    BY <1>6
  <2>2. CASE StartAcked(p)
    <3>1. /\ phase = "start" /\ phase' = "open" /\ offset' = offset
          /\ window' = SubSeq(window, 2, Len(window))
      BY <2>2 DEF StartAcked, removeAcknowledgedPackets
    <3>2. window = <<StartPacket(randSeqNum)>> /\ offset = 0 /\ Len(window) = 1
      BY <1>0, <3>1, ShortWindows DEF WindowInv, WindowStarts
    <3>3. window' = <<>>
      BY <3>1, <3>2, SubSeqEmpty
    <3> QED
      BY <3>1, <3>2, <3>3 DEF WindowInv, WindowStarts, WindowIsContiguous
  <2>3. CASE StartRetried(p)
    BY <2>3 DEF StartRetried, WindowInv, WindowStarts, WindowIsContiguous
  <2>4. CASE RetransmitWindow(p) \/ IgnoreAck(p)
    <3>1. UNCHANGED senderVars /\ SentFile' = SentFile
      BY <2>4 DEF RetransmitWindow, IgnoreAck, senderVars, SentFile
    <3> QED
      BY <3>1 DEF WindowInv, WindowStarts, WindowIsContiguous, senderVars
  <2>5. CASE AdvanceWindow(p)
    <3> DEFINE k == p.seq - getNextSeqNum
    <3>1. p \in Packet
      BY <2>5, ReceivedPacket DEF AdvanceWindow, TypeOK
    <3>2. k \in Nat
      BY <2>5, <3>1, FrontExists, PacketFields DEF AdvanceWindow, Acknowledges, TypeOK
    <3>3. phase = "data" /\ offset' = offset /\ SentFile' = SentFile
      BY <2>5 DEF AdvanceWindow, AwaitsAck, SentFile
    <3>4. CASE phase' = "undefined"
      BY <1>2, <3>4
    <3>5. CASE k <= n /\ window' = removeAcknowledgedPackets(k) /\ phase' = phase
      <4>1. window' = SubSeq(window, k + 1, n)
        BY <3>5 DEF removeAcknowledgedPackets
      <4>2. /\ Len(window') = n - k /\ DOMAIN window' = 1..(n - k)
            /\ \A i \in 1..(n - k) : window'[i] = window[i + k]
        <5> HIDE DEF k
        <5>1. k <= Len(window)
          BY <3>5
        <5> QED
          BY <1>0, <3>2, <4>1, <5>1, CutFront
      <4>3. ASSUME NEW i \in 1..(n - k)
            PROVE  \/ i = 1 /\ window'[i].type = "START"
                   \/ window'[i] = DataPacketOf(SentFile, offset - (n - k) + i - 1)
        <5>1. /\ i + k \in 1..n
              /\ offset - n + (i + k) - 1 = offset - (n - k) + i - 1
              /\ i + k = 1 => i = 1
          BY <1>0, <3>2
        <5>2. Contiguous(i + k)
          BY <1>1, <3>3, <5>1
        <5> QED
          BY <4>2, <5>1, <5>2
      <4>4. n - k <= windowSize
        BY <1>0, <1>1, <3>2, <3>3
      <4> QED
        BY <3>3, <3>5, <4>2, <4>3, <4>4
        DEF WindowInv, WindowStarts, WindowIsContiguous
    <3> QED
      BY <2>5, <3>4, <3>5 DEF AdvanceWindow
  <2>6. CASE FinishConnection(p)
    BY <1>2, <2>6 DEF FinishConnection
  <2> QED
    BY <2>1, <2>2, <2>3, <2>4, <2>5, <2>6 DEF SenderReceives
<1>7. CASE EndConnection \/ Kill
  BY <1>2, <1>7 DEF EndConnection, Kill
<1> QED
  BY <1>3, <1>4, <1>5, <1>6, <1>7 DEF SenderStep, SenderLocal

(* WindowInv holds in every state, whatever ACKs arrive. *)
LEMMA WindowStays == Spec => []WindowInv
<1>1. Init => WindowInv
  BY DEF Init, SenderInit, WindowInv, WindowStarts, WindowIsContiguous
<1>2. TypeOK /\ WindowInv /\ [Next]_vars => WindowInv'
  <2> SUFFICES ASSUME TypeOK, WindowInv, [Next]_vars PROVE WindowInv'
    OBVIOUS
  <2>1. CASE UNCHANGED senderVars
    <3>1. SentFile' = SentFile
      BY <2>1 DEF senderVars, SentFile
    <3> QED
      BY <2>1, <3>1 DEF senderVars, WindowInv, WindowStarts, WindowIsContiguous
  <2>2. CASE SenderStep
    BY <2>2, SenderKeepsWindow
  <2> QED
    BY <2>1, <2>2 DEF Next, vars
<1> QED
  BY <1>1, <1>2, TypeCorrect, PTL DEF Spec

(* In every state the window holds at most windowSize packets: the chunks  *)
(* just before offset, in order, behind START if START was never           *)
(* acknowledged.                                                           *)
THEOREM WindowStaysContiguous == Spec => []WindowIsContiguous
<1>1. WindowInv => WindowIsContiguous
  BY DEF WindowInv
<1> QED
  BY <1>1, WindowStays, PTL

---------------------------------------------------------------------------
(* Chunks and their numbers. *)

KeepsNumber(p) == p.type = "DATA" => p.data.idx = p.seq

(* Every chunk in flight, in the window and in the receiver's map is the   *)
(* chunk its sequence number says.                                         *)
ChunksKeepNumbers ==
  /\ \A p \in toReceiver : KeepsNumber(p)
  /\ \A i \in 1..Len(window) : KeepsNumber(window[i])
  /\ \A n \in DOMAIN receivedPackets : receivedPackets[n].idx = n

(* Nothing is in a file no connection has reached. *)
UnopenedAreEmpty == \A i \in FileIndex : i > counter /\ i >= 0 => files[i] = <<>>

(* The chunks of the current file come before the expected one. *)
NextIsAhead ==
  counter >= 0 =>
    \A k \in 1..Len(files[counter]) : files[counter][k].idx < next_seq

---------------------------------------------------------------------------
(* Chunks keep their numbers. *)

(* What the sender and a damaging network make of packets that keep their  *)
(* numbers keeps them.                                                     *)
LEMMA BuiltKeepNumbers ==
  /\ \A r : KeepsNumber(StartPacket(r)) /\ KeepsNumber(EndPacket(r))
  /\ \A f, n : KeepsNumber(DataPacketOf(f, n))
  /\ \A p \in Packet : KeepsNumber(p) => KeepsNumber(Damaged(p))
<1>1. \A p \in Packet : KeepsNumber(p) => KeepsNumber(Damaged(p))
  BY DEF KeepsNumber, Damaged, Packet, ControlPacket, DataPacket, Chunk
<1> QED
  BY <1>1 DEF KeepsNumber, StartPacket, EndPacket, DataPacketOf

(* No step of wSender puts a chunk under another number. *)
LEMMA SenderKeepsNumbers ==
  ASSUME TypeOK, ChunksKeepNumbers, SenderStep, UNCHANGED receiverVars
  PROVE  ChunksKeepNumbers'
<1> DEFINE WindowKeeps == \A i \in 1..Len(window) : KeepsNumber(window[i])
           NetKeeps == \A p \in toReceiver : KeepsNumber(p)
<1>0. /\ window \in Seq(Packet) /\ Len(window) \in Nat
      /\ WindowKeeps /\ NetKeeps
      /\ receivedPackets' = receivedPackets
  BY LenProperties DEF TypeOK, SenderTypeOK, ChunksKeepNumbers, receiverVars
<1>1. SUFFICES WindowKeeps' /\ NetKeeps'
  BY <1>0 DEF ChunksKeepNumbers
<1>2. ASSUME NEW p \in Packet, KeepsNumber(p), window' = Append(window, p)
      PROVE  WindowKeeps'
  <2>1. /\ Len(window') = Len(window) + 1
        /\ \A i \in 1..Len(window) : window'[i] = window[i]
        /\ window'[Len(window) + 1] = p
    BY <1>0, <1>2, AppendProperties
  <2> QED
    BY <1>0, <1>2, <2>1
<1>3. ASSUME NEW n \in Nat, window' = removeAcknowledgedPackets(n)
      PROVE  WindowKeeps'
  <2>1. \A i \in (n + 1)..Len(window) : window[i] \in Packet
    BY <1>0, ElementOfSeq
  <2>2. /\ Len(window') = IF n + 1 <= Len(window) THEN Len(window) - n ELSE 0
        /\ \A i \in 1..(Len(window) - n) : window'[i] = window[i + n]
    BY <1>0, <1>3, <2>1, SubSeqProperties DEF removeAcknowledgedPackets
  <2> QED
    BY <1>0, <2>2
<1>4. ASSUME window' = <<>> PROVE WindowKeeps'
  BY <1>4, EmptySeq
<1>5. CASE Launch
  <2>1. PICK r \in StartSeqs : /\ toReceiver' = toReceiver \cup {StartPacket(r)}
                               /\ window' = <<StartPacket(r)>>
    BY <1>5 DEF Launch, sendPacket
  <2> QED
    BY <1>0, <2>1, BuiltKeepNumbers
<1>6. CASE SendData
  <2>1. DataPacketOf(SentFile, offset) \in Packet
    BY <1>6, SentFileExists, BuiltPackets DEF SendData, SenderTypeOK, TypeOK
  <2> QED
    BY <1>0, <1>2, <1>6, <2>1, BuiltKeepNumbers DEF SendData, sendPacket
<1>7. CASE EndConnection
  <2>1. EndPacket(randSeqNum) \in Packet
    BY BuiltPackets DEF SenderTypeOK, TypeOK
  <2> QED
    BY <1>0, <1>2, <1>7, <2>1, BuiltKeepNumbers DEF EndConnection, sendPacket
<1>8. CASE OpenFile \/ Kill
  BY <1>0, <1>8 DEF OpenFile, Kill, networkVars
<1>9. CASE \E p \in Received : SenderReceives(p)
  <2>1. PICK p \in Received : SenderReceives(p)
    BY <1>9
  <2>2. CASE StartAcked(p)
    BY <1>0, <1>3, <2>2 DEF StartAcked
  <2>3. CASE StartRetried(p)
    BY <1>0, <2>3, BuiltKeepNumbers DEF StartRetried, sendPacket
  <2>4. CASE RetransmitWindow(p)
    <3>1. \A q \in Range(window) : KeepsNumber(q)
      BY <1>0, LenProperties DEF Range
    <3> QED
      BY <1>0, <2>4, <3>1 DEF RetransmitWindow, senderVars
  <2>5. CASE AdvanceWindow(p)
    <3>1. p \in Packet
      BY <2>5, ReceivedPacket DEF AdvanceWindow, TypeOK
    <3>2. p.seq - getNextSeqNum \in Nat
      BY <2>5, <3>1, FrontExists, PacketFields DEF AdvanceWindow, Acknowledges, TypeOK
    <3>3. \/ window' = removeAcknowledgedPackets(p.seq - getNextSeqNum)
          \/ window' = <<>>
      BY <2>5 DEF AdvanceWindow
    <3> QED
      BY <1>0, <1>3, <1>4, <2>5, <3>2, <3>3 DEF AdvanceWindow
  <2>6. CASE IgnoreAck(p)
    BY <1>0, <2>6 DEF IgnoreAck, senderVars
  <2>7. CASE FinishConnection(p)
    <3>1. toReceiver' \subseteq toReceiver \cup {EndPacket(randSeqNum)}
      BY <2>7 DEF FinishConnection, sendPacket
    <3> QED
      BY <1>0, <2>7, <3>1, BuiltKeepNumbers DEF FinishConnection
  <2> QED
    BY <2>1, <2>2, <2>3, <2>4, <2>5, <2>6, <2>7 DEF SenderReceives
<1> QED
  BY <1>5, <1>6, <1>7, <1>8, <1>9 DEF SenderStep, SenderLocal

(* The receiver's map keeps what it is given under its number. *)
LEMMA ReceiverKeepsNumbers ==
  ASSUME TypeOK, ChunksKeepNumbers, ReceiverStep, UNCHANGED senderVars
  PROVE  ChunksKeepNumbers'
<1>0. window' = window
  BY DEF senderVars
<1>1. CASE Restart
  <2>1. receivedPackets' = <<>> /\ DOMAIN receivedPackets' = {} /\ toReceiver' = toReceiver
    BY <1>1 DEF Restart, networkVars
  <2> QED
    BY <1>0, <2>1 DEF ChunksKeepNumbers
<1>2. CASE \E p \in toReceiver : ReceiverHandles(p)
  <2>1. PICK p \in toReceiver : ReceiverHandles(p)
    BY <1>2
  <2>2. toReceiver' \subseteq toReceiver
    BY <2>1, RemainingSubset
    DEF ReceiverHandles, StartIgnored, StartAccepted, EndReceived, DataDropped,
        DataBuffered, DataWritten, receive
  <2>3. p.type = "DATA" =>
          \A n \in DOMAIN Stored(p) : Stored(p)[n].idx = n
    BY DEF Stored, ChunksKeepNumbers, KeepsNumber
  <2>4. \/ receivedPackets' = receivedPackets
        \/ p.type = "DATA" /\ receivedPackets' = Stored(p)
        \/ /\ p.type = "DATA"
           /\ receivedPackets' =
                Restrict(Stored(p), DOMAIN receivedPackets \ {next_seq})
    BY <2>1
    DEF ReceiverHandles, StartIgnored, StartAccepted, EndReceived, DataDropped,
        DataBuffered, DataWritten, receiverVars
  <2>5. DOMAIN Stored(p) = DOMAIN receivedPackets \cup {p.seq}
    BY DEF Stored
  <2>6. \A n \in DOMAIN receivedPackets' : receivedPackets'[n].idx = n
    BY <2>3, <2>4, <2>5 DEF Restrict, ChunksKeepNumbers
  <2> QED
    BY <1>0, <2>2, <2>6 DEF ChunksKeepNumbers
<1> QED
  BY <1>1, <1>2 DEF ReceiverStep

(* Nor does the network part a chunk from its number: damage is seen. *)
LEMMA NetworkKeepsNumbers ==
  ASSUME TypeOK, ChunksKeepNumbers, NetworkStep, UNCHANGED <<senderVars, receiverVars>>
  PROVE  ChunksKeepNumbers'
<1>1. window' = window /\ receivedPackets' = receivedPackets
  BY DEF senderVars, receiverVars
<1>2. \A p \in toReceiver' : \/ p \in toReceiver
                             \/ \E q \in toReceiver : p = Damaged(q)
  BY DEF NetworkStep, Lose, Corrupt
<1>3. \A p \in toReceiver' : KeepsNumber(p)
  BY <1>2, BuiltKeepNumbers DEF TypeOK, NetworkTypeOK, ChunksKeepNumbers
<1> QED
  BY <1>1, <1>3 DEF ChunksKeepNumbers

(* A chunk is never separated from its number on the way to the disk. *)
THEOREM NumbersAreKept == Spec => []ChunksKeepNumbers
<1>1. Init => ChunksKeepNumbers
  BY EmptySeq DEF Init, SenderInit, ReceiverInit, NetworkInit, ChunksKeepNumbers
<1>2. TypeOK /\ ChunksKeepNumbers /\ [Next]_vars => ChunksKeepNumbers'
  <2> SUFFICES ASSUME TypeOK, ChunksKeepNumbers, [Next]_vars
               PROVE  ChunksKeepNumbers'
    OBVIOUS
  <2>1. CASE UNCHANGED vars
    BY <2>1 DEF vars, ChunksKeepNumbers, senderVars, receiverVars, networkVars
  <2> QED
    BY <2>1, SenderKeepsNumbers, ReceiverKeepsNumbers, NetworkKeepsNumbers DEF Next
<1> QED
  BY <1>1, <1>2, TypeCorrect, PTL DEF Spec

---------------------------------------------------------------------------
(* The output files. *)

(* Of all steps, only a START that is accepted, an in-order packet and a   *)
(* restart touch the files, the file index or the number expected next.    *)
LEMMA FileSteps ==
  ASSUME [Next]_vars
  PROVE  \/ files' = files /\ counter' = counter /\ next_seq' = next_seq
         \/ \E p \in toReceiver : StartAccepted(p)
         \/ \E p \in toReceiver : DataWritten(p)
         \/ Restart
<1>1. CASE UNCHANGED receiverVars
  BY <1>1 DEF receiverVars
<1>2. CASE ReceiverStep
  BY <1>2 DEF ReceiverStep, ReceiverHandles, StartIgnored, EndReceived,
              DataDropped, DataBuffered, receiverVars
<1> QED
  BY <1>1, <1>2 DEF Next, vars

(* Restarts are counted. *)
LEMMA RestartsCount ==
  ASSUME TypeOK, [Next]_vars
  PROVE  /\ restarts' = IF Restart THEN restarts + 1 ELSE restarts
         /\ restarts' = 0 => restarts = 0 /\ ~Restart
         /\ FilesBeginEmpty' => FilesBeginEmpty
<1>1. restarts \in Nat
  BY ReceiverAssumption DEF TypeOK, ReceiverTypeOK, ReceiverAssumption
<1>2. restarts' = IF Restart THEN restarts + 1 ELSE restarts
  <2>1. CASE UNCHANGED receiverVars
    BY <1>1, <2>1 DEF receiverVars, Restart
  <2>2. CASE ReceiverStep
    BY <2>2 DEF ReceiverStep, ReceiverHandles, StartIgnored, StartAccepted, EndReceived,
                DataDropped, DataBuffered, DataWritten, receiverVars, Restart
  <2> QED
    BY <2>1, <2>2 DEF Next, vars
<1>3. restarts' = 0 => restarts = 0 /\ ~Restart
  BY <1>1, <1>2
<1> QED
  BY <1>2, <1>3 DEF FilesBeginEmpty, Truncates

(* Until the receiver is restarted a file is reached by one connection. *)
LEMMA UnopenedStayEmpty ==
  ASSUME TypeOK, UnopenedAreEmpty, [Next]_vars, ~Restart
  PROVE  UnopenedAreEmpty'
<1>0. files \in [FileIndex -> Seq(Chunk)] /\ counter \in FileIndex /\ FileIndex \subseteq Int
  BY DEF TypeOK, ReceiverTypeOK, FileIndex
<1>1. CASE files' = files /\ counter' = counter
  BY <1>1 DEF UnopenedAreEmpty
<1>2. CASE \E p \in toReceiver : StartAccepted(p)
  <2>1. /\ counter' = counter + 1
        /\ files' = files \/ files' = [files EXCEPT ![counter + 1] = <<>>]
    BY <1>2 DEF StartAccepted, openOutput
  <2> QED
    BY <1>0, <2>1 DEF UnopenedAreEmpty
<1>3. CASE \E p \in toReceiver : DataWritten(p)
  <2>1. PICK p \in toReceiver : DataWritten(p)
    BY <1>3
  <2>2. counter' = counter /\ \A i \in FileIndex : i # counter => files'[i] = files[i]
    BY <1>0, <2>1 DEF DataWritten, writeToFile
  <2> QED
    BY <1>0, <2>2 DEF UnopenedAreEmpty
<1> QED
  BY <1>1, <1>2, <1>3, FileSteps

(* The file a connection starts with is empty. *)
LEMMA OpenedIsEmpty ==
  ASSUME TypeOK, NEW p, StartAccepted(p), Truncates \/ UnopenedAreEmpty
  PROVE  /\ counter' = counter + 1 /\ counter + 1 \in FileIndex /\ next_seq' = 0
         /\ counter + 1 >= 0
         /\ files'[counter + 1] = <<>>
         /\ \A i \in FileIndex : i # counter + 1 => files'[i] = files[i]
<1>1. files \in [FileIndex -> Seq(Chunk)] /\ counter \in FileIndex
  BY DEF TypeOK, ReceiverTypeOK
<1>2. /\ counter' = counter + 1 /\ next_seq' = 0
      /\ \/ files' = [files EXCEPT ![counter + 1] = <<>>]
         \/ ~Truncates /\ files' = files
      /\ counter + 1 < MaxFiles
  BY DEF StartAccepted, openOutput, Truncates
<1>3. counter + 1 \in FileIndex /\ counter + 1 >= 0 /\ counter + 1 > counter
  BY <1>1, <1>2, ReceiverAssumption DEF FileIndex, ReceiverAssumption
<1>4. CASE files' = [files EXCEPT ![counter + 1] = <<>>]
  BY <1>1, <1>2, <1>3, <1>4
<1>5. CASE ~Truncates /\ files' = files
  BY <1>1, <1>2, <1>3, <1>5 DEF UnopenedAreEmpty
<1> QED
  BY <1>2, <1>3, <1>4, <1>5

(* What is written is the chunk numbered next_seq, at the end of the       *)
(* current file, unless the disk fails.                                    *)
LEMMA WrittenIsNext ==
  ASSUME TypeOK, ChunksKeepNumbers, NEW p \in toReceiver, DataWritten(p)
  PROVE  /\ counter' = counter /\ next_seq' = next_seq + 1
         /\ \A i \in FileIndex : i # counter => files'[i] = files[i]
         /\ \/ \E d \in Chunk : d.idx = next_seq
                                /\ files'[counter] = Append(files[counter], d)
            \/ WriteFaults /\ files'[counter] = files[counter]
<1>0. files \in [FileIndex -> Seq(Chunk)] /\ counter \in FileIndex
  BY DEF TypeOK, ReceiverTypeOK
<1>1. p \in Packet /\ p.type = "DATA" /\ p.seq = next_seq
  BY DEF TypeOK, NetworkTypeOK, DataWritten
<1>2. Stored(p)[next_seq] = p.data /\ p.data \in Chunk /\ p.data.idx = next_seq
  BY <1>1, StoredTypes, PacketFields DEF TypeOK, ChunksKeepNumbers, KeepsNumber
<1>3. \/ files' = [files EXCEPT ![counter] = Append(@, p.data)]
      \/ WriteFaults /\ files' = files
  BY <1>2 DEF DataWritten, writeToFile
<1> QED
  BY <1>0, <1>2, <1>3 DEF DataWritten

OrderInv == AreOrdered /\ NextIsAhead

(* One step keeps the order of the files. *)
LEMMA OrderStep ==
  ASSUME TypeOK, ChunksKeepNumbers, OrderInv, [Next]_vars,
         Truncates \/ UnopenedAreEmpty
  PROVE  OrderInv'
<1>0. /\ files \in [FileIndex -> Seq(Chunk)] /\ counter \in FileIndex
      /\ FileIndex \subseteq Int /\ next_seq \in Nat
  BY DEF TypeOK, ReceiverTypeOK, FileIndex
<1>1. CASE files' = files /\ counter' = counter /\ next_seq' = next_seq
  BY <1>1 DEF OrderInv, AreOrdered, NextIsAhead
<1>2. CASE Restart
  BY <1>2 DEF Restart, OrderInv, AreOrdered, NextIsAhead
<1>3. CASE \E p \in toReceiver : StartAccepted(p)
  <2>1. PICK p \in toReceiver : StartAccepted(p)
    BY <1>3
  <2>2. Len(files'[counter + 1]) = 0
    BY <2>1, OpenedIsEmpty, EmptySeq
  <2>3. /\ counter' = counter + 1 /\ 1..Len(files'[counter + 1]) = {}
        /\ \A i \in FileIndex : i # counter + 1 => files'[i] = files[i]
    BY <2>1, <2>2, OpenedIsEmpty
  <2>4. NextIsAhead'
    BY <2>3 DEF NextIsAhead
  <2>5. AreOrdered'
    BY <1>0, <2>3 DEF OrderInv, AreOrdered
  <2> QED
    BY <2>4, <2>5 DEF OrderInv
<1>4. CASE \E p \in toReceiver : DataWritten(p)
  <2>1. PICK p \in toReceiver : DataWritten(p)
    BY <1>4
  <2>2. /\ files[counter] \in Seq(Chunk) /\ Len(files[counter]) \in Nat
        /\ \A k \in 1..Len(files[counter]) : files[counter][k].idx \in Nat
    <3>1. files[counter] \in Seq(Chunk)
      BY <1>0
    <3>2. \A k \in 1..Len(files[counter]) : files[counter][k] \in Chunk
      BY <3>1, ElementOfSeq
    <3> QED
      BY <3>1, <3>2, LenProperties DEF Chunk
  <2>3. CASE files'[counter] = files[counter]
    <3>1. /\ counter' = counter /\ next_seq' = next_seq + 1
          /\ \A i \in FileIndex : files'[i] = files[i]
      BY <2>1, <2>3, WrittenIsNext
    <3>2. AreOrdered'
      BY <3>1 DEF OrderInv, AreOrdered
    <3>3. counter >= 0 =>
            \A k \in 1..Len(files[counter]) : files[counter][k].idx < next_seq + 1
      BY <1>0, <2>2 DEF OrderInv, NextIsAhead
    <3>4. NextIsAhead'
      BY <2>3, <3>1, <3>3 DEF NextIsAhead
    <3> QED
      BY <3>2, <3>4 DEF OrderInv
  <2>4. CASE \E d \in Chunk : d.idx = next_seq
                              /\ files'[counter] = Append(files[counter], d)
    <3>1. PICK d \in Chunk : d.idx = next_seq
                             /\ files'[counter] = Append(files[counter], d)
      BY <2>4
    <3>2. /\ Len(files'[counter]) = Len(files[counter]) + 1
          /\ \A k \in 1..Len(files[counter]) : files'[counter][k] = files[counter][k]
          /\ files'[counter][Len(files[counter]) + 1] = d
      BY <2>2, <3>1, AppendProperties
    <3>3. NextIsAhead'
      <4>1. counter' = counter /\ next_seq' = next_seq + 1
        BY <2>1, WrittenIsNext
      <4>2. counter >= 0 =>
              \A k \in 1..Len(files[counter]) : files[counter][k].idx < next_seq
        BY DEF OrderInv, NextIsAhead
      <4>3. counter >= 0 =>
              \A k \in 1..Len(files'[counter]) : files'[counter][k].idx < next_seq + 1
        BY <1>0, <2>2, <3>1, <3>2, <4>2
      <4> QED
        BY <4>1, <4>3 DEF NextIsAhead
    <3>4. counter >= 0 => \A j, k \in 1..Len(files'[counter]) :
             j < k => files'[counter][j].idx < files'[counter][k].idx
      BY <1>0, <2>2, <3>1, <3>2 DEF OrderInv, AreOrdered, NextIsAhead
    <3>5. AreOrdered'
      BY <1>0, <2>1, <3>4, WrittenIsNext DEF OrderInv, AreOrdered
    <3> QED
      BY <3>3, <3>5 DEF OrderInv
  <2> QED
    BY <2>1, <2>3, <2>4, WrittenIsNext
<1> QED
  BY <1>1, <1>2, <1>3, <1>4, FileSteps

(* Initially nothing is in any file. *)
LEMMA FilesInit ==
  ASSUME Init
  PROVE  UnopenedAreEmpty /\ OrderInv /\ AreGapless
<1>1. counter = -1 /\ \A i \in FileIndex : files[i] = <<>> /\ Len(files[i]) = 0
  BY EmptySeq DEF Init, ReceiverInit
<1>2. \A i \in FileIndex : 1..Len(files[i]) = {}
  BY <1>1
<1> QED
  BY <1>1, <1>2
  DEF UnopenedAreEmpty, OrderInv, AreOrdered, NextIsAhead, AreGapless

(* Until the receiver is restarted no connection finds anything in its     *)
(* file.                                                                   *)
THEOREM UnopenedRemainEmpty == Spec => [](restarts = 0 => UnopenedAreEmpty)
<1>1. Init => UnopenedAreEmpty
  BY FilesInit
<1>2. TypeOK /\ (restarts = 0 => UnopenedAreEmpty) /\ [Next]_vars
        => (restarts = 0 => UnopenedAreEmpty)'
  BY UnopenedStayEmpty, RestartsCount
<1> QED
  BY <1>1, <1>2, TypeCorrect, PTL DEF Spec

(* So it is in every state of a receiver that is never restarted. *)
COROLLARY UnopenedAreAlwaysEmpty ==
  ASSUME MaxRestarts = 0
  PROVE  Spec => []UnopenedAreEmpty
<1>1. TypeOK => restarts = 0
  BY DEF TypeOK, ReceiverTypeOK
<1> QED
  BY <1>1, TypeCorrect, UnopenedRemainEmpty, PTL

(* As long as START truncates the file that is written, or the receiver    *)
(* has not been restarted, the chunks of every output file stand in file   *)
(* order, none twice, for any number of transfers and however datagrams    *)
(* are lost, repeated, reordered or damaged, senders killed and writes     *)
(* failed.                                                                 *)
THEOREM FilesStayInOrder == Spec => []FilesInOrder
<1>1. Init => (FilesBeginEmpty => OrderInv)
  BY FilesInit
<1>2. (FilesBeginEmpty => OrderInv) => FilesInOrder
  BY DEF OrderInv, FilesInOrder
<1>3. ASSUME TypeOK, ChunksKeepNumbers, [Next]_vars,
             restarts = 0 => UnopenedAreEmpty, FilesBeginEmpty => OrderInv
      PROVE  FilesBeginEmpty' => OrderInv'
  <2> HAVE FilesBeginEmpty'
  <2>1. FilesBeginEmpty
    BY <1>3, RestartsCount
  <2>2. OrderInv /\ (Truncates \/ UnopenedAreEmpty)
    BY <1>3, <2>1 DEF FilesBeginEmpty
  <2> QED
    BY <1>3, <2>2, OrderStep
<1> QED
  BY <1>1, <1>2, <1>3, TypeCorrect, NumbersAreKept, UnopenedRemainEmpty, PTL DEF Spec

---------------------------------------------------------------------------
(* One step leaves no gap in a file when writes do not fail. *)
LEMMA NoGapsStep ==
  ASSUME TypeOK, ChunksKeepNumbers, AreGapless, [Next]_vars, ~WriteFaults,
         Truncates \/ UnopenedAreEmpty
  PROVE  AreGapless'
<1>0. /\ files \in [FileIndex -> Seq(Chunk)] /\ counter \in FileIndex
      /\ FileIndex \subseteq Int /\ next_seq \in Nat
  BY DEF TypeOK, ReceiverTypeOK, FileIndex
<1>1. CASE files' = files /\ counter' = counter /\ next_seq' = next_seq
  BY <1>1 DEF AreGapless
<1>2. CASE Restart
  BY <1>2 DEF Restart, AreGapless
<1>3. CASE \E p \in toReceiver : StartAccepted(p)
  <2>1. PICK p \in toReceiver : StartAccepted(p)
    BY <1>3
  <2>2. Len(files'[counter + 1]) = 0
    BY <2>1, OpenedIsEmpty, EmptySeq
  <2>3. /\ counter' = counter + 1 /\ next_seq' = 0
        /\ 1..Len(files'[counter + 1]) = {}
        /\ \A i \in FileIndex : i # counter + 1 => files'[i] = files[i]
    BY <2>1, <2>2, OpenedIsEmpty
  <2>4. \A i \in FileIndex : i >= 0 =>
          \A k \in 1..Len(files'[i]) : files'[i][k].idx = k - 1
    BY <2>3 DEF AreGapless
  <2> QED
    BY <2>2, <2>3, <2>4 DEF AreGapless
<1>4. CASE \E p \in toReceiver : DataWritten(p)
  <2>1. PICK p \in toReceiver : DataWritten(p)
    BY <1>4
  <2>2. PICK d \in Chunk : d.idx = next_seq
                           /\ files'[counter] = Append(files[counter], d)
    BY <2>1, WrittenIsNext
  <2>3. files[counter] \in Seq(Chunk) /\ Len(files[counter]) \in Nat
    BY <1>0, LenProperties
  <2>4. /\ Len(files'[counter]) = Len(files[counter]) + 1
        /\ \A k \in 1..Len(files[counter]) : files'[counter][k] = files[counter][k]
        /\ files'[counter][Len(files[counter]) + 1] = d
    BY <2>2, <2>3, AppendProperties
  <2>5. counter >= 0 => \A k \in 1..Len(files'[counter]) : files'[counter][k].idx = k - 1
    BY <1>0, <2>2, <2>3, <2>4 DEF AreGapless
  <2>6. /\ counter' = counter /\ next_seq' = next_seq + 1
        /\ \A i \in FileIndex : i # counter => files'[i] = files[i]
    BY <2>1, WrittenIsNext
  <2>7. \A i \in FileIndex : i >= 0 =>
          \A k \in 1..Len(files'[i]) : files'[i][k].idx = k - 1
    BY <2>5, <2>6 DEF AreGapless
  <2>8. counter >= 0 => Len(files'[counter]) = next_seq + 1
    BY <2>4 DEF AreGapless
  <2> QED
    BY <2>6, <2>7, <2>8 DEF AreGapless
<1> QED
  BY <1>1, <1>2, <1>3, <1>4, FileSteps

(* When writes do not fail no chunk is skipped, under the condition of     *)
(* FilesStayInOrder: the k-th chunk of a file is chunk k - 1, and the      *)
(* current file holds exactly next_seq chunks.                             *)
THEOREM FilesStayGapless ==
  ASSUME ~WriteFaults
  PROVE  Spec => []FilesHaveNoGaps
<1>1. Init => (FilesBeginEmpty => AreGapless)
  BY FilesInit
<1>2. ASSUME TypeOK, ChunksKeepNumbers, [Next]_vars,
             restarts = 0 => UnopenedAreEmpty, FilesBeginEmpty => AreGapless
      PROVE  FilesBeginEmpty' => AreGapless'
  <2> HAVE FilesBeginEmpty'
  <2>1. FilesBeginEmpty
    BY <1>2, RestartsCount
  <2>2. AreGapless /\ (Truncates \/ UnopenedAreEmpty)
    BY <1>2, <2>1 DEF FilesBeginEmpty
  <2> QED
    BY <1>2, <2>2, NoGapsStep
<1> QED
  BY <1>1, <1>2, TypeCorrect, NumbersAreKept, UnopenedRemainEmpty, PTL
  DEF Spec, FilesHaveNoGaps

(* Until the receiver is restarted an output file only grows, at its end,  *)
(* and only while it is the current one.                                   *)
THEOREM FilesNeverShrink == Spec => FilesOnlyGrow
<1> DEFINE Grow == \A i \in FileIndex : i >= 0 =>
                     /\ IsPrefix(files[i], files'[i])
                     /\ files'[i] # files[i] => i = counter
<1>1. ASSUME TypeOK, ChunksKeepNumbers, UnopenedAreEmpty, [Next]_vars
      PROVE  Grow
  <2>0. files \in [FileIndex -> Seq(Chunk)] /\ counter \in FileIndex /\ FileIndex \subseteq Int
    BY <1>1 DEF TypeOK, ReceiverTypeOK, FileIndex
  <2>1. \A i \in FileIndex : files[i] \in Seq(Chunk) /\ Len(files[i]) \in Nat
                             /\ IsPrefix(files[i], files[i])
    BY <2>0, LenProperties DEF IsPrefix
  <2>2. CASE files' = files
    BY <2>1, <2>2
  <2>3. CASE Restart
    BY <2>1, <2>3 DEF Restart
  <2>4. CASE \E p \in toReceiver : StartAccepted(p)
    <3>1. PICK p \in toReceiver : StartAccepted(p)
      BY <2>4
    <3>2. files[counter + 1] = <<>>
      BY <1>1, <2>0, <3>1, OpenedIsEmpty DEF UnopenedAreEmpty
    <3>3. \A i \in FileIndex : files'[i] = files[i]
      BY <1>1, <3>1, <3>2, OpenedIsEmpty
    <3> QED
      BY <2>1, <3>3
  <2>5. CASE \E p \in toReceiver : DataWritten(p)
    <3>1. PICK p \in toReceiver : DataWritten(p)
      BY <2>5
    <3>2. \A i \in FileIndex : i # counter => files'[i] = files[i]
      BY <1>1, <3>1, WrittenIsNext
    <3>3. IsPrefix(files[counter], files'[counter])
      <4>1. CASE files'[counter] = files[counter]
        BY <2>0, <2>1, <4>1
      <4>2. ASSUME NEW d \in Chunk, files'[counter] = Append(files[counter], d)
            PROVE  IsPrefix(files[counter], files'[counter])
        <5> DEFINE old == files[counter]
                   new == files'[counter]
        <5>1. /\ old \in Seq(Chunk) /\ Len(old) \in Nat
              /\ new \in Seq(Chunk) /\ Len(new) = Len(old) + 1
              /\ \A k \in 1..Len(old) : new[k] = old[k]
          BY <2>0, <2>1, <4>2, AppendProperties
        <5>2. /\ \A k \in 1..Len(old) : old[k] \in Chunk
              /\ \A k \in 1..Len(old) : new[k] \in Chunk
          BY <5>1, ElementOfSeq
        <5>3. /\ SubSeq(old, 1, Len(old)) \in Seq(Chunk)
              /\ SubSeq(new, 1, Len(old)) \in Seq(Chunk)
              /\ Len(SubSeq(old, 1, Len(old))) = Len(old)
              /\ Len(SubSeq(new, 1, Len(old))) = Len(old)
              /\ \A k \in 1..Len(old) : SubSeq(old, 1, Len(old))[k] = old[k]
              /\ \A k \in 1..Len(old) : SubSeq(new, 1, Len(old))[k] = new[k]
          BY <5>1, <5>2, SubSeqProperties
        <5>4. SubSeq(old, 1, Len(old)) = SubSeq(new, 1, Len(old))
          BY <5>1, <5>3, SeqEqual
        <5> QED
          BY <5>1, <5>4 DEF IsPrefix
      <4> QED
        BY <1>1, <3>1, <4>1, <4>2, WrittenIsNext
    <3> QED
      BY <2>1, <3>2, <3>3
  <2> QED
    BY <1>1, <2>2, <2>3, <2>4, <2>5, FileSteps
<1>2. TypeOK /\ ChunksKeepNumbers /\ (restarts = 0 => UnopenedAreEmpty) /\ [Next]_vars
        => [restarts = 0 => Grow]_vars
  BY <1>1
<1> QED
  BY <1>2, TypeCorrect, NumbersAreKept, UnopenedRemainEmpty, PTL DEF Spec, FilesOnlyGrow

---------------------------------------------------------------------------
(* Every step with a clock is one that BaseTransfer allows without. *)
LEMMA ClockRestricts ==
  ASSUME [TimedNext]_timedVars
  PROVE  [Next]_vars
<1>1. CASE TimedSender /\ UNCHANGED receiverVars
  <2>1. noPacket \in Received
    BY DEF Received
  <2>2. SenderStep
    BY <1>1, <2>1 DEF TimedSender, TimedLocal, TimesOut, Answered, SenderStep
  <2> QED
    BY <1>1, <2>2 DEF Next
<1> QED
  BY <1>1 DEF TimedNext, timedVars, Tick, Next

(* So whatever holds of every behaviour of BaseTransfer holds of a sender  *)
(* that waits 500 ms, or any other time, for each answer.                  *)
THEOREM ImplementsUntimed == TimedSpec => Spec
<1>1. [TimedNext]_timedVars => [Next]_vars
  BY ClockRestricts
<1> QED
  BY <1>1, PTL DEF TimedSpec, Spec
===========================================================================

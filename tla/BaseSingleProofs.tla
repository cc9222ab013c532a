------------------------- MODULE BaseSingleProofs -------------------------
(***************************************************************************)
(* One transfer of BaseTransfer: what is acknowledged is on disk, and the  *)
(* transfer implements ReliableTransfer.                                   *)
(*                                                                         *)
(* The ACK of START must arrive at most once, for it is larger than every  *)
(* other number and would empty the window.  It is sent once only because  *)
(* the receiver ignores START while connected and stays connected until    *)
(* END, which does not go out before the window is empty (OpenedWell).     *)
(***************************************************************************)
EXTENDS BaseTransferProofs

(* One sender, a receiver that is not restarted and a disk that takes      *)
(* every write; START's number is none of the chunks', and the network     *)
(* does not repeat its ACK.                                                *)
Single ==
  /\ Sessions = 1 /\ MaxRestarts = 0 /\ ~WriteFaults
  /\ \A r \in StartSeqs, f \in File : FileLen[f] < r
  /\ \A p \in Replayable : p.type = "ACK" => p.seq \notin StartSeqs

(* Before the sender is run. *)
Fresh ==
  session = 0 =>
    /\ phase = "idle" /\ toReceiver = {} /\ toSender = {} /\ startACK = 0
    /\ \A i \in FileIndex : files[i] = <<>>

(* What the sender may have sent, damaged or not. *)
Sendable(p) ==
  /\ p.type \in {"START", "DATA", "END"}
  /\ p.type # "DATA" => p.seq = randSeqNum
  /\ p.type = "DATA" =>
       p.seq < offset /\ p.data = [of |-> SentFile, idx |-> p.seq]
  /\ p.type = "END" => phase \notin {"start", "open", "data"}

UnderWay ==
  /\ session # 0 => randSeqNum \in StartSeqs /\ offset <= FileLen[SentFile]
  /\ \A p \in toReceiver : Sendable(p)
  /\ \A i \in 1..Len(window) : Sendable(window[i])
  /\ startACK \in {0, randSeqNum}
  /\ connection => counter >= 0

(* Every file, FILE--1.out too, is a prefix of the sender's. *)
FilesArePrefixes ==
  /\ \A i \in FileIndex :
       /\ Len(files[i]) <= offset
       /\ \A k \in 1..Len(files[i]) : files[i][k] = [of |-> SentFile, idx |-> k - 1]
  /\ Len(files[counter]) = next_seq
  /\ UnopenedAreEmpty

Somewhere(n) == \E i \in FileIndex : HoldsPrefix(i, n)

(* An ACK is that of START or END, or one of data on disk. *)
IsAnswer(p) ==
  /\ p.type = "ACK"
  /\ \/ p.seq = randSeqNum
     \/ p.seq <= offset /\ Somewhere(p.seq)

(* While the sender waits for the ACK of START there is at most that one,  *)
(* and then a connection.                                                  *)
AnsweredOnce ==
  phase = "start" =>
    toSender = {} \/ (connection /\ \E p \in toSender : toSender = {p})

(* After it the connection stays open and no second one comes. *)
Opened == phase \in {"open", "data"} /\ ~StartInWindow

OpenedWell ==
  Opened =>
    /\ connection /\ files[-1] = <<>>
    /\ \A p \in toSender : p.seq # randSeqNum
    /\ IsStored(offset - Len(window))

SingleInv ==
  /\ TypeOK /\ WindowInv
  /\ Fresh /\ UnderWay /\ FilesArePrefixes
  /\ \A p \in toSender : IsAnswer(p)
  /\ AnsweredOnce /\ OpenedWell
  /\ EndMeansComplete /\ WindowNeverUnderflows

---------------------------------------------------------------------------
(* What the other lemmas need to know of the variables. *)
LEMMA SingleFacts ==
  ASSUME Single, SingleInv
  PROVE  /\ window \in Seq(Packet) /\ Len(window) \in Nat
         /\ DOMAIN window = 1..Len(window)
         /\ offset \in Nat /\ randSeqNum \in Nat /\ session \in {0, 1}
         /\ files \in [FileIndex -> Seq(Chunk)] /\ next_seq \in Nat
         /\ counter \in FileIndex /\ FileIndex \subseteq Int /\ -1 \in FileIndex
         /\ phase # "idle" => session # 0
         /\ session # 0 => /\ FileLen[SentFile] \in Nat
                           /\ randSeqNum \in StartSeqs
                           /\ offset <= FileLen[SentFile]
                           /\ offset < randSeqNum /\ randSeqNum # 0
         /\ ~Restart
<1>1. /\ window \in Seq(Packet) /\ offset \in Nat /\ randSeqNum \in Nat
      /\ session \in 0..Sessions
      /\ files \in [FileIndex -> Seq(Chunk)] /\ next_seq \in Nat
      /\ counter \in FileIndex
  BY DEF SingleInv, TypeOK, SenderTypeOK, ReceiverTypeOK
<1>2. /\ session \in {0, 1}
      /\ session # 0 => session \in 1..Sessions
      /\ phase # "idle" => session # 0
  BY DEF SingleInv, TypeOK, SenderTypeOK, Single
<1>3. Len(window) \in Nat /\ DOMAIN window = 1..Len(window)
  BY <1>1, LenProperties
<1>4. ~Restart
  BY DEF Restart, SingleInv, TypeOK, ReceiverTypeOK, Single
<1>5. FileIndex \subseteq Int /\ -1 \in FileIndex
  BY ReceiverAssumption DEF FileIndex, ReceiverAssumption
<1>6. ASSUME session # 0
      PROVE  /\ FileLen[SentFile] \in Nat /\ randSeqNum \in StartSeqs
             /\ offset <= FileLen[SentFile]
             /\ offset < randSeqNum /\ randSeqNum # 0
  <2>1. SentFile \in File /\ FileLen[SentFile] \in Nat
    <3>1. session \in 1..Sessions
      BY <1>2, <1>6
    <3> QED
      BY <3>1, SenderAssumption DEF SentFile, SenderAssumption
  <2>2. randSeqNum \in StartSeqs /\ offset <= FileLen[SentFile]
    BY <1>6 DEF SingleInv, UnderWay
  <2>3. FileLen[SentFile] < randSeqNum
    BY <2>1, <2>2 DEF Single
  <2> QED
    BY <1>1, <2>1, <2>2, <2>3
<1> QED
  BY <1>1, <1>2, <1>3, <1>4, <1>5, <1>6

(* A file that grows at its end still holds what it held. *)
LEMMA FilesStep ==
  ASSUME Single, SingleInv, [Next]_vars, session' = session,
         offset' \in Nat, offset <= offset'
  PROVE  /\ FilesArePrefixes'
         /\ \A i \in FileIndex, n \in Nat : HoldsPrefix(i, n) => HoldsPrefix(i, n)'
         /\ counter >= 0 => counter' >= 0 /\ files'[-1] = files[-1]
<1>0. SentFile' = SentFile
  BY DEF SentFile
<1>1. /\ files \in [FileIndex -> Seq(Chunk)] /\ next_seq \in Nat /\ offset \in Nat
      /\ counter \in FileIndex /\ FileIndex \subseteq Int /\ -1 \in FileIndex
      /\ \A i \in FileIndex : Len(files[i]) \in Nat
  BY SingleFacts, LenProperties
<1>2. UnopenedAreEmpty'
  BY UnopenedStayEmpty
  DEF SingleInv, FilesArePrefixes, Single, Restart, TypeOK, ReceiverTypeOK
<1>3. /\ \A i \in FileIndex :
           /\ Len(files[i]) <= offset
           /\ \A k \in 1..Len(files[i]) :
                files[i][k] = [of |-> SentFile, idx |-> k - 1]
      /\ Len(files[counter]) = next_seq /\ UnopenedAreEmpty
  BY DEF SingleInv, FilesArePrefixes
<1>4. \A i \in FileIndex : Len(files[i]) <= offset'
  BY <1>1, <1>3
<1>5. CASE files' = files /\ counter' = counter /\ next_seq' = next_seq
  <2>1. FilesArePrefixes'
    BY <1>0, <1>2, <1>3, <1>4, <1>5 DEF FilesArePrefixes
  <2> QED
    BY <1>0, <1>5, <2>1 DEF HoldsPrefix
<1>6. CASE \E p \in toReceiver : StartAccepted(p)
  <2>1. PICK p \in toReceiver : StartAccepted(p)
    BY <1>6
  <2>2. /\ counter' = counter + 1 /\ counter + 1 \in FileIndex /\ next_seq' = 0
        /\ counter + 1 >= 0 /\ files'[counter + 1] = <<>>
        /\ \A i \in FileIndex : i # counter + 1 => files'[i] = files[i]
    BY <1>3, <2>1, OpenedIsEmpty DEF SingleInv
  <2>3. files[counter + 1] = <<>>
    BY <1>1, <1>3, <2>2 DEF UnopenedAreEmpty
  <2>4. \A i \in FileIndex : files'[i] = files[i]
    BY <2>2, <2>3
  <2>5. Len(files'[counter']) = next_seq'
    BY <2>2, EmptySeq
  <2>6. FilesArePrefixes'
    BY <1>0, <1>2, <1>3, <1>4, <2>4, <2>5 DEF FilesArePrefixes
  <2>7. counter >= 0 => counter' >= 0
    BY <2>2
  <2> QED
    BY <1>0, <1>1, <2>4, <2>6, <2>7 DEF HoldsPrefix
<1>7. CASE \E p \in toReceiver : DataWritten(p)
  <2>1. PICK p \in toReceiver : DataWritten(p)
    BY <1>7
  <2> DEFINE d == [of |-> SentFile, idx |-> next_seq]
  <2>2. p \in Packet /\ p.type = "DATA" /\ p.seq = next_seq
    BY <2>1 DEF SingleInv, TypeOK, NetworkTypeOK, DataWritten
  <2>3. p.data = d /\ next_seq < offset
    BY <2>2 DEF SingleInv, UnderWay, Sendable
  <2>4. d \in Chunk
    BY <2>2, <2>3, PacketFields
  <2>5. Stored(p)[next_seq] = d
    BY <2>2, <2>3, StoredTypes DEF SingleInv, TypeOK
  <2>6. /\ counter' = counter /\ next_seq' = next_seq + 1
        /\ files' = [files EXCEPT ![counter] = Append(@, d)]
    BY <2>1, <2>5 DEF DataWritten, writeToFile, Single
  <2>7. /\ files'[counter] = Append(files[counter], d)
        /\ \A i \in FileIndex : i # counter => files'[i] = files[i]
    BY <1>1, <2>6
  <2>8. /\ Len(files'[counter]) = next_seq + 1
        /\ \A k \in 1..next_seq : files'[counter][k] = files[counter][k]
        /\ files'[counter][next_seq + 1] = d
    BY <1>1, <1>3, <2>4, <2>7, AppendProperties
  <2>9. next_seq + 1 <= offset'
    BY <1>1, <2>3
  <2>10. ASSUME NEW k \in 1..(next_seq + 1)
         PROVE  files'[counter][k] = [of |-> SentFile, idx |-> k - 1]
    <3>1. CASE k = next_seq + 1
      <4>1. k - 1 = next_seq
        BY <1>1, <3>1
      <4> QED
        BY <2>8, <3>1, <4>1
    <3>2. CASE k # next_seq + 1
      <4>1. k \in 1..next_seq
        BY <1>1, <3>2
      <4> QED
        BY <1>1, <1>3, <2>8, <4>1
    <3> QED
      BY <3>1, <3>2
  <2>11. FilesArePrefixes'
    BY <1>0, <1>2, <1>3, <1>4, <2>6, <2>7, <2>8, <2>9, <2>10 DEF FilesArePrefixes
  <2>12. ASSUME NEW i \in FileIndex, NEW n \in Nat, HoldsPrefix(i, n)
         PROVE  HoldsPrefix(i, n)'
    <3>1. CASE i # counter
      BY <1>0, <2>7, <2>12, <3>1 DEF HoldsPrefix
    <3>2. CASE i = counter
      <4>1. n <= next_seq
        BY <1>3, <2>12, <3>2 DEF HoldsPrefix
      <4>2. n <= next_seq + 1 /\ \A k \in 1..n : k \in 1..(next_seq + 1)
        BY <1>1, <4>1
      <4> QED
        BY <1>0, <2>8, <2>10, <3>2, <4>2 DEF HoldsPrefix
    <3> QED
      BY <3>1, <3>2
  <2> QED
    BY <1>1, <2>6, <2>7, <2>11, <2>12
<1> QED
  BY <1>5, <1>6, <1>7, FileSteps, SingleFacts

(* The current file is a prefix of next_seq chunks. *)
LEMMA CurrentFile ==
  ASSUME Single, SingleInv
  PROVE  HoldsPrefix(counter, next_seq) /\ next_seq <= offset
<1>1. /\ counter \in FileIndex /\ next_seq \in Nat
      /\ Len(files[counter]) = next_seq
  BY SingleFacts DEF SingleInv, FilesArePrefixes
<1>2. /\ Len(files[counter]) <= offset
      /\ \A k \in 1..Len(files[counter]) :
           files[counter][k] = [of |-> SentFile, idx |-> k - 1]
  BY <1>1 DEF SingleInv, FilesArePrefixes
<1>3. Len(files[counter]) >= next_seq /\ next_seq <= offset
  BY <1>1, <1>2
<1> QED
  BY <1>1, <1>2, <1>3 DEF HoldsPrefix

---------------------------------------------------------------------------
(* Steps of the sender. *)

(* What may have been sent may have been sent later. *)
LEMMA SendableStays ==
  ASSUME Single, SingleInv, session' = session, randSeqNum' = randSeqNum,
         offset' \in {offset, offset + 1},
         phase' \in {"start", "open", "data"} => phase \in {"start", "open", "data"},
         NEW p \in Packet, Sendable(p)
  PROVE  Sendable(p)'
<1>1. SentFile' = SentFile
  BY DEF SentFile
<1>2. p.seq \in Nat /\ offset \in Nat
  BY PacketFields, SingleFacts
<1>3. p.seq < offset => p.seq < offset'
  BY <1>2
<1> QED
  BY <1>1, <1>3 DEF Sendable

(* What a running sender leaves as it is, and what it sends. *)
LEMMA SenderSteps ==
  ASSUME Single, SingleInv, SenderStep, ~Launch
  PROVE  /\ session # 0 /\ session' = session /\ randSeqNum' = randSeqNum
         /\ offset' \in {offset, offset + 1} /\ offset' <= FileLen[SentFile]
         /\ phase' # "start"
         /\ phase' \in {"open", "data"} => phase \in {"start", "open", "data"}
         /\ toSender' \subseteq toSender
         /\ \A p \in toReceiver' : Sendable(p)'
         /\ \A i \in 1..Len(window') : Sendable(window[i])'
<1> DEFINE n == Len(window)
           Early == {"start", "open", "data"}
           Moved == /\ session # 0 /\ session' = session
                    /\ randSeqNum' = randSeqNum
                    /\ offset' \in {offset, offset + 1}
                    /\ offset' <= FileLen[SentFile]
                    /\ phase' # "start"
                    /\ phase' \in Early => phase \in Early
                    /\ toSender' \subseteq toSender
           NetKeeps == \A p \in toReceiver' : Sendable(p)'
           WindowKeeps == \A i \in 1..Len(window') : Sendable(window[i])'
<1>0. /\ window \in Seq(Packet) /\ n \in Nat /\ offset \in Nat
      /\ randSeqNum \in Nat
      /\ phase # "idle" => session # 0
      /\ session # 0 => FileLen[SentFile] \in Nat /\ offset <= FileLen[SentFile]
      /\ toReceiver \subseteq Packet
      /\ \A i \in 1..n : window[i] \in Packet
  BY SingleFacts, ElementOfSeq DEF SingleInv, TypeOK, NetworkTypeOK
<1>1. ASSUME Moved, NEW p \in Packet, Sendable(p) PROVE Sendable(p)'
  BY <1>1, SendableStays
<1>2. /\ \A p \in toReceiver : Sendable(p)
      /\ \A i \in 1..n : Sendable(window[i])
  BY DEF SingleInv, UnderWay
<1>3. ASSUME Moved, toReceiver' = toReceiver PROVE NetKeeps
  BY <1>0, <1>1, <1>2, <1>3
<1>4. ASSUME Moved, NEW p, Sendable(p)', sendPacket(p) PROVE NetKeeps
  BY <1>0, <1>1, <1>2, <1>4 DEF sendPacket
<1>5. ASSUME Moved, NEW i \in 1..n, NEW j \in 1..Len(window'),
             window'[j] = window[i]
      PROVE  Sendable(window[j])'
  <2>1. PICK p : p = window[i]
    OBVIOUS
  <2>2. p \in Packet /\ Sendable(p)
    BY <1>0, <1>2, <2>1
  <2>3. Sendable(p)'
    BY <1>1, <1>5, <2>2
  <2> QED
    BY <1>5, <2>1, <2>3 DEF Sendable
<1>6. ASSUME Moved, window' = window PROVE WindowKeeps
  BY <1>5, <1>6
<1>7. ASSUME Moved, NEW p \in Packet, Sendable(p)', window' = Append(window, p)
      PROVE  WindowKeeps
  <2>1. /\ Len(window') = n + 1 /\ window'[n + 1] = p
        /\ \A i \in 1..n : window'[i] = window[i]
    BY <1>0, <1>7, AppendProperties
  <2>2. ASSUME NEW j \in 1..Len(window') PROVE Sendable(window[j])'
    <3>1. CASE j = n + 1
      BY <1>7, <2>1, <3>1 DEF Sendable
    <3>2. CASE j # n + 1
      <4>1. j \in 1..n
        BY <1>0, <2>1, <3>2
      <4> QED
        BY <1>5, <1>7, <2>1, <4>1
    <3> QED
      BY <3>1, <3>2
  <2> QED
    BY <2>2
<1>8. ASSUME Moved, NEW k \in Nat, k <= n, window' = removeAcknowledgedPackets(k)
      PROVE  WindowKeeps
  <2>1. Len(window') = n - k /\ \A j \in 1..(n - k) : window'[j] = window[j + k]
    BY <1>0, <1>8, CutFront DEF removeAcknowledgedPackets
  <2>2. ASSUME NEW j \in 1..Len(window') PROVE Sendable(window[j])'
    <3>1. j + k \in 1..n /\ j \in 1..(n - k)
      BY <1>0, <2>1
    <3> QED
      BY <1>5, <1>8, <2>1, <3>1
  <2> QED
    BY <2>2
<1> HIDE DEF NetKeeps, WindowKeeps
<1>9. SUFFICES Moved /\ NetKeeps /\ WindowKeeps
  BY DEF NetKeeps, WindowKeeps
<1>10. CASE OpenFile \/ Kill
  <2>1. Moved
    BY <1>0, <1>10 DEF OpenFile, Kill, Running, networkVars
  <2> QED
    BY <1>3, <1>6, <1>10, <2>1 DEF OpenFile, Kill, networkVars
<1>11. CASE SendData
  <2>1. PICK d : d = DataPacketOf(SentFile, offset)
    OBVIOUS
  <2>2. /\ phase = "data" /\ offset < FileLen[SentFile] /\ sendPacket(d)
        /\ window' = Append(window, d) /\ offset' = offset + 1
        /\ UNCHANGED <<phase, session, randSeqNum, toSender>>
    BY <1>11, <2>1 DEF SendData, CanSend, sendPacket
  <2>3. Moved
    BY <1>0, <2>2
  <2>4. d \in Packet
    BY <2>1, <2>2, SentFileExists, BuiltPackets DEF SingleInv, TypeOK, SenderTypeOK
  <2>5. Sendable(d)'
    <3>1. offset < offset' /\ SentFile' = SentFile
      BY <1>0, <2>2 DEF SentFile
    <3> QED
      BY <2>1, <3>1 DEF Sendable, DataPacketOf
  <2> QED
    BY <1>4, <1>7, <2>2, <2>3, <2>4, <2>5
<1>12. CASE EndConnection
  <2> DEFINE e == EndPacket(randSeqNum)
  <2>1. /\ phase = "data" /\ phase' = "end" /\ sendPacket(e)
        /\ window' = Append(window, e)
        /\ UNCHANGED <<session, randSeqNum, offset, toSender>>
    BY <1>12 DEF EndConnection
  <2>2. Moved
    BY <1>0, <2>1
  <2>3. e \in Packet /\ Sendable(e)'
    BY <1>0, <2>1, BuiltPackets DEF Sendable, EndPacket
  <2> QED
    BY <1>4, <1>7, <2>1, <2>2, <2>3
<1>13. CASE \E p \in Received : SenderReceives(p)
  <2>1. PICK p \in Received : SenderReceives(p)
    BY <1>13
  <2>2. p \in Packet /\ toSender' \subseteq toSender
    BY <2>1, ReceivedPacket
    DEF SenderReceives, StartAcked, StartRetried, RetransmitWindow, AdvanceWindow,
        IgnoreAck, FinishConnection, SingleInv, TypeOK
  <2>3. CASE StartAcked(p)
    <3>1. Moved
      BY <1>0, <2>2, <2>3 DEF StartAcked
    <3>2. n = 1
      BY <1>0, <2>3, ShortWindows
      DEF StartAcked, SingleInv, WindowInv, WindowStarts
    <3> QED
      BY <1>3, <1>8, <2>3, <3>1, <3>2 DEF StartAcked
  <2>4. CASE StartRetried(p)
    <3>1. Moved
      BY <1>0, <2>2, <2>4 DEF StartRetried
    <3>2. Sendable(StartPacket(randSeqNum))'
      BY <3>1 DEF Sendable, StartPacket
    <3> QED
      BY <1>4, <1>6, <2>4, <3>1, <3>2 DEF StartRetried
  <2>5. CASE RetransmitWindow(p)
    <3>1. phase = "data" /\ UNCHANGED senderVars
      BY <2>5 DEF RetransmitWindow, AwaitsAck
    <3>2. Moved
      BY <1>0, <2>2, <3>1 DEF senderVars
    <3>3. ASSUME NEW q \in toReceiver' PROVE Sendable(q)'
      <4>1. q \in toReceiver \/ \E i \in 1..n : q = window[i]
        BY <1>0, <2>5, LenProperties DEF RetransmitWindow, Range
      <4> QED
        BY <1>0, <1>1, <1>2, <3>2, <4>1
    <3> QED
      BY <1>6, <3>1, <3>2, <3>3 DEF NetKeeps, senderVars
  <2>6. CASE AdvanceWindow(p)
    <3>1. /\ phase = "data" /\ phase' \in {"data", "undefined"}
          /\ UNCHANGED <<session, randSeqNum, offset, toReceiver>>
      BY <2>6 DEF AdvanceWindow, AwaitsAck
    <3>2. Moved
      BY <1>0, <2>2, <3>1
    <3>3. p.seq - getNextSeqNum \in Nat
      BY <2>2, <2>6, FrontExists, PacketFields
      DEF AdvanceWindow, Acknowledges, SingleInv, TypeOK
    <3>4. \/ /\ p.seq - getNextSeqNum <= n
             /\ window' = removeAcknowledgedPackets(p.seq - getNextSeqNum)
          \/ window' = <<>>
      BY <2>6 DEF AdvanceWindow
    <3>5. window' = <<>> => WindowKeeps
      BY EmptySeq DEF WindowKeeps
    <3> QED
      BY <1>3, <1>8, <3>1, <3>2, <3>3, <3>4, <3>5
  <2>7. CASE IgnoreAck(p)
    <3>1. phase = "data" /\ UNCHANGED <<senderVars, toReceiver>>
      BY <2>7 DEF IgnoreAck, AwaitsAck
    <3>2. Moved
      BY <1>0, <2>2, <3>1 DEF senderVars
    <3> QED
      BY <1>3, <1>6, <3>1, <3>2 DEF senderVars
  <2>8. CASE FinishConnection(p)
    <3>1. /\ phase = "end" /\ phase' = "done"
          /\ toReceiver' = toReceiver \/ sendPacket(EndPacket(randSeqNum))
          /\ UNCHANGED <<session, randSeqNum, window, offset>>
      BY <2>8 DEF FinishConnection
    <3>2. Moved
      BY <1>0, <2>2, <3>1
    <3>3. Sendable(EndPacket(randSeqNum))'
      BY <3>1 DEF Sendable, EndPacket
    <3> QED
      BY <1>3, <1>4, <1>6, <3>1, <3>2, <3>3
  <2> QED
    BY <2>1, <2>3, <2>4, <2>5, <2>6, <2>7, <2>8 DEF SenderReceives
<1> QED
  BY <1>10, <1>11, <1>12, <1>13 DEF SenderStep, SenderLocal

---------------------------------------------------------------------------
(* What holds of ACKs and of the disk keeps holding. *)

(* What is on disk stays there. *)
LEMMA StoredStays ==
  ASSUME Single, SingleInv, [Next]_vars, session' = session,
         offset' \in {offset, offset + 1}, NEW n \in Nat
  PROVE  /\ Somewhere(n) => Somewhere(n)'
         /\ IsStored(n) => IsStored(n)'
<1>1. offset' \in Nat /\ offset <= offset'
  BY SingleFacts
<1> QED
  BY <1>1, FilesStep DEF Somewhere, IsStored

(* So what was a true answer stays one. *)
LEMMA AnsweredStays ==
  ASSUME Single, SingleInv, [Next]_vars, session' = session,
         randSeqNum' = randSeqNum, offset' \in {offset, offset + 1},
         NEW p \in toSender
  PROVE  IsAnswer(p)'
<1>1. p.seq \in Nat /\ offset \in Nat /\ IsAnswer(p)
  BY PacketFields, SingleFacts DEF SingleInv, TypeOK, NetworkTypeOK
<1>2. p.seq <= offset => p.seq <= offset'
  BY <1>1
<1>3. Somewhere(p.seq) => Somewhere(p.seq)'
  <2>1. PICK n : n = p.seq
    OBVIOUS
  <2> QED
    BY <1>1, <2>1, StoredStays
<1> QED
  BY <1>1, <1>2, <1>3 DEF IsAnswer

(* The ACK of START that the sender waits for is the only one, and is gone *)
(* once received.                                                          *)
LEMMA StartAckIsLast ==
  ASSUME Single, SingleInv, NEW p, StartAcked(p)
  PROVE  toSender' = {} /\ connection /\ counter >= 0
<1>1. /\ phase = "start" /\ p.type # "TIMEOUT" /\ p.seq = randSeqNum /\ receiveAck(p)
      /\ randSeqNum # 0 /\ randSeqNum \in StartSeqs
  BY SingleFacts DEF StartAcked
<1>2. p # noPacket /\ p # zeroPacket
  BY <1>1 DEF noPacket, zeroPacket, StartPacket
<1>3. p \in toSender /\ toSender' \in Remaining(p, toSender)
  BY <1>1, <1>2 DEF receiveAck
<1>4. p.type = "ACK" /\ connection /\ toSender = {p}
  BY <1>1, <1>3 DEF SingleInv, IsAnswer, AnsweredOnce
<1>5. p \notin Replayable
  BY <1>1, <1>4 DEF Single
<1>6. toSender' = {}
  BY <1>3, <1>4, <1>5 DEF Remaining
<1> QED
  BY <1>4, <1>6 DEF SingleInv, UnderWay

(* Once START has left the window, it holds chunks before offset only. *)
LEMMA OpenedWindow ==
  ASSUME Single, SingleInv, Opened
  PROVE  /\ offset - Len(window) \in Nat
         /\ phase = "open" => window = <<>> /\ offset = 0
<1> DEFINE n == Len(window)
<1>1. /\ window \in Seq(Packet) /\ n \in Nat /\ DOMAIN window = 1..n
      /\ offset \in Nat /\ randSeqNum \in Nat
  BY SingleFacts
<1>2. CASE n = 0
  BY <1>1, <1>2, EmptySeq DEF SingleInv, WindowInv, WindowStarts, Opened
<1>3. CASE n # 0
  <2>1. 1 \in 1..n /\ window[1] \in Packet
    BY <1>1, <1>3, ElementOfSeq
  <2>2. window[1].type # "START"
    BY <1>1, <2>1 DEF Opened, StartInWindow
  <2>3. phase # "open"
    BY <1>1, <1>3, <2>2, EmptySeq, ShortWindows DEF SingleInv, WindowInv, WindowStarts
  <2>4. window[1] = DataPacketOf(SentFile, offset - n + 1 - 1)
    BY <1>1, <2>1, <2>2, <2>3 DEF Opened, SingleInv, WindowInv, WindowIsContiguous
  <2>5. window[1].seq = offset - n + 1 - 1
    BY <2>4 DEF DataPacketOf
  <2>6. window[1].seq \in Nat
    BY <2>1, PacketFields
  <2> QED
    BY <1>1, <2>3, <2>5, <2>6
<1> QED
  BY <1>2, <1>3

(* An ACK that advances the window is one of data in an output file, and   *)
(* no larger than offset.                                                  *)
LEMMA AdvanceIsStored ==
  ASSUME Single, SingleInv, NEW p, AdvanceWindow(p)
  PROVE  /\ ~StartInWindow
         /\ p.seq \in Nat /\ p.seq <= offset /\ IsStored(p.seq)
         /\ getNextSeqNum = offset - Len(window) /\ getNextSeqNum \in Nat
         /\ p.seq > getNextSeqNum
<1> DEFINE n == Len(window)
<1>0. /\ window \in Seq(Packet) /\ n \in Nat /\ DOMAIN window = 1..n
      /\ offset \in Nat /\ randSeqNum \in Nat /\ phase = "data"
      /\ offset < randSeqNum
      /\ files \in [FileIndex -> Seq(Chunk)] /\ FileIndex \subseteq Int
      /\ -1 \in FileIndex
  BY SingleFacts DEF AdvanceWindow, AwaitsAck
<1>1. /\ window # <<>> /\ getNextSeqNum \in Nat /\ p \in Packet /\ p.seq \in Nat
      /\ p.type # "TIMEOUT" /\ p.seq > getNextSeqNum /\ receiveAck(p)
  BY FrontExists, ReceivedPacket, PacketFields
  DEF AdvanceWindow, Acknowledges, SingleInv, TypeOK
<1>2. 1 \in 1..n /\ window[1].seq = getNextSeqNum
  <2>1. n # 0
    BY <1>0, <1>1, EmptySeq
  <2> QED
    BY <1>0, <1>1, <2>1, HeadTailProperties DEF getNextSeqNum
<1>3. p \in toSender
  <2>1. p # noPacket
    BY <1>1 DEF noPacket
  <2>2. p # zeroPacket
    <3>1. p.seq # 0
      BY <1>1
    <3> QED
      BY <3>1 DEF zeroPacket, StartPacket
  <2> QED
    BY <1>1, <2>1, <2>2 DEF receiveAck
<1>4. \/ p.seq = randSeqNum
      \/ p.seq <= offset /\ Somewhere(p.seq)
  BY <1>3 DEF SingleInv, IsAnswer
<1>5. \A i \in 1..n : \/ i = 1 /\ window[i].type = "START"
                      \/ window[i] = DataPacketOf(SentFile, offset - n + i - 1)
  BY <1>0 DEF SingleInv, WindowInv, WindowIsContiguous
<1>6. ~StartInWindow
  <2> SUFFICES ASSUME StartInWindow PROVE FALSE
    OBVIOUS
  <2>1. PICK i \in 1..n : window[i].type = "START"
    BY <1>0 DEF StartInWindow
  <2>2. window[1].type = "START"
    <3>1. window[i] # DataPacketOf(SentFile, offset - n + i - 1)
      BY <2>1 DEF DataPacketOf
    <3> QED
      BY <1>5, <3>1
  <2>3. window[1].seq = randSeqNum
    BY <1>2, <2>2 DEF SingleInv, UnderWay, Sendable
  <2>4. p.seq > randSeqNum
    BY <1>1, <1>2, <2>3
  <2> QED
    BY <1>0, <1>1, <1>4, <2>4
<1>7. getNextSeqNum = offset - n
  <2>1. window[1].type # "START"
    BY <1>0, <1>2, <1>6 DEF StartInWindow
  <2>2. window[1] = DataPacketOf(SentFile, offset - n + 1 - 1)
    BY <1>2, <1>5, <2>1
  <2>3. window[1].seq = offset - n + 1 - 1
    BY <2>2 DEF DataPacketOf
  <2> QED
    BY <1>0, <1>2, <2>3
<1>8. files[-1] = <<>> /\ p.seq # randSeqNum
  BY <1>0, <1>3, <1>6 DEF SingleInv, OpenedWell, Opened
<1>9. PICK i \in FileIndex : HoldsPrefix(i, p.seq)
  BY <1>4, <1>8 DEF Somewhere
<1>10. i # -1
  <2>1. p.seq > 0
    BY <1>1
  <2>2. Len(files[-1]) = 0
    BY <1>8, EmptySeq
  <2> QED
    BY <1>1, <1>9, <2>1, <2>2 DEF HoldsPrefix
<1>11. i >= 0
  BY <1>9, <1>10, ReceiverAssumption DEF FileIndex, ReceiverAssumption
<1> QED
  BY <1>1, <1>4, <1>6, <1>7, <1>8, <1>9, <1>11 DEF IsStored

---------------------------------------------------------------------------
(* No step breaks the invariant. *)

(* Running the sender makes what was empty the prefix of its file. *)
LEMMA LaunchKeepsSingle ==
  ASSUME Single, SingleInv, Launch, UNCHANGED receiverVars, TypeOK'
  PROVE  SingleInv'
<1>1. session = 0
  BY SingleFacts DEF Launch, Single
<1>2. /\ phase = "idle" /\ toReceiver = {} /\ toSender = {} /\ startACK = 0
      /\ \A i \in FileIndex : files[i] = <<>>
  BY <1>1 DEF SingleInv, Fresh
<1>3. PICK r \in StartSeqs : /\ randSeqNum' = r /\ sendPacket(StartPacket(r))
                             /\ window' = <<StartPacket(r)>>
  BY DEF Launch
<1>4. /\ session' = 1 /\ offset' = 0 /\ phase' = "start" /\ toSender' = {}
      /\ toReceiver' = {StartPacket(r)}
  BY <1>1, <1>2, <1>3 DEF Launch, sendPacket
<1>5. /\ connection' = connection /\ next_seq' = next_seq /\ counter' = counter
      /\ startACK' = 0 /\ \A i \in FileIndex : files'[i] = <<>>
      /\ files' = files
  BY <1>2 DEF receiverVars
<1>6. WindowInv'
  BY SenderKeepsWindow DEF SenderStep, SingleInv
<1>7. UnderWay'
  <2>1. SentFile' \in File /\ FileLen[SentFile'] \in Nat
    BY <1>4, SenderAssumption DEF SentFile, SenderAssumption, Single
  <2>2. Len(window') = 1 /\ window'[1] = StartPacket(r)
    BY <1>3
  <2>3. offset' <= FileLen[SentFile']
    BY <1>4, <2>1
  <2>4. \A p : p = StartPacket(r) => Sendable(p)'
    BY <1>3 DEF Sendable, StartPacket
  <2>5. \A i \in 1..Len(window') : Sendable(window[i])'
    BY <2>2, <1>3 DEF Sendable, StartPacket
  <2>6. connection' => counter' >= 0
    BY <1>5 DEF SingleInv, UnderWay
  <2> QED
    BY <1>3, <1>4, <1>5, <2>3, <2>4, <2>5, <2>6 DEF UnderWay
<1>8. FilesArePrefixes'
  <2>1. Len(files'[counter]) = next_seq' /\ UnopenedAreEmpty'
    BY <1>5 DEF SingleInv, FilesArePrefixes, UnopenedAreEmpty
  <2>2. \A i \in FileIndex : Len(files'[i]) = 0
    BY <1>5, EmptySeq
  <2> QED
    BY <1>4, <1>5, <2>1, <2>2 DEF FilesArePrefixes
<1>9. /\ Fresh' /\ AnsweredOnce' /\ OpenedWell'
      /\ EndMeansComplete' /\ WindowNeverUnderflows'
  BY <1>4
  DEF Fresh, AnsweredOnce, OpenedWell, Opened, EndMeansComplete, WindowNeverUnderflows
<1> QED
  BY <1>4, <1>6, <1>7, <1>8, <1>9 DEF SingleInv

(* A running sender takes a chunk out of its window only once stored. *)
LEMMA SenderKeepsSingle ==
  ASSUME Single, SingleInv, SenderStep, ~Launch, UNCHANGED receiverVars, TypeOK'
  PROVE  SingleInv'
<1> DEFINE n == Len(window)
<1>0. /\ session # 0 /\ session' = session /\ randSeqNum' = randSeqNum
      /\ SentFile' = SentFile
      /\ offset' \in {offset, offset + 1} /\ offset' <= FileLen[SentFile]
      /\ phase' # "start" /\ toSender' \subseteq toSender
      /\ phase' \in {"open", "data"} => phase \in {"start", "open", "data"}
  BY SenderSteps DEF SentFile
<1>1. /\ offset \in Nat /\ offset' \in Nat /\ offset <= offset'
      /\ n \in Nat /\ window \in Seq(Packet) /\ DOMAIN window = 1..n
      /\ FileLen[SentFile] \in Nat /\ offset <= FileLen[SentFile]
      /\ randSeqNum \in StartSeqs /\ -1 \in FileIndex /\ counter \in FileIndex
  BY <1>0, SingleFacts
<1>2. /\ connection' = connection /\ counter' = counter /\ startACK' = startACK
      /\ files' = files
  BY DEF receiverVars
<1>3. [Next]_vars
  BY DEF Next
<1>4. WindowInv' /\ FilesArePrefixes'
  BY <1>0, <1>1, <1>3, SenderKeepsWindow, FilesStep DEF SingleInv
<1>5. UnderWay'
  BY <1>0, <1>1, <1>2, SenderSteps DEF SingleInv, UnderWay
<1>6. (\A p \in toSender : IsAnswer(p))'
  BY <1>0, <1>3, AnsweredStays
<1>7. Fresh' /\ AnsweredOnce'
  BY <1>0 DEF Fresh, AnsweredOnce
<1>8. SUFFICES OpenedWell' /\ EndMeansComplete' /\ WindowNeverUnderflows'
  BY <1>4, <1>5, <1>6, <1>7 DEF SingleInv
<1>9. ASSUME NEW m \in Nat, IsStored(m) PROVE IsStored(m)'
  BY <1>0, <1>3, <1>9, StoredStays
<1>10. ASSUME phase' \in {"open", "data"}, Opened,
              offset' - Len(window') = offset - n, offset - n \in Nat
       PROVE  OpenedWell' /\ EndMeansComplete' /\ WindowNeverUnderflows'
  <2>1. PICK m \in Nat : m = offset - n
    BY <1>10
  <2>2. connection /\ files[-1] = <<>> /\ IsStored(m)
        /\ \A p \in toSender : p.seq # randSeqNum
    BY <1>10, <2>1 DEF SingleInv, OpenedWell
  <2>3. IsStored(m)'
    BY <1>9, <2>2
  <2>4. IsStored(offset - Len(window))'
    BY <1>10, <2>1, <2>3 DEF IsStored, HoldsPrefix
  <2> QED
    BY <1>0, <1>2, <1>10, <2>2, <2>4
    DEF OpenedWell, EndMeansComplete, WindowNeverUnderflows
<1>11. CASE phase' \notin {"open", "data", "end", "done", "undefined"}
  BY <1>11 DEF OpenedWell, Opened, EndMeansComplete, WindowNeverUnderflows
<1>12. CASE OpenFile
  <2>1. /\ phase = "open" /\ phase' \in {"failed", "data"}
        /\ window' = window /\ offset' = offset
    BY <1>12 DEF OpenFile
  <2>2. CASE Opened
    BY <1>10, <1>11, <2>1, <2>2, OpenedWindow
  <2>3. CASE ~Opened
    BY <2>1, <2>3
    DEF Opened, StartInWindow, OpenedWell, EndMeansComplete, WindowNeverUnderflows
  <2> QED
    BY <2>2, <2>3
<1>13. CASE SendData
  <2>1. PICK d : d = DataPacketOf(SentFile, offset)
    OBVIOUS
  <2>2. /\ phase = "data" /\ phase' = "data" /\ offset' = offset + 1
        /\ window' = Append(window, d)
    BY <1>13, <2>1 DEF SendData
  <2>3. d \in Packet
    BY <2>1, <2>2, SentFileExists, BuiltPackets DEF SingleInv, TypeOK, SenderTypeOK
  <2>4. /\ Len(window') = n + 1 /\ DOMAIN window' = 1..(n + 1)
        /\ \A i \in 1..n : window'[i] = window[i]
    <3>1. Append(window, d) \in Seq(Packet)
      BY <1>1, <2>3, AppendProperties
    <3> QED
      BY <1>1, <2>2, <2>3, <3>1, AppendProperties, LenProperties
  <2>5. StartInWindow => StartInWindow'
    <3>1. \A i \in 1..n : i \in 1..(n + 1)
      BY <1>1
    <3> QED
      BY <1>1, <2>4, <3>1 DEF StartInWindow
  <2>6. (offset + 1) - (n + 1) = offset - n
    BY <1>1
  <2>7. CASE StartInWindow
    BY <2>2, <2>5, <2>7
    DEF Opened, OpenedWell, EndMeansComplete, WindowNeverUnderflows
  <2>8. CASE ~StartInWindow
    <3>1. Opened
      BY <2>2, <2>8 DEF Opened
    <3> QED
      BY <1>10, <2>2, <2>4, <2>6, <3>1, OpenedWindow
  <2> QED
    BY <2>7, <2>8
<1>14. CASE EndConnection
  <2>1. /\ phase = "data" /\ phase' = "end" /\ window = <<>>
        /\ offset >= FileLen[SentFile]
    BY <1>14 DEF EndConnection, hasUnacknowledgedPackets
  <2>2. n = 0 /\ ~StartInWindow
    BY <1>1, <2>1, EmptySeq DEF StartInWindow
  <2>3. IsStored(offset - n)
    BY <2>1, <2>2 DEF SingleInv, OpenedWell, Opened
  <2>4. offset - n = FileLen[SentFile]
    BY <1>1, <2>1, <2>2
  <2>5. PICK m \in Nat : m = FileLen[SentFile]
    BY <1>1
  <2>6. IsStored(m)'
    BY <1>9, <2>3, <2>4, <2>5
  <2>7. IsStored(FileLen[SentFile])'
    BY <1>0, <2>5, <2>6 DEF IsStored, HoldsPrefix
  <2> QED
    BY <2>1, <2>7 DEF OpenedWell, Opened, EndMeansComplete, WindowNeverUnderflows
<1>15. CASE \E p \in Received : SenderReceives(p)
  <2>1. PICK p \in Received : SenderReceives(p)
    BY <1>15
  <2>2. CASE StartAcked(p)
    <3>1. /\ phase = "start" /\ phase' = "open" /\ offset' = offset
          /\ toSender' = {} /\ connection /\ counter >= 0
      BY <2>2, StartAckIsLast DEF StartAcked
    <3>2. offset' = 0 /\ offset = 0
      BY <3>1 DEF SingleInv, WindowInv, WindowStarts
    <3>3. Len(window') \in Nat /\ window' \in Seq(Packet)
      BY LenProperties DEF TypeOK, SenderTypeOK
    <3>4. files[-1] = <<>>
      <4>1. files[-1] \in Seq(Chunk) /\ Len(files[-1]) \in Nat
        BY <1>1, SingleFacts, LenProperties
      <4>2. Len(files[-1]) <= 0
        BY <1>1, <3>2 DEF SingleInv, FilesArePrefixes
      <4> QED
        BY <4>1, <4>2, EmptySeq
    <3>5. ASSUME NEW k, k = offset' - Len(window') PROVE IsStored(k)'
      <4>1. k <= 0 /\ k \in Int
        BY <3>2, <3>3, <3>5
      <4>2. 1..k = {} /\ Len(files[counter]) >= k
        <5>1. Len(files[counter]) \in Nat
          BY SingleFacts, LenProperties
        <5> QED
          BY <4>1, <5>1
      <4> QED
        BY <1>1, <1>2, <3>1, <4>2 DEF IsStored, HoldsPrefix
    <3>6. IsStored(offset - Len(window))'
      BY <3>5 DEF IsStored, HoldsPrefix
    <3> QED
      BY <1>2, <3>1, <3>4, <3>6
      DEF OpenedWell, EndMeansComplete, WindowNeverUnderflows
  <2>3. CASE StartRetried(p)
    <3>1. phase = "start" /\ phase' = "open" /\ window' = window
      BY <2>3 DEF StartRetried
    <3>2. window = <<StartPacket(randSeqNum)>>
      BY <3>1 DEF SingleInv, WindowInv, WindowStarts
    <3>3. window'[1].type = "START" /\ DOMAIN window' = {1}
      BY <1>1, <3>1, <3>2, ShortWindows, SingleFacts
    <3>4. StartInWindow'
      BY <3>3 DEF StartInWindow
    <3> QED
      BY <3>1, <3>4 DEF OpenedWell, Opened, EndMeansComplete, WindowNeverUnderflows
  <2>4. CASE RetransmitWindow(p) \/ IgnoreAck(p)
    <3>1. phase = "data" /\ UNCHANGED senderVars
      BY <2>4 DEF RetransmitWindow, IgnoreAck, AwaitsAck
    <3>2. CASE Opened
      <4>1. phase' = "data" /\ offset' - Len(window') = offset - n
        BY <3>1 DEF senderVars
      <4> QED
        BY <1>10, <3>2, <4>1, OpenedWindow
    <3>3. CASE ~Opened
      BY <3>1, <3>3
      DEF Opened, StartInWindow, OpenedWell, EndMeansComplete,
          WindowNeverUnderflows, senderVars
    <3> QED
      BY <3>2, <3>3
  <2>5. CASE AdvanceWindow(p)
    <3>1. PICK k : k = p.seq - getNextSeqNum
      OBVIOUS
    <3>2. /\ phase = "data" /\ offset' = offset
          /\ \/ /\ k <= n /\ phase' = phase
                /\ window' = removeAcknowledgedPackets(k)
             \/ k > n
      BY <2>5, <3>1 DEF AdvanceWindow, AwaitsAck
    <3>3. /\ ~StartInWindow /\ p.seq \in Nat /\ p.seq <= offset
          /\ IsStored(p.seq) /\ getNextSeqNum = offset - n
          /\ getNextSeqNum \in Nat /\ p.seq > getNextSeqNum
      BY <2>5, AdvanceIsStored
    <3>4. k \in Nat /\ k <= n /\ offset - (n - k) = p.seq
      <4>1. PICK g, m : g = getNextSeqNum /\ m = p.seq
        OBVIOUS
      <4>2. /\ g \in Nat /\ m \in Nat /\ m <= offset /\ g = offset - n /\ m > g
            /\ k = m - g
        BY <3>1, <3>3, <4>1
      <4>3. k \in Nat /\ k <= n /\ offset - (n - k) = m
        BY <1>1, <4>2
      <4> QED
        BY <4>1, <4>3
    <3>5. Len(window') = n - k
      <4>1. window' = SubSeq(window, k + 1, n)
        BY <1>1, <3>2, <3>4 DEF removeAcknowledgedPackets
      <4>2. Len(SubSeq(window, k + 1, n)) = n - k
        BY <1>1, <3>4, CutFront
      <4> QED
        BY <4>1, <4>2
    <3>6. PICK m \in Nat : m = p.seq
      BY <3>3
    <3>7. IsStored(m)'
      BY <1>9, <3>3, <3>6
    <3>8. IsStored(offset - Len(window))'
      <4>1. offset' - Len(window') = m
        BY <3>2, <3>4, <3>5, <3>6
      <4> QED
        BY <3>7, <4>1 DEF IsStored, HoldsPrefix
    <3>9. connection /\ files[-1] = <<>> /\ \A q \in toSender : q.seq # randSeqNum
      BY <3>2, <3>3 DEF SingleInv, OpenedWell, Opened
    <3>10. phase' = "data"
      BY <1>1, <3>2, <3>4
    <3> QED
      BY <1>0, <1>2, <3>8, <3>9, <3>10
      DEF OpenedWell, EndMeansComplete, WindowNeverUnderflows
  <2>6. CASE FinishConnection(p)
    <3>1. phase = "end" /\ phase' = "done"
      BY <2>6 DEF FinishConnection
    <3>2. PICK m \in Nat : m = FileLen[SentFile]
      BY <1>1
    <3>3. IsStored(m)
      BY <3>1, <3>2 DEF SingleInv, EndMeansComplete
    <3>4. IsStored(m)'
      BY <1>9, <3>3
    <3>5. IsStored(FileLen[SentFile])'
      BY <1>0, <3>2, <3>4 DEF IsStored, HoldsPrefix
    <3> QED
      BY <3>1, <3>5 DEF OpenedWell, Opened, EndMeansComplete, WindowNeverUnderflows
  <2> QED
    BY <2>1, <2>2, <2>3, <2>4, <2>5, <2>6 DEF SenderReceives
<1>16. CASE Kill
  BY <1>11, <1>16 DEF Kill
<1> QED
  BY <1>12, <1>13, <1>14, <1>15, <1>16 DEF SenderStep, SenderLocal

(* What stays true when the sender stands still, whatever became of its    *)
(* packets.                                                                *)
LEMMA SenderAtRest ==
  ASSUME Single, SingleInv, [Next]_vars, UNCHANGED senderVars, session # 0,
         \A q \in toReceiver' : Sendable(q)
  PROVE  /\ SentFile' = SentFile /\ WindowInv' /\ Fresh'
         /\ \A q \in toReceiver' : Sendable(q)'
         /\ \A i \in 1..Len(window') : Sendable(window[i])'
         /\ FilesArePrefixes'
         /\ EndMeansComplete' /\ WindowNeverUnderflows'
         /\ Opened /\ IsStored(offset - Len(window))
              => IsStored(offset - Len(window))'
         /\ Opened' = Opened
<1>0. /\ phase' = phase /\ session' = session /\ randSeqNum' = randSeqNum
      /\ window' = window /\ offset' = offset /\ SentFile' = SentFile
  BY DEF senderVars, SentFile
<1>1. offset \in Nat /\ FileLen[SentFile] \in Nat
  BY SingleFacts
<1>2. WindowInv'
  BY <1>0 DEF SingleInv, WindowInv, WindowStarts, WindowIsContiguous
<1>3. FilesArePrefixes'
  BY <1>0, <1>1, FilesStep
<1>4. \A i \in 1..Len(window') : Sendable(window[i])'
  BY <1>0 DEF SingleInv, UnderWay, Sendable
<1>5. \A q \in toReceiver' : Sendable(q)'
  BY <1>0 DEF Sendable
<1>6. ASSUME NEW n \in Nat, IsStored(n) PROVE IsStored(n)'
  BY <1>0, <1>6, StoredStays
<1>7. EndMeansComplete'
  <2>1. PICK n \in Nat : n = FileLen[SentFile]
    BY <1>1
  <2>2. phase \in {"end", "done"} => IsStored(n)'
    BY <1>6, <2>1 DEF SingleInv, EndMeansComplete
  <2> QED
    BY <1>0, <2>1, <2>2 DEF EndMeansComplete, IsStored, HoldsPrefix
<1>8. ASSUME Opened, IsStored(offset - Len(window))
      PROVE  IsStored(offset - Len(window))'
  <2>1. PICK n \in Nat : n = offset - Len(window)
    BY <1>8, OpenedWindow
  <2>2. IsStored(n)'
    BY <1>6, <1>8, <2>1
  <2> QED
    BY <1>0, <2>1, <2>2 DEF IsStored, HoldsPrefix
<1>9. Opened' = Opened
  BY <1>0 DEF Opened, StartInWindow
<1> QED
  BY <1>0, <1>2, <1>3, <1>4, <1>5, <1>7, <1>8, <1>9
  DEF Fresh, SingleInv, WindowNeverUnderflows

(* Files have a length. *)
LEMMA FilesHaveLengths ==
  ASSUME TypeOK'
  PROVE  \A i \in FileIndex : Len(files'[i]) \in Nat
<1>1. \A i \in FileIndex : files'[i] \in Seq(Chunk)
  BY DEF TypeOK, ReceiverTypeOK
<1> QED
  BY <1>1, LenProperties

(* The receiver answers as the invariant says, and keeps the connection    *)
(* until END.                                                              *)
LEMMA ReceiverKeepsSingle ==
  ASSUME Single, SingleInv, ReceiverStep, UNCHANGED senderVars, TypeOK'
  PROVE  SingleInv'
<1>0. [Next]_vars
  BY DEF Next
<1>1. PICK p \in toReceiver : ReceiverHandles(p)
  BY SingleFacts DEF ReceiverStep
<1>2. session # 0 /\ Sendable(p) /\ p \in Packet /\ p.seq \in Nat
  BY PacketFields DEF SingleInv, Fresh, UnderWay, TypeOK, NetworkTypeOK
<1>3. /\ offset \in Nat /\ randSeqNum \in Nat /\ next_seq \in Nat
      /\ offset < randSeqNum /\ counter \in FileIndex /\ FileIndex \subseteq Int
      /\ startACK \in {0, randSeqNum} /\ next_seq <= offset
      /\ HoldsPrefix(counter, next_seq) /\ -1 \in FileIndex
  BY <1>2, SingleFacts, CurrentFile DEF SingleInv, UnderWay
<1>4. /\ phase' = phase /\ session' = session /\ randSeqNum' = randSeqNum
      /\ window' = window /\ offset' = offset
  BY DEF senderVars
<1>5. toReceiver' \subseteq toReceiver
  BY <1>1, RemainingSubset
  DEF ReceiverHandles, StartIgnored, StartAccepted, EndReceived, DataDropped,
      DataBuffered, DataWritten, receive
<1>6. /\ SentFile' = SentFile /\ WindowInv' /\ Fresh'
      /\ \A q \in toReceiver' : Sendable(q)'
      /\ \A i \in 1..Len(window') : Sendable(window[i])'
      /\ FilesArePrefixes'
      /\ EndMeansComplete' /\ WindowNeverUnderflows'
      /\ Opened => IsStored(offset - Len(window))'
      /\ Opened' = Opened
  BY <1>0, <1>2, <1>4, <1>5, SenderAtRest
  DEF SingleInv, UnderWay, OpenedWell, Opened, StartInWindow
<1>7. \A n \in Nat : Somewhere(n) => Somewhere(n)'
  BY <1>0, <1>4, StoredStays
<1>8. \A q \in toSender : IsAnswer(q)'
  BY <1>0, <1>4, AnsweredStays
<1>9. ASSUME NEW m, toSender' = toSender \cup {AckPacket(m)},
             \/ m = randSeqNum
             \/ m <= offset /\ Somewhere(m)'
      PROVE  \A q \in toSender' : IsAnswer(q)'
  <2>1. \A q : q = AckPacket(m) => IsAnswer(q)'
    <3> SUFFICES ASSUME NEW q, q = AckPacket(m) PROVE IsAnswer(q)'
      OBVIOUS
    <3>1. q.type = "ACK" /\ q.seq = m
      BY DEF AckPacket
    <3> QED
      BY <1>4, <1>9, <3>1 DEF IsAnswer
  <2> QED
    BY <1>8, <1>9, <2>1
<1>10. SUFFICES /\ startACK' \in {0, randSeqNum}
                /\ connection' => counter' >= 0
                /\ \A q \in toSender' : IsAnswer(q)'
                /\ AnsweredOnce'
                /\ Opened => /\ connection' /\ files'[-1] = <<>>
                             /\ \A q \in toSender' : q.seq # randSeqNum
  BY <1>2, <1>3, <1>4, <1>6, SingleFacts
  DEF SingleInv, UnderWay, OpenedWell
<1>11. Opened => /\ connection /\ counter >= 0 /\ files[-1] = <<>>
                 /\ files'[-1] = files[-1]
                 /\ \A q \in toSender : q.seq # randSeqNum
  BY <1>0, <1>3, <1>4, FilesStep DEF SingleInv, OpenedWell, UnderWay
<1>12. ASSUME NEW m \in Nat, m <= offset
       PROVE  \A q : q = AckPacket(m) => q.seq # randSeqNum
  BY <1>3, <1>12 DEF AckPacket
<1>13. phase = "start" => p.type # "DATA" /\ p.type # "END"
  <2>1. phase = "start" => offset = 0
    BY DEF SingleInv, WindowInv, WindowStarts
  <2>2. p.type = "DATA" => p.seq < offset
    BY <1>2 DEF Sendable
  <2>3. ~(p.seq < 0)
    BY <1>2
  <2> QED
    BY <1>2, <2>1, <2>2, <2>3 DEF Sendable
<1>14. CASE StartIgnored(p) \/ DataDropped(p)
  <2>1. UNCHANGED <<receiverVars, toSender>>
    BY <1>14 DEF StartIgnored, DataDropped
  <2>2. connection' = connection /\ counter' = counter /\ startACK' = startACK
        /\ toSender' = toSender
    BY <2>1 DEF receiverVars
  <2> QED
    BY <1>3, <1>4, <1>8, <1>11, <2>2 DEF SingleInv, UnderWay, AnsweredOnce
<1>15. CASE StartAccepted(p)
  <2>1. /\ p.type = "START" /\ ~connection /\ connection' = TRUE
        /\ startACK' = p.seq /\ toSender' = toSender \cup {AckPacket(p.seq)}
        /\ counter' = counter + 1
    BY <1>15 DEF StartAccepted, sendAck
  <2>2. p.seq = randSeqNum
    BY <1>2, <2>1 DEF Sendable
  <2>3. counter' >= 0
    BY <1>3, <2>1, ReceiverAssumption DEF FileIndex, ReceiverAssumption
  <2>4. AnsweredOnce'
    BY <1>4, <2>1 DEF AnsweredOnce, SingleInv
  <2> QED
    BY <1>9, <1>11, <2>1, <2>2, <2>3, <2>4
<1>16. CASE EndReceived(p)
  <2>1. /\ p.type = "END" /\ toSender' = toSender \cup {AckPacket(startACK)}
        /\ connection' = FALSE /\ counter' = counter /\ startACK' = startACK
    BY <1>16 DEF EndReceived, sendAck
  <2>2. phase \notin {"start", "open", "data"}
    BY <1>2, <2>1 DEF Sendable
  <2>3. Somewhere(0)'
    BY <1>3, FilesHaveLengths DEF Somewhere, HoldsPrefix
  <2>4. AnsweredOnce' /\ ~Opened
    BY <1>4, <2>2 DEF AnsweredOnce, Opened
  <2> QED
    BY <1>3, <1>9, <2>1, <2>3, <2>4
<1>17. ASSUME NEW m \in Nat, m <= offset, Somewhere(m)', p.type = "DATA",
              toSender' = toSender \cup {AckPacket(m)},
              UNCHANGED <<connection, counter, startACK>>
       PROVE  /\ startACK' \in {0, randSeqNum}
              /\ connection' => counter' >= 0
              /\ \A q \in toSender' : IsAnswer(q)'
              /\ AnsweredOnce'
              /\ Opened => /\ connection' /\ files'[-1] = <<>>
                           /\ \A q \in toSender' : q.seq # randSeqNum
  <2>1. AnsweredOnce'
    BY <1>4, <1>13, <1>17 DEF AnsweredOnce
  <2> QED
    BY <1>3, <1>9, <1>11, <1>12, <1>17, <2>1 DEF SingleInv, UnderWay
<1>18. CASE DataBuffered(p)
  <2>1. Somewhere(next_seq)
    BY <1>3 DEF Somewhere
  <2>2. PICK m \in Nat : m = next_seq
    BY <1>3
  <2>3. Somewhere(m)'
    BY <1>7, <2>1, <2>2
  <2> QED
    BY <1>3, <1>17, <1>18, <2>2, <2>3 DEF DataBuffered, sendAck
<1>19. CASE DataWritten(p)
  <2>1. PICK m \in Nat : m = next_seq + 1
    BY <1>3
  <2>2. m <= offset
    <3>1. next_seq < offset
      BY <1>2, <1>19 DEF Sendable, DataWritten
    <3> QED
      BY <1>3, <2>1, <3>1
  <2>3. counter' = counter /\ next_seq' = m
    BY <1>19, <2>1 DEF DataWritten
  <2>4. Somewhere(m)'
    BY <1>3, <1>6, <2>3 DEF FilesArePrefixes, Somewhere, HoldsPrefix
  <2> QED
    BY <1>17, <1>19, <2>1, <2>2, <2>4 DEF DataWritten, sendAck
<1> QED
  BY <1>1, <1>14, <1>15, <1>16, <1>18, <1>19 DEF ReceiverHandles

(* What the network loses or damages was no less answered.                 *)
LEMMA NetworkKeepsSingle ==
  ASSUME Single, SingleInv, NetworkStep, UNCHANGED <<senderVars, receiverVars>>, TypeOK'
  PROVE  SingleInv'
<1>0. [Next]_vars
  BY DEF Next
<1>1. /\ phase' = phase /\ session' = session /\ randSeqNum' = randSeqNum
      /\ window' = window /\ offset' = offset
      /\ connection' = connection /\ counter' = counter /\ files' = files
      /\ startACK' = startACK
  BY DEF senderVars, receiverVars
<1>2. session # 0
  BY DEF SingleInv, Fresh, NetworkStep, Lose, Corrupt
<1>3. /\ offset \in Nat /\ randSeqNum \in StartSeqs /\ offset <= FileLen[SentFile]
      /\ startACK \in {0, randSeqNum}
      /\ connection => counter >= 0
  BY <1>2, SingleFacts DEF SingleInv, UnderWay
<1>4. \A q \in Packet : /\ Damaged(q).type = q.type /\ Damaged(q).seq = q.seq
                        /\ q.type = "DATA" => Damaged(q).data = q.data
  BY DamagedPacket
<1>5. \A q \in toReceiver' : Sendable(q)
  <2>1. \A q \in toReceiver' : q \in toReceiver \/ \E r \in toReceiver : q = Damaged(r)
    BY DEF NetworkStep, Lose, Corrupt
  <2> QED
    BY <1>4, <2>1 DEF SingleInv, UnderWay, Sendable, TypeOK, NetworkTypeOK
<1>6. \A q \in toSender' : \E r \in toSender : q.type = r.type /\ q.seq = r.seq
  <2>1. \A q \in toSender' : q \in toSender \/ \E r \in toSender : q = Damaged(r)
    BY DEF NetworkStep, Lose, Corrupt
  <2> QED
    BY <1>4, <2>1 DEF SingleInv, TypeOK, NetworkTypeOK
<1>7. \A q \in toSender' : IsAnswer(q)'
  <2>1. \A r \in toSender : IsAnswer(r)'
    BY <1>0, <1>1, AnsweredStays
  <2> QED
    BY <1>6, <2>1 DEF IsAnswer
<1>8. AnsweredOnce'
  <2>1. ASSUME NEW q, toSender = {q}
        PROVE  toSender' = {} \/ \E r \in toSender' : toSender' = {r}
    BY <2>1 DEF NetworkStep, Lose, Corrupt
  <2>2. toSender = {} => toSender' = {}
    BY DEF NetworkStep, Lose, Corrupt
  <2> QED
    BY <1>1, <2>1, <2>2 DEF SingleInv, AnsweredOnce
<1>9. Opened' = Opened
  BY <1>1 DEF Opened, StartInWindow
<1>10. Opened => \A q \in toSender' : q.seq # randSeqNum
  BY <1>6 DEF SingleInv, OpenedWell
<1> QED
  BY <1>0, <1>1, <1>2, <1>3, <1>5, <1>7, <1>8, <1>9, <1>10, SenderAtRest
  DEF SingleInv, UnderWay, OpenedWell

(* The invariant holds initially and no step breaks it. *)
LEMMA SingleHolds ==
  ASSUME Single
  PROVE  /\ Init /\ TypeOK => SingleInv
         /\ SingleInv /\ [Next]_vars /\ TypeOK' => SingleInv'
<1>1. ASSUME Init, TypeOK PROVE SingleInv
  <2>1. /\ phase = "idle" /\ session = 0 /\ randSeqNum = 0 /\ offset = 0
        /\ window = <<>> /\ toReceiver = {} /\ toSender = {} /\ connection = FALSE
        /\ next_seq = 0 /\ counter = -1 /\ startACK = 0
        /\ files = [i \in FileIndex |-> <<>>]
    BY <1>1 DEF Init, SenderInit, ReceiverInit, NetworkInit
  <2>2. -1 \in FileIndex
    BY ReceiverAssumption DEF FileIndex, ReceiverAssumption
  <2>3. FilesArePrefixes
    <3>1. \A i \in FileIndex : files[i] = <<>> /\ Len(files[i]) = 0
      BY <2>1, EmptySeq
    <3> QED
      BY <2>1, <2>2, <3>1 DEF FilesArePrefixes, UnopenedAreEmpty
  <2>4. UnderWay
    BY <2>1, EmptySeq DEF UnderWay
  <2> QED
    BY <1>1, <2>1, <2>3, <2>4
    DEF SingleInv, WindowInv, WindowStarts, WindowIsContiguous, Fresh, AnsweredOnce,
        OpenedWell, Opened, EndMeansComplete, WindowNeverUnderflows
<1>2. ASSUME SingleInv, [Next]_vars, TypeOK' PROVE SingleInv'
  <2>1. CASE UNCHANGED vars
    <3>0. /\ phase' = phase /\ session' = session /\ randSeqNum' = randSeqNum
          /\ window' = window /\ offset' = offset /\ SentFile' = SentFile
          /\ connection' = connection /\ next_seq' = next_seq /\ counter' = counter
          /\ startACK' = startACK /\ files' = files
          /\ toReceiver' = toReceiver /\ toSender' = toSender
      BY <2>1 DEF vars, senderVars, receiverVars, networkVars, SentFile
    <3>1. WindowInv' /\ Fresh'
      BY <1>2, <3>0
      DEF SingleInv, WindowInv, WindowStarts, WindowIsContiguous, Fresh
    <3>2. UnderWay'
      BY <1>2, <3>0 DEF SingleInv, UnderWay, Sendable
    <3>3. FilesArePrefixes'
      BY <1>2, <3>0 DEF SingleInv, FilesArePrefixes, UnopenedAreEmpty
    <3>4. (\A p \in toSender : IsAnswer(p))'
      BY <1>2, <3>0 DEF SingleInv, IsAnswer, Somewhere, HoldsPrefix
    <3>5. AnsweredOnce' /\ OpenedWell'
      BY <1>2, <3>0
      DEF SingleInv, AnsweredOnce, OpenedWell, Opened, StartInWindow, IsStored,
          HoldsPrefix
    <3>6. EndMeansComplete' /\ WindowNeverUnderflows'
      BY <1>2, <3>0
      DEF SingleInv, EndMeansComplete, WindowNeverUnderflows, IsStored, HoldsPrefix
    <3> QED
      BY <1>2, <3>1, <3>2, <3>3, <3>4, <3>5, <3>6 DEF SingleInv
  <2> QED
    BY <1>2, <2>1, LaunchKeepsSingle, SenderKeepsSingle, ReceiverKeepsSingle,
       NetworkKeepsSingle DEF Next
<1> QED
  BY <1>1, <1>2

(* The invariant holds in every state of a single transfer. *)
THEOREM SingleStays ==
  ASSUME Single
  PROVE  Spec => []SingleInv
BY SingleHolds, TypeCorrect, PTL DEF Spec

---------------------------------------------------------------------------
(* What it is for. *)

(* No ACK under way confirms data that is not on disk. *)
THEOREM AckedStaysStored ==
  ASSUME Single
  PROVE  Spec => []AckedIsStored
<1>1. ASSUME SingleInv PROVE AckedIsStored
  <2>1. ASSUME NEW p \in toSender, p.seq \notin StartSeqs
        PROVE  Somewhere(p.seq)
    <3>1. session # 0
      BY <1>1 DEF SingleInv, Fresh
    <3>2. randSeqNum \in StartSeqs
      BY <1>1, <3>1 DEF SingleInv, UnderWay
    <3> QED
      BY <1>1, <2>1, <3>2 DEF SingleInv, IsAnswer
  <2> QED
    BY <2>1 DEF AckedIsStored, Somewhere
<1> QED
  BY <1>1, SingleStays, PTL

(* No chunk leaves the window of a sender whose START was acknowledged     *)
(* before it is in an output file.                                         *)
THEOREM UnstoredStaysKept ==
  ASSUME Single
  PROVE  Spec => []UnstoredIsKept
<1>1. SingleInv => UnstoredIsKept
  BY DEF SingleInv, OpenedWell, Opened, UnstoredIsKept, Transferring
<1> QED
  BY <1>1, SingleStays, PTL

(* When END goes out an output file is the whole file. *)
THEOREM EndIsComplete ==
  ASSUME Single
  PROVE  Spec => []EndMeansComplete
BY SingleStays, PTL DEF SingleInv

(* No ACK pops more packets than the window holds. *)
THEOREM WindowStaysPopulated ==
  ASSUME Single
  PROVE  Spec => []WindowNeverUnderflows
BY SingleStays, PTL DEF SingleInv

---------------------------------------------------------------------------
(* The transfer implements ReliableTransfer. *)

StoredPrefixes == {n \in 0..Length : IsStored(n)}
StoredNow == IF session = 0 THEN 0
             ELSE Max(StoredPrefixes)
ConfirmedNow == CASE phase \in {"end", "done"} -> Length
                  [] Transferring -> offset - Len(window)
                  [] OTHER -> 0
FinishedNow == phase \in {"end", "done"}

(* The three kinds of abstract steps. *)
LEMMA AbstractSteps ==
  /\ StoredNow' \in (StoredNow + 1)..Length
       /\ ConfirmedNow' = ConfirmedNow /\ FinishedNow' = FinishedNow => Reliable!Next
  /\ ~FinishedNow /\ ConfirmedNow' \in (ConfirmedNow + 1)..StoredNow
       /\ StoredNow' = StoredNow /\ FinishedNow' = FinishedNow => Reliable!Next
  /\ ~FinishedNow /\ ConfirmedNow = Length /\ FinishedNow' = TRUE
       /\ StoredNow' = StoredNow /\ ConfirmedNow' = ConfirmedNow => Reliable!Next
  /\ StoredNow' = StoredNow /\ ConfirmedNow' = ConfirmedNow
       /\ FinishedNow' = FinishedNow => UNCHANGED Reliable!vars
BY DEF StoredNow, StoredPrefixes, ConfirmedNow, FinishedNow, Reliable!Next,
       Reliable!Store, Reliable!Confirm, Reliable!Finish, Reliable!vars

(* A bounded set of numbers, not empty, has a maximum. *)
LEMMA GreatestOf ==
  ASSUME NEW bound \in Nat, NEW S, S \subseteq 0..bound, S # {}
  PROVE  Max(S) \in S /\ \A k \in S : k <= Max(S)
<1>1. PICK m \in S : \A k \in S : m >= k
  BY GreatestNumber
<1>2. Max(S) \in S /\ \A k \in S : Max(S) >= k
  BY <1>1 DEF Max
<1> QED
  BY <1>2

(* The file that is sent. *)
LEMMA TheFile ==
  ASSUME Single, SingleInv
  PROVE  Length \in Nat /\ (session # 0 => FileLen[SentFile] = Length)
<1>1. session \in {0, 1}
  BY SingleFacts
<1>2. output_log[1] \in File /\ FileLen \in [File -> Nat]
  BY SenderAssumption DEF SenderAssumption, Single
<1> QED
  BY <1>1, <1>2 DEF Length, SentFile

(* What is stored is the longest prefix in a file, of those there can be.  *)
LEMMA StoredIsGreatest ==
  ASSUME Single, SingleInv, TypeOK', MaxFiles # 0
  PROVE  /\ StoredPrefixes \subseteq 0..Length /\ StoredPrefixes' \subseteq 0..Length
         /\ Max(StoredPrefixes) \in StoredPrefixes
         /\ \A k \in StoredPrefixes : k <= Max(StoredPrefixes)
         /\ Max(StoredPrefixes') \in StoredPrefixes'
         /\ \A k \in StoredPrefixes' : k <= Max(StoredPrefixes')
<1>1. 0 \in FileIndex
  BY ReceiverAssumption DEF FileIndex, ReceiverAssumption
<1>2. Len(files[0]) \in Nat /\ Len(files'[0]) \in Nat
  BY <1>1, SingleFacts, FilesHaveLengths, LenProperties
<1>3. IsStored(0) /\ IsStored(0)'
  BY <1>1, <1>2 DEF IsStored, HoldsPrefix
<1>4. /\ StoredPrefixes \subseteq 0..Length /\ 0 \in StoredPrefixes
      /\ StoredPrefixes' \subseteq 0..Length /\ 0 \in StoredPrefixes'
  BY <1>3, TheFile DEF StoredPrefixes, Length
<1> QED
  BY <1>4, TheFile, GreatestOf

(* Only stored chunks are confirmed. *)
LEMMA ConfirmedIsStored ==
  ASSUME Single, SingleInv, TypeOK', MaxFiles # 0, session # 0
  PROVE  ConfirmedNow \in Nat /\ ConfirmedNow <= StoredNow /\ StoredNow \in 0..Length
<1>0. Length \in Nat /\ FileLen[SentFile] = Length /\ StoredNow = Max(StoredPrefixes)
  BY TheFile DEF StoredNow
<1>1. SUFFICES ConfirmedNow \in StoredPrefixes
  BY <1>0, StoredIsGreatest DEF StoredPrefixes
<1>2. CASE phase \in {"end", "done"}
  <2>1. ConfirmedNow = Length
    BY <1>2 DEF ConfirmedNow, Transferring
  <2>2. IsStored(Length)
    BY <1>0, <1>2 DEF SingleInv, EndMeansComplete
  <2> QED
    BY <1>0, <2>1, <2>2 DEF StoredPrefixes
<1>3. CASE Transferring
  <2>1. ConfirmedNow = offset - Len(window) /\ Opened
    BY <1>3 DEF ConfirmedNow, Transferring, Opened
  <2>2. IsStored(offset - Len(window))
    BY <2>1 DEF SingleInv, OpenedWell
  <2>3. offset - Len(window) \in 0..Length
    BY <1>0, <2>1, OpenedWindow, SingleFacts
  <2> QED
    BY <2>1, <2>2, <2>3 DEF StoredPrefixes
<1>4. CASE phase \notin {"end", "done"} /\ ~Transferring
  <2>1. ConfirmedNow = 0
    BY <1>4 DEF ConfirmedNow
  <2>2. 0 \in StoredPrefixes
    <3>1. 0 \in FileIndex
      BY ReceiverAssumption DEF FileIndex, ReceiverAssumption
    <3>2. Len(files[0]) \in Nat
      BY <3>1, SingleFacts, LenProperties
    <3> QED
      BY <1>0, <3>1, <3>2 DEF StoredPrefixes, IsStored, HoldsPrefix
  <2> QED
    BY <2>1, <2>2
<1> QED
  BY <1>2, <1>3, <1>4

(* A step that leaves the sender alone stores chunks or nothing. *)
LEMMA StoreSimulates ==
  ASSUME Single, SingleInv, TypeOK', MaxFiles # 0, [Next]_vars, UNCHANGED senderVars
  PROVE  Reliable!Next \/ UNCHANGED Reliable!vars
<1>0. /\ session' = session /\ offset' = offset /\ offset \in Nat /\ Length \in Nat
      /\ ConfirmedNow' = ConfirmedNow /\ FinishedNow' = FinishedNow
  BY SingleFacts, TheFile
  DEF senderVars, ConfirmedNow, FinishedNow, Transferring, StartInWindow, Length
<1>1. CASE session = 0
  BY <1>0, <1>1, AbstractSteps DEF StoredNow
<1>2. CASE session # 0
  <2>1. StoredPrefixes \subseteq StoredPrefixes'
    <3>1. \A n \in Nat : IsStored(n) => IsStored(n)'
      BY <1>0, StoredStays
    <3> QED
      BY <1>0, <3>1 DEF StoredPrefixes, Length
  <2>2. StoredNow = Max(StoredPrefixes) /\ StoredNow' = Max(StoredPrefixes')
    BY <1>0, <1>2 DEF StoredNow
  <2>3. StoredNow \in 0..Length /\ StoredNow' \in 0..Length /\ StoredNow <= StoredNow'
    BY <2>1, <2>2, StoredIsGreatest
  <2>4. StoredNow' = StoredNow \/ StoredNow' \in (StoredNow + 1)..Length
    BY <1>0, <2>3
  <2> QED
    BY <1>0, <2>4, AbstractSteps
<1> QED
  BY <1>1, <1>2

(* When the sender is run nothing is confirmed. *)
LEMMA LaunchSimulates ==
  ASSUME Single, SingleInv, TypeOK', MaxFiles # 0, Launch
  PROVE  Reliable!Next \/ UNCHANGED Reliable!vars
<1>1. session = 0 /\ phase = "idle" /\ Length \in Nat
  BY SingleFacts, TheFile DEF Launch, Single, SingleInv, Fresh
<1>2. session' = 1 /\ phase' = "start"
  BY <1>1 DEF Launch
<1>3. /\ ConfirmedNow = 0 /\ ConfirmedNow' = 0 /\ FinishedNow = FALSE
      /\ FinishedNow' = FALSE
  BY <1>1, <1>2 DEF ConfirmedNow, FinishedNow, Transferring
<1>4. StoredNow = 0 /\ StoredNow' = Max(StoredPrefixes')
  BY <1>1, <1>2 DEF StoredNow
<1>5. StoredNow' \in 0..Length
  BY <1>4, StoredIsGreatest
<1>6. StoredNow' = StoredNow \/ StoredNow' \in (StoredNow + 1)..Length
  BY <1>1, <1>4, <1>5
<1> QED
  BY <1>3, <1>6, AbstractSteps

(* A step of the sender confirms chunks, declares the end, or changes      *)
(* nothing.                                                                *)
LEMMA SenderSimulates ==
  ASSUME Single, SingleInv, SingleInv', MaxFiles # 0, UNCHANGED receiverVars,
         SenderLocal \/ \E p \in Received : SenderReceives(p)
  PROVE  Reliable!Next \/ UNCHANGED Reliable!vars
<1> DEFINE n == Len(window)
<1>0. /\ window \in Seq(Packet) /\ n \in Nat /\ offset \in Nat
      /\ DOMAIN window = 1..n /\ Length \in Nat
  BY SingleFacts, TheFile
<1>1. /\ session # 0 /\ session' = session
      /\ files' = files /\ SentFile' = SentFile
  <2>1. session' = session /\ phase # "idle"
    BY DEF SenderLocal, OpenFile, SendData, EndConnection, SenderReceives, StartAcked,
           StartRetried, RetransmitWindow, AdvanceWindow, IgnoreAck, AwaitsAck,
           FinishConnection, senderVars
  <2> QED
    BY <2>1, SingleFacts DEF receiverVars, SentFile
<1>2. StoredNow' = StoredNow
  <2>1. StoredPrefixes' = StoredPrefixes
    BY <1>1 DEF StoredPrefixes, IsStored, HoldsPrefix, Length
  <2> QED
    BY <1>1, <2>1 DEF StoredNow
<1>3. CASE ConfirmedNow' = ConfirmedNow /\ FinishedNow' = FinishedNow
  BY <1>2, <1>3, AbstractSteps
<1>4. CASE OpenFile
  <2>1. /\ phase = "open" /\ phase' \in {"failed", "data"}
        /\ window' = window /\ offset' = offset
    BY <1>4 DEF OpenFile
  <2>2. ConfirmedNow = 0 /\ FinishedNow = FALSE /\ FinishedNow' = FALSE
    BY <2>1 DEF ConfirmedNow, FinishedNow, Transferring
  <2>3. ConfirmedNow' = 0
    <3>1. CASE Transferring'
      <4>1. Opened
        BY <2>1, <3>1 DEF Opened, Transferring, StartInWindow
      <4>2. n = 0 /\ offset = 0
        BY <2>1, <4>1, OpenedWindow, EmptySeq
      <4> QED
        BY <2>1, <3>1, <4>2 DEF ConfirmedNow
    <3>2. CASE ~Transferring'
      BY <2>1, <3>2 DEF ConfirmedNow
    <3> QED
      BY <3>1, <3>2
  <2> QED
    BY <1>3, <2>2, <2>3
<1>5. CASE SendData
  <2>1. PICK d : d = DataPacketOf(SentFile, offset)
    OBVIOUS
  <2>2. /\ phase = "data" /\ phase' = "data" /\ offset' = offset + 1
        /\ window' = Append(window, d)
    BY <1>5, <2>1 DEF SendData
  <2>3. d \in Packet /\ d.type = "DATA"
    BY <2>1, <2>2, SentFileExists, BuiltPackets
    DEF SingleInv, TypeOK, SenderTypeOK, DataPacketOf
  <2>4. /\ Len(window') = n + 1 /\ DOMAIN window' = 1..(n + 1)
        /\ \A i \in 1..n : window'[i] = window[i]
        /\ window'[n + 1] = d
    <3>1. Append(window, d) \in Seq(Packet)
      BY <1>0, <2>3, AppendProperties
    <3> QED
      BY <1>0, <2>2, <2>3, <3>1, AppendProperties, LenProperties
  <2>5. StartInWindow' = StartInWindow
    <3>1. \A i \in 1..(n + 1) : i \in 1..n \/ i = n + 1
      BY <1>0
    <3>2. \A i \in 1..n : i \in 1..(n + 1)
      BY <1>0
    <3> QED
      BY <1>0, <2>3, <2>4, <3>1, <3>2 DEF StartInWindow
  <2>6. (offset + 1) - (n + 1) = offset - n
    BY <1>0
  <2> QED
    BY <1>3, <2>2, <2>4, <2>5, <2>6 DEF ConfirmedNow, FinishedNow, Transferring
<1>6. CASE EndConnection
  <2>1. /\ phase = "data" /\ phase' = "end" /\ window = <<>>
        /\ offset >= FileLen[SentFile]
    BY <1>6 DEF EndConnection, hasUnacknowledgedPackets
  <2>2. n = 0 /\ Transferring /\ offset <= FileLen[SentFile]
    BY <1>0, <1>1, <2>1, EmptySeq, SingleFacts DEF Transferring, StartInWindow
  <2>3. offset - n = Length
    BY <1>0, <1>1, <2>1, <2>2, TheFile
  <2>4. ConfirmedNow = Length /\ ConfirmedNow' = Length
    BY <2>1, <2>2, <2>3 DEF ConfirmedNow, Transferring, Length
  <2> QED
    BY <1>2, <2>1, <2>4, AbstractSteps DEF FinishedNow
<1>7. CASE \E p \in Received : SenderReceives(p)
  <2>1. PICK p \in Received : SenderReceives(p)
    BY <1>7
  <2>2. CASE RetransmitWindow(p) \/ IgnoreAck(p)
    BY <1>3, <2>2
    DEF RetransmitWindow, IgnoreAck, ConfirmedNow, FinishedNow, Transferring,
        StartInWindow, senderVars, Length
  <2>3. CASE StartAcked(p) \/ StartRetried(p) \/ FinishConnection(p)
    BY <1>3, <2>3
    DEF StartAcked, StartRetried, FinishConnection, ConfirmedNow, FinishedNow,
        Transferring, Length
  <2>4. CASE AdvanceWindow(p)
    <3>1. PICK g, m : g = getNextSeqNum /\ m = p.seq
      OBVIOUS
    <3>2. /\ phase = "data" /\ ~StartInWindow /\ m \in Nat /\ m <= offset
          /\ g = offset - n /\ g \in Nat /\ m > g
      BY <2>4, <3>1, AdvanceIsStored DEF AdvanceWindow, AwaitsAck
    <3>3. m - g \in Nat /\ m - g <= n /\ offset - (n - (m - g)) = m
      BY <1>0, <3>2
    <3>4. /\ phase' = "data" /\ offset' = offset
          /\ window' = SubSeq(window, (m - g) + 1, n)
      <4>1. ~((m - g) > n)
        BY <1>0, <3>2, <3>3
      <4> QED
        BY <2>4, <3>1, <3>2, <4>1 DEF AdvanceWindow, removeAcknowledgedPackets
    <3>5. /\ Len(window') = n - (m - g) /\ DOMAIN window' = 1..(n - (m - g))
          /\ \A i \in 1..(n - (m - g)) : window'[i] = window[i + (m - g)]
      BY <1>0, <3>3, <3>4, CutFront
    <3>6. ~StartInWindow'
      <4>1. \A i \in 1..(n - (m - g)) : i + (m - g) \in 1..n
        BY <1>0, <3>3
      <4> QED
        BY <1>0, <3>2, <3>5, <4>1 DEF StartInWindow
    <3>7. ConfirmedNow = g /\ ConfirmedNow' = m /\ FinishedNow = FALSE
          /\ FinishedNow' = FALSE
      BY <3>2, <3>3, <3>4, <3>5, <3>6 DEF ConfirmedNow, FinishedNow, Transferring
    <3>8. IsStored(m)
      BY <2>4, <3>1, AdvanceIsStored
    <3>9. m \in StoredPrefixes
      BY <1>0, <1>1, <3>2, <3>8, SingleFacts, TheFile DEF StoredPrefixes
    <3>10. m <= StoredNow /\ StoredNow \in Nat
      BY <1>0, <1>1, <3>9, StoredIsGreatest DEF StoredNow, SingleInv
    <3>11. m \in (g + 1)..StoredNow
      BY <3>2, <3>10
    <3> QED
      BY <1>2, <3>7, <3>11, AbstractSteps
  <2> QED
    BY <2>1, <2>2, <2>3, <2>4 DEF SenderReceives
<1> QED
  BY <1>4, <1>5, <1>6, <1>7 DEF SenderLocal

(* A single transfer whose sender is not killed, to a receiver that may    *)
(* open a file, stores and confirms the file as ReliableTransfer says, and *)
(* END goes out only when all of it is confirmed.                          *)
THEOREM Implements ==
  ASSUME Single, ~MayKill, MaxFiles # 0
  PROVE  Spec => ImplementsReliable
<1>1. Init => Reliable!Init
  BY DEF Init, SenderInit, Reliable!Init, Transferring
<1>2. SingleInv /\ SingleInv' /\ [Next]_vars => [Reliable!Next]_(Reliable!vars)
  <2> SUFFICES ASSUME SingleInv, SingleInv', [Next]_vars
               PROVE  Reliable!Next \/ UNCHANGED Reliable!vars
    OBVIOUS
  <2>1. TypeOK'
    BY DEF SingleInv
  <2>2. CASE UNCHANGED senderVars
    BY <2>1, <2>2, StoreSimulates
  <2>3. CASE SenderStep /\ UNCHANGED receiverVars
    BY <2>1, <2>3, LaunchSimulates, SenderSimulates DEF SenderStep, Kill
  <2> QED
    BY <2>2, <2>3 DEF Next, vars
<1> QED
  BY <1>1, <1>2, SingleStays, PTL DEF Spec, ImplementsReliable, Reliable!Spec
===========================================================================

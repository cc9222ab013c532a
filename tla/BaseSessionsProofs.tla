------------------------ MODULE BaseSessionsProofs ------------------------
(***************************************************************************)
(* Transfers of BaseTransfer that follow one another, whatever became of   *)
(* the earlier ones: a sender whose START is acknowledged has a connection *)
(* and an output file of its own.                                          *)
(*                                                                         *)
(* Neither END nor DATA says which transfer it belongs to, and an earlier  *)
(* one may leave its connection open, its number expected and its chunks   *)
(* in the receiver's map.  But users wait for silence, so that all under   *)
(* way is of the running sender (OfThisSender), and START leaves its       *)
(* window in answer to its own ACK only, for every other number is smaller *)
(* (NumbersAreSmall).  That ACK is sent with a new connection and a new    *)
(* file (Confirmed), which only this sender's packets can then reach.      *)
(***************************************************************************)
EXTENDS BaseTransferProofs

(* Users wait for silence, and START numbers are not those of chunks. *)
Quiet ==
  /\ QuietLaunch
  /\ \A r \in StartSeqs, f \in File : FileLen[f] <= r

Active == phase \in {"start", "open", "data"}

IsSmall(p) == p.type = "DATA" => \A r \in StartSeqs : p.seq < r

(* The numbers of chunks, and the expected one, are below START's. *)
NumbersAreSmall ==
  /\ \A p \in toReceiver : IsSmall(p)
  /\ \A i \in 1..Len(window) : IsSmall(window[i])
  /\ \A r \in StartSeqs : next_seq <= r

(* The running sender sent p, and not yet END. *)
IsOwn(p) ==
  /\ p.type \in {"START", "DATA"}
  /\ p.type = "START" => p.seq = randSeqNum
  /\ p.type = "DATA" => p.data.of = SentFile

OfThisSender ==
  Active =>
    /\ randSeqNum \in StartSeqs
    /\ \A p \in toReceiver : IsOwn(p) /\ (phase = "start" => p.type = "START")
    /\ \A i \in 1..Len(window) : IsOwn(window[i])
    /\ \A p \in toSender : p.seq <= randSeqNum

(* The ACK of START is on its way or has arrived. *)
Confirmed ==
  \/ phase = "start" /\ toSender # {}
  \/ phase \in {"open", "data"} /\ ~StartInWindow

ConnectionOpened ==
  Confirmed /\ restarts = 0 => connection /\ startACK = randSeqNum

FileOpened ==
  Confirmed /\ counter >= 0 =>
    \A k \in 1..Len(files[counter]) : files[counter][k].of = SentFile

SessionsInv == NumbersAreSmall /\ OfThisSender /\ ConnectionOpened

---------------------------------------------------------------------------
(* What the lemmas below need to know of the variables. *)
LEMMA SessionFacts ==
  ASSUME Quiet, TypeOK
  PROVE  /\ window \in Seq(Packet) /\ Len(window) \in Nat
         /\ DOMAIN window = 1..Len(window)
         /\ \A i \in 1..Len(window) : window[i] \in Packet
         /\ toReceiver \subseteq Packet /\ toSender \subseteq Packet
         /\ offset \in Nat /\ randSeqNum \in Nat /\ next_seq \in Nat
         /\ StartSeqs \subseteq Nat \ {0}
         /\ phase # "idle" =>
              /\ FileLen[SentFile] \in Nat
              /\ \A r \in StartSeqs : FileLen[SentFile] <= r
<1>1. /\ window \in Seq(Packet) /\ offset \in Nat /\ randSeqNum \in Nat
      /\ next_seq \in Nat /\ toReceiver \subseteq Packet /\ toSender \subseteq Packet
  BY DEF TypeOK, SenderTypeOK, ReceiverTypeOK, NetworkTypeOK
<1>2. /\ Len(window) \in Nat /\ DOMAIN window = 1..Len(window)
      /\ \A i \in 1..Len(window) : window[i] \in Packet
  BY <1>1, LenProperties, ElementOfSeq
<1>3. phase # "idle" => SentFile \in File /\ FileLen[SentFile] \in Nat
  BY SentFileExists DEF TypeOK
<1> QED
  BY <1>1, <1>2, <1>3, SenderAssumption DEF Quiet, SenderAssumption

(* The packets the programs build, and what damage leaves of them.         *)
LEMMA BuiltAreOwn ==
  /\ \A r : IsSmall(StartPacket(r)) /\ IsSmall(EndPacket(r))
  /\ IsOwn(StartPacket(randSeqNum))
  /\ \A n : IsOwn(DataPacketOf(SentFile, n))
  /\ \A p \in Packet : /\ IsSmall(p) => IsSmall(Damaged(p))
                       /\ IsOwn(p) => IsOwn(Damaged(p))
<1>1. /\ \A r : IsSmall(StartPacket(r)) /\ IsSmall(EndPacket(r))
      /\ IsOwn(StartPacket(randSeqNum))
      /\ \A n : IsOwn(DataPacketOf(SentFile, n))
  BY DEF IsSmall, IsOwn, StartPacket, EndPacket, DataPacketOf
<1>2. \A p \in Packet : /\ IsSmall(p) => IsSmall(Damaged(p))
                        /\ IsOwn(p) => IsOwn(Damaged(p))
  BY DamagedPacket DEF IsSmall, IsOwn
<1> QED
  BY <1>1, <1>2

(* START leaves the window in no other way than by its own ACK: no number  *)
(* an ACK may have is larger.                                              *)
LEMMA StartIsNotPopped ==
  ASSUME Quiet, TypeOK, WindowInv, SessionsInv, NEW p, AdvanceWindow(p)
  PROVE  ~StartInWindow
<1> SUFFICES ASSUME StartInWindow PROVE FALSE
  OBVIOUS
<1>0. /\ window \in Seq(Packet) /\ DOMAIN window = 1..Len(window)
      /\ randSeqNum \in Nat
  BY SessionFacts
<1>1. /\ phase = "data" /\ p.seq > Head(window).seq /\ receiveAck(p)
      /\ p.type # "TIMEOUT"
  BY DEF AdvanceWindow, AwaitsAck, Acknowledges, getNextSeqNum
<1>2. PICK i \in DOMAIN window : window[i].type = "START"
  BY DEF StartInWindow
<1>3. i = 1
  <2>1. DataPacketOf(SentFile, offset - Len(window) + i - 1).type = "DATA"
    BY DEF DataPacketOf
  <2> QED
    BY <1>1, <1>2, <2>1 DEF WindowInv, WindowIsContiguous
<1>4. window # <<>> /\ Head(window) = window[1]
  BY <1>0, <1>2, HeadTailProperties, EmptySeq
<1>5. Head(window).seq = randSeqNum
  BY <1>0, <1>1, <1>2, <1>3, <1>4 DEF SessionsInv, OfThisSender, Active, IsOwn
<1>6. p = zeroPacket \/ p \in toSender
  BY <1>1 DEF receiveAck, noPacket
<1>7. p.seq \in Nat /\ p.seq <= randSeqNum
  <2>1. CASE p = zeroPacket
    BY <1>0, <2>1 DEF zeroPacket, StartPacket
  <2>2. CASE p \in toSender
    BY <1>1, <2>2, SessionFacts, PacketFields DEF SessionsInv, OfThisSender, Active
  <2> QED
    BY <1>6, <2>1, <2>2
<1> QED
  BY <1>0, <1>1, <1>5, <1>7

---------------------------------------------------------------------------
(* Steps of wSender. *)

(* A packet that is not of the network or the window before the step. *)
IsNew(q) ==
  \/ q = StartPacket(randSeqNum') /\ phase' \in {"start", "open"}
  \/ /\ q = DataPacketOf(SentFile, offset) /\ offset < FileLen[SentFile]
     /\ phase = "data" /\ phase' = "data" /\ offset' = offset + 1
  \/ q = EndPacket(randSeqNum) /\ phase' \in {"end", "done"}

(* What one step of wSender sends and keeps. *)
LEMMA SenderSends ==
  ASSUME Quiet, TypeOK, SenderStep
  PROVE  /\ \A q \in toReceiver' : q \in toReceiver \/ q \in Range(window) \/ IsNew(q)
         /\ \A q \in Range(window') : q \in Range(window) \/ IsNew(q)
         /\ toSender' \subseteq toSender
         /\ Launch => /\ phase' = "start" /\ randSeqNum' \in StartSeqs
                      /\ toSender' = {}
                      /\ toReceiver' = {StartPacket(randSeqNum')}
                      /\ Range(window') = {StartPacket(randSeqNum')}
         /\ Active' => \/ Launch
                       \/ /\ Active /\ phase' # "start"
                          /\ randSeqNum' = randSeqNum /\ SentFile' = SentFile
                          /\ offset' \in {offset, offset + 1}
<1>0. window \in Seq(Packet) /\ DOMAIN window = 1..Len(window) /\ Len(window) \in Nat
  BY SessionFacts
<1>1. CASE Launch
  <2>1. PICK r \in StartSeqs : /\ randSeqNum' = r
                               /\ toReceiver' = toReceiver \cup {StartPacket(r)}
                               /\ window' = <<StartPacket(r)>>
    BY <1>1 DEF Launch, sendPacket
  <2>2. toReceiver = {} /\ toSender = {} /\ toSender' = toSender /\ phase' = "start"
    BY <1>1 DEF Launch, Quiet
  <2>3. Range(window') = {StartPacket(r)}
    BY <2>1 DEF Range
  <2> QED
    BY <1>1, <2>1, <2>2, <2>3 DEF IsNew
<1>2. CASE OpenFile \/ Kill
  <2>1. /\ UNCHANGED <<window, randSeqNum, session, offset, networkVars>>
        /\ phase' # "start" /\ (Active' => phase = "open")
    BY <1>2 DEF OpenFile, Kill, Active
  <2> QED
    BY <1>2, <2>1 DEF networkVars, SentFile, OpenFile, Kill, Launch, Active, Stopped, Running
<1>3. ASSUME NEW q, q \in Packet, window' = Append(window, q)
      PROVE  Range(window') = Range(window) \cup {q}
  <2>1. /\ window' \in Seq(Packet) /\ Len(window') = Len(window) + 1
        /\ \A i \in 1..Len(window) : window'[i] = window[i]
        /\ window'[Len(window) + 1] = q
    BY <1>0, <1>3, AppendProperties
  <2>2. DOMAIN window' = 1..(Len(window) + 1)
    BY <2>1, LenProperties
  <2> QED
    BY <1>0, <2>1, <2>2 DEF Range
<1>4. CASE SendData
  <2>1. DataPacketOf(SentFile, offset) \in Packet
    BY <1>4, SentFileExists, BuiltPackets DEF SendData, SenderTypeOK, TypeOK
  <2>2. ~Launch
    BY <1>4 DEF SendData, Launch, Stopped
  <2> QED
    BY <1>3, <1>4, <2>1, <2>2
    DEF SendData, CanSend, sendPacket, SentFile, IsNew, Active
<1>5. CASE EndConnection
  <2>1. EndPacket(randSeqNum) \in Packet
    BY BuiltPackets DEF SenderTypeOK, TypeOK
  <2>2. ~Launch /\ ~Active'
    BY <1>5 DEF EndConnection, Launch, Stopped, Active
  <2> QED
    BY <1>3, <1>5, <2>1, <2>2 DEF EndConnection, sendPacket, IsNew
<1>6. CASE \E p \in Received : SenderReceives(p)
  <2>1. PICK p \in Received : SenderReceives(p)
    BY <1>6
  <2>2. /\ p \in Packet /\ toSender' \subseteq toSender
        /\ randSeqNum' = randSeqNum /\ SentFile' = SentFile /\ offset' = offset
    <3>1. receiveAck(p) /\ UNCHANGED <<randSeqNum, session, offset>>
      BY <2>1 DEF SenderReceives, StartAcked, StartRetried, RetransmitWindow,
                  AdvanceWindow, IgnoreAck, FinishConnection, senderVars
    <3> QED
      BY <3>1, ReceivedPacket DEF TypeOK, SentFile
  <2>3. /\ phase \in {"start", "data", "end"} /\ phase' # "start"
        /\ Active' => Active
    BY <2>1 DEF SenderReceives, StartAcked, StartRetried, RetransmitWindow, AwaitsAck,
                AdvanceWindow, IgnoreAck, FinishConnection, senderVars, Active
  <2>4. ~Launch
    BY <2>3 DEF Launch, Stopped
  <2>5. Range(window') \subseteq Range(window)
    <3>1. CASE window' = window
      BY <3>1
    <3>2. CASE window' = <<>>
      BY <3>2 DEF Range
    <3>3. ASSUME NEW n \in Nat, n <= Len(window), window' = removeAcknowledgedPackets(n)
          PROVE  Range(window') \subseteq Range(window)
      <4>1. /\ DOMAIN window' = 1..(Len(window) - n)
            /\ \A i \in 1..(Len(window) - n) : window'[i] = window[i + n]
        BY <1>0, <3>3, CutFront DEF removeAcknowledgedPackets
      <4>2. \A i \in 1..(Len(window) - n) : i + n \in 1..Len(window)
        BY <1>0, <3>3
      <4> QED
        BY <1>0, <4>1, <4>2 DEF Range
    <3>4. CASE AdvanceWindow(p)
      <4>1. p.seq - getNextSeqNum \in Nat
        BY <2>2, <3>4, FrontExists, PacketFields DEF AdvanceWindow, Acknowledges, TypeOK
      <4> QED
        BY <3>2, <3>3, <3>4, <4>1 DEF AdvanceWindow
    <3>5. CASE StartAcked(p)
      <4>1. CASE Len(window) = 0
        <5>1. window' = <<>>
          BY <1>0, <3>5, <4>1, SubSeqEmpty DEF StartAcked, removeAcknowledgedPackets
        <5> QED
          BY <3>2, <5>1
      <4>2. CASE Len(window) # 0
        BY <1>0, <3>3, <3>5, <4>2 DEF StartAcked
      <4> QED
        BY <4>1, <4>2
    <3> QED
      BY <2>1, <3>1, <3>4, <3>5
      DEF SenderReceives, StartRetried, RetransmitWindow, IgnoreAck,
          FinishConnection, senderVars
  <2>6. \A q \in toReceiver' : q \in toReceiver \/ q \in Range(window) \/ IsNew(q)
    BY <2>1, <2>2
    DEF SenderReceives, StartAcked, StartRetried, RetransmitWindow, AdvanceWindow,
        IgnoreAck, FinishConnection, sendPacket, IsNew
  <2> QED
    BY <2>2, <2>3, <2>4, <2>5, <2>6
<1> QED
  BY <1>1, <1>2, <1>4, <1>5, <1>6 DEF SenderStep, SenderLocal

(* It keeps the chunks' numbers small, and sends and keeps its own only. *)
LEMMA SenderKeepsSessions ==
  ASSUME Quiet, TypeOK, SessionsInv, SenderStep, UNCHANGED receiverVars
  PROVE  NumbersAreSmall' /\ OfThisSender'
<1>0. /\ DOMAIN window = 1..Len(window)
      /\ \A i \in 1..Len(window') : window'[i] \in Range(window')
      /\ \A q \in Range(window) : \E i \in 1..Len(window) : q = window[i]
  <2>1. TypeOK'
    BY SenderKeepsTypes
  <2>2. window' \in Seq(Packet) /\ DOMAIN window' = 1..Len(window')
    BY <2>1, LenProperties DEF TypeOK, SenderTypeOK
  <2> QED
    BY <2>2, SessionFacts DEF Range
<1>1. \A q \in toReceiver \cup Range(window) : IsSmall(q)
  BY <1>0 DEF SessionsInv, NumbersAreSmall
<1>2. ASSUME NEW q, IsNew(q) PROVE IsSmall(q)
  <2>1. CASE q = DataPacketOf(SentFile, offset) /\ offset < FileLen[SentFile]
             /\ phase = "data"
    <3>1. q.seq = offset
      BY <2>1 DEF DataPacketOf
    <3>2. /\ offset \in Nat /\ FileLen[SentFile] \in Nat /\ StartSeqs \subseteq Nat \ {0}
          /\ \A r \in StartSeqs : FileLen[SentFile] <= r
      BY <2>1, SessionFacts
    <3> QED
      BY <2>1, <3>1, <3>2 DEF IsSmall
  <2> QED
    BY <1>2, <2>1, BuiltAreOwn DEF IsNew
<1>3. NumbersAreSmall'
  <2>1. \A q \in toReceiver' \cup Range(window') : IsSmall(q)
    BY <1>1, <1>2, SenderSends
  <2>2. next_seq' = next_seq
    BY DEF receiverVars
  <2> QED
    BY <1>0, <2>1, <2>2 DEF SessionsInv, NumbersAreSmall, IsSmall
<1>4. OfThisSender'
  <2>1. SUFFICES ASSUME Active' PROVE OfThisSender'
    BY DEF OfThisSender
  <2>2. CASE Launch
    <3>1. /\ randSeqNum' \in StartSeqs /\ toSender' = {}
          /\ toReceiver' = {StartPacket(randSeqNum')}
          /\ Range(window') = {StartPacket(randSeqNum')}
      BY <2>2, SenderSends
    <3>2. IsOwn(StartPacket(randSeqNum))' /\ StartPacket(randSeqNum').type = "START"
      BY DEF IsOwn, StartPacket
    <3> QED
      BY <1>0, <3>1, <3>2 DEF OfThisSender, IsOwn
  <2>3. CASE ~Launch
    <3>1. /\ Active /\ phase' # "start" /\ toSender' \subseteq toSender
          /\ randSeqNum' = randSeqNum /\ SentFile' = SentFile
      BY <2>1, <2>3, SenderSends
    <3>2. \A q \in toReceiver \cup Range(window) : IsOwn(q)
      BY <1>0, <3>1 DEF SessionsInv, OfThisSender
    <3>3. \A q : IsNew(q) => IsOwn(q)
      BY <2>1, <3>1, BuiltAreOwn DEF IsNew, Active
    <3>4. \A q \in toReceiver' \cup Range(window') : IsOwn(q)'
      BY <3>1, <3>2, <3>3, SenderSends DEF IsOwn
    <3>5. randSeqNum \in StartSeqs /\ \A p \in toSender : p.seq <= randSeqNum
      BY <3>1 DEF SessionsInv, OfThisSender
    <3> QED
      BY <1>0, <3>1, <3>4, <3>5 DEF OfThisSender, IsOwn
  <2> QED
    BY <2>2, <2>3
<1> QED
  BY <1>3, <1>4

(* A step of wSender confirms nothing by itself.                           *)
LEMMA SenderConfirmsNothing ==
  ASSUME Quiet, TypeOK, WindowInv, SessionsInv, SenderStep, Confirmed'
  PROVE  Confirmed /\ randSeqNum' = randSeqNum /\ SentFile' = SentFile
<1>0. window \in Seq(Packet) /\ DOMAIN window = 1..Len(window) /\ Len(window) \in Nat
  BY SessionFacts
<1>1. ~Launch /\ phase' # "start"
  BY SenderSends DEF Confirmed, Active
<1>2. /\ phase' \in {"open", "data"} /\ ~StartInWindow' /\ Active
      /\ randSeqNum' = randSeqNum /\ SentFile' = SentFile
  BY <1>1, SenderSends DEF Confirmed, Active
<1>3. CASE OpenFile
  BY <1>2, <1>3 DEF OpenFile, Confirmed, StartInWindow
<1>4. CASE SendData
  <2>1. DataPacketOf(SentFile, offset) \in Packet
    BY <1>4, SentFileExists, BuiltPackets DEF SendData, SenderTypeOK, TypeOK
  <2>2. /\ window' \in Seq(Packet) /\ Len(window') = Len(window) + 1
        /\ \A i \in 1..Len(window) : window'[i] = window[i]
    BY <1>0, <1>4, <2>1, AppendProperties DEF SendData
  <2>3. DOMAIN window' = 1..(Len(window) + 1)
    BY <2>2, LenProperties
  <2>4. ~StartInWindow
    BY <1>0, <1>2, <2>2, <2>3 DEF StartInWindow
  <2> QED
    BY <1>2, <1>4, <2>4 DEF SendData, Confirmed
<1>5. CASE \E p \in Received : SenderReceives(p)
  <2>1. PICK p \in Received : SenderReceives(p)
    BY <1>5
  <2>2. CASE StartAcked(p)
    <3>1. phase = "start" /\ p.type # "TIMEOUT" /\ p.seq = randSeqNum /\ receiveAck(p)
      BY <2>2 DEF StartAcked
    <3>2. randSeqNum # 0
      BY <1>2, SessionFacts DEF SessionsInv, OfThisSender
    <3>3. p \in toSender
      BY <3>1, <3>2 DEF receiveAck, noPacket, zeroPacket, StartPacket
    <3> QED
      BY <1>2, <3>1, <3>3 DEF Confirmed
  <2>3. CASE StartRetried(p)
    <3>1. window' = <<StartPacket(randSeqNum)>>
      BY <2>3 DEF StartRetried, WindowInv, WindowStarts
    <3>2. StartInWindow'
      BY <3>1, ShortWindows, SessionFacts DEF StartInWindow
    <3> QED
      BY <1>2, <3>2
  <2>4. CASE RetransmitWindow(p) \/ IgnoreAck(p)
    BY <1>2, <2>4
    DEF RetransmitWindow, IgnoreAck, AwaitsAck, senderVars, Confirmed, StartInWindow
  <2>5. CASE AdvanceWindow(p)
    BY <1>2, <2>5, StartIsNotPopped DEF AdvanceWindow, AwaitsAck, Confirmed
  <2>6. CASE FinishConnection(p)
    BY <1>2, <2>6 DEF FinishConnection
  <2> QED
    BY <2>1, <2>2, <2>3, <2>4, <2>5, <2>6 DEF SenderReceives
<1>6. CASE EndConnection \/ Kill
  BY <1>2, <1>6 DEF EndConnection, Kill
<1> QED
  BY <1>1, <1>3, <1>4, <1>5, <1>6 DEF SenderStep, SenderLocal

---------------------------------------------------------------------------
(* Steps of wReceiver, and of the network. *)

(* A step that adds nothing to what is in flight to the receiver, moves    *)
(* next_seq below START's number and answers with numbers up to it keeps   *)
(* the chunks' numbers small and all under way the running sender's.       *)
LEMMA AnswersAreSmall ==
  ASSUME SessionsInv, UNCHANGED senderVars, toReceiver' \subseteq toReceiver,
         \A r \in StartSeqs : next_seq' <= r,
         Active => \A p \in toSender' : p \in toSender \/ p.seq <= randSeqNum
  PROVE  NumbersAreSmall' /\ OfThisSender'
<1>1. UNCHANGED <<phase, session, randSeqNum, window>> /\ SentFile' = SentFile
  BY DEF senderVars, SentFile
<1>2. NumbersAreSmall'
  BY <1>1 DEF SessionsInv, NumbersAreSmall, IsSmall
<1>3. OfThisSender'
  BY <1>1 DEF SessionsInv, OfThisSender, Active, IsOwn
<1> QED
  BY <1>2, <1>3

(* What a turn of wReceiver's loop, or a restart, does to SessionsInv.     *)
LEMMA ReceiverKeepsSessions ==
  ASSUME Quiet, TypeOK, SessionsInv, ReceiverStep, UNCHANGED senderVars
  PROVE  SessionsInv'
<1>0. /\ UNCHANGED <<phase, session, randSeqNum, window>>
      /\ randSeqNum \in Nat /\ next_seq \in Nat /\ StartSeqs \subseteq Nat \ {0}
      /\ \A r \in StartSeqs : next_seq <= r
      /\ Active => randSeqNum \in StartSeqs
      /\ Confirmed => Active
  BY SessionFacts DEF senderVars, SessionsInv, NumbersAreSmall, OfThisSender,
                      Confirmed, Active
<1>1. CASE Restart
  <2>1. /\ next_seq' = 0 /\ UNCHANGED <<toReceiver, toSender>>
        /\ restarts' = restarts + 1 /\ restarts \in Nat
    BY <1>1, ReceiverAssumption
    DEF Restart, networkVars, TypeOK, ReceiverTypeOK, ReceiverAssumption
  <2>2. NumbersAreSmall' /\ OfThisSender'
    BY <1>0, <2>1, AnswersAreSmall
  <2>3. restarts' # 0
    BY <2>1
  <2> QED
    BY <2>2, <2>3 DEF SessionsInv, ConnectionOpened
<1>2. CASE \E p \in toReceiver : ReceiverHandles(p)
  <2>1. PICK p \in toReceiver : ReceiverHandles(p)
    BY <1>2
  <2>2. /\ receive(p) /\ restarts' = restarts
        /\ toReceiver' \subseteq toReceiver /\ p \in Packet
    <3>1. receive(p) /\ restarts' = restarts
      BY <2>1
      DEF ReceiverHandles, StartIgnored, StartAccepted, EndReceived, DataDropped,
          DataBuffered, DataWritten, receiverVars
    <3> QED
      BY <3>1, RemainingSubset, SessionFacts DEF receive
  <2>3. Active => IsOwn(p) /\ (phase = "start" => p.type = "START")
    BY DEF SessionsInv, OfThisSender
  <2>4. CASE StartIgnored(p) \/ DataDropped(p)
    <3>1. UNCHANGED <<next_seq, connection, startACK, toSender>>
      BY <2>4 DEF StartIgnored, DataDropped, receiverVars
    <3>2. NumbersAreSmall' /\ OfThisSender'
      BY <1>0, <2>2, <3>1, AnswersAreSmall
    <3>3. ConnectionOpened'
      BY <1>0, <2>2, <3>1
      DEF SessionsInv, ConnectionOpened, Confirmed, StartInWindow
    <3> QED
      BY <3>2, <3>3 DEF SessionsInv
  <2>5. CASE StartAccepted(p)
    <3>1. /\ next_seq' = 0 /\ connection' = TRUE /\ startACK' = p.seq
          /\ toSender' = toSender \cup {AckPacket(p.seq)} /\ p.type = "START"
      BY <2>5 DEF StartAccepted, sendAck
    <3>2. Active => p.seq = randSeqNum
      BY <2>3, <3>1 DEF IsOwn
    <3>3. Active => \A q \in toSender' : q \in toSender \/ q.seq <= randSeqNum
      BY <1>0, <3>1, <3>2 DEF AckPacket
    <3>4. NumbersAreSmall' /\ OfThisSender'
      BY <1>0, <2>2, <3>1, <3>3, AnswersAreSmall
    <3>5. ConnectionOpened'
      BY <1>0, <3>1, <3>2 DEF ConnectionOpened, Confirmed, Active
    <3> QED
      BY <3>4, <3>5 DEF SessionsInv
  <2>6. CASE EndReceived(p)
    <3>1. ~Active /\ next_seq' = next_seq
      BY <2>3, <2>6 DEF EndReceived, IsOwn
    <3>2. NumbersAreSmall' /\ OfThisSender'
      BY <1>0, <2>2, <3>1, AnswersAreSmall
    <3>3. ConnectionOpened'
      BY <1>0, <3>1 DEF ConnectionOpened, Confirmed, Active
    <3> QED
      BY <3>2, <3>3 DEF SessionsInv
  <2>7. CASE DataBuffered(p) \/ DataWritten(p)
    <3>1. /\ p.type = "DATA" /\ UNCHANGED <<connection, startACK>>
          /\ \/ next_seq' = next_seq
             \/ next_seq' = next_seq + 1 /\ p.seq = next_seq
          /\ toSender' = toSender \cup {AckPacket(next_seq')}
      BY <2>7 DEF DataBuffered, DataWritten, sendAck
    <3>2. \A r \in StartSeqs : next_seq' <= r
      <4>1. \A r \in StartSeqs : p.seq < r
        BY <3>1 DEF SessionsInv, NumbersAreSmall, IsSmall
      <4> QED
        BY <1>0, <3>1, <4>1
    <3>3. Active => \A q \in toSender' : q \in toSender \/ q.seq <= randSeqNum
      BY <1>0, <3>1, <3>2 DEF AckPacket
    <3>4. NumbersAreSmall' /\ OfThisSender'
      BY <2>2, <3>2, <3>3, AnswersAreSmall
    <3>5. Active => phase # "start"
      BY <2>3, <3>1
    <3>6. ConnectionOpened'
      BY <1>0, <2>2, <3>1, <3>5
      DEF SessionsInv, ConnectionOpened, Confirmed, Active, StartInWindow
    <3> QED
      BY <3>4, <3>6 DEF SessionsInv
  <2> QED
    BY <2>1, <2>4, <2>5, <2>6, <2>7 DEF ReceiverHandles
<1> QED
  BY <1>1, <1>2 DEF ReceiverStep

(* Loss and damage keep it all: damaged packets have their numbers.        *)
LEMMA NetworkKeepsSessions ==
  ASSUME Quiet, TypeOK, SessionsInv, NetworkStep, UNCHANGED <<senderVars, receiverVars>>
  PROVE  SessionsInv' /\ (Confirmed' => Confirmed)
<1>1. /\ \A p \in toReceiver' : p \in toReceiver \/ \E q \in toReceiver : p = Damaged(q)
      /\ \A p \in toSender' : p \in toSender \/ \E q \in toSender : p = Damaged(q)
  BY DEF NetworkStep, Lose, Corrupt
<1>2. /\ UNCHANGED <<phase, session, randSeqNum, window>> /\ SentFile' = SentFile
      /\ UNCHANGED <<connection, next_seq, startACK, restarts>>
  BY DEF senderVars, receiverVars, SentFile
<1>3. toReceiver \subseteq Packet /\ toSender \subseteq Packet
  BY SessionFacts
<1>4. NumbersAreSmall'
  BY <1>1, <1>2, <1>3, BuiltAreOwn DEF SessionsInv, NumbersAreSmall, IsSmall
<1>5. OfThisSender'
  <2>1. SUFFICES ASSUME Active PROVE OfThisSender'
    BY <1>2 DEF OfThisSender, Active
  <2>2. \A p \in toReceiver' : IsOwn(p) /\ (phase = "start" => p.type = "START")
    BY <1>1, <1>3, <2>1, BuiltAreOwn, DamagedPacket DEF SessionsInv, OfThisSender
  <2>3. \A p \in toSender' : p.seq <= randSeqNum
    BY <1>1, <1>3, <2>1, DamagedPacket DEF SessionsInv, OfThisSender
  <2> QED
    BY <1>2, <2>1, <2>2, <2>3 DEF SessionsInv, OfThisSender, Active, IsOwn
<1>6. Confirmed' => Confirmed
  BY <1>1, <1>2 DEF Confirmed, StartInWindow
<1> QED
  BY <1>2, <1>4, <1>5, <1>6 DEF SessionsInv, ConnectionOpened

(* SessionsInv holds in every state. *)
LEMMA SessionsStay ==
  ASSUME Quiet
  PROVE  Spec => []SessionsInv
<1>1. Init => SessionsInv
  <2>1. ASSUME Init PROVE SessionsInv
    <3>1. /\ phase = "idle" /\ window = <<>> /\ next_seq = 0 /\ toReceiver = {}
          /\ StartSeqs \subseteq Nat
      BY <2>1, SenderAssumption
      DEF Init, SenderInit, ReceiverInit, NetworkInit, SenderAssumption
    <3>2. Len(window) = 0
      BY <3>1, EmptySeq
    <3> QED
      BY <3>1, <3>2
      DEF SessionsInv, NumbersAreSmall, OfThisSender, ConnectionOpened, Confirmed, Active
  <2> QED
    BY <2>1
<1>2. TypeOK /\ WindowInv /\ SessionsInv /\ [Next]_vars => SessionsInv'
  <2> SUFFICES ASSUME TypeOK, WindowInv, SessionsInv, [Next]_vars
               PROVE  SessionsInv'
    OBVIOUS
  <2>1. CASE UNCHANGED vars
    BY <2>1
    DEF vars, senderVars, receiverVars, networkVars, SessionsInv, NumbersAreSmall,
        OfThisSender, ConnectionOpened, Confirmed, Active, IsSmall, IsOwn, SentFile,
        StartInWindow
  <2>2. CASE SenderStep /\ UNCHANGED receiverVars
    <3>1. NumbersAreSmall' /\ OfThisSender'
      BY <2>2, SenderKeepsSessions
    <3>2. Confirmed' => Confirmed /\ randSeqNum' = randSeqNum
      BY <2>2, SenderConfirmsNothing
    <3>3. ConnectionOpened'
      BY <2>2, <3>2 DEF receiverVars, SessionsInv, ConnectionOpened
    <3> QED
      BY <3>1, <3>3 DEF SessionsInv
  <2> QED
    BY <2>1, <2>2, ReceiverKeepsSessions, NetworkKeepsSessions DEF Next
<1> QED
  BY <1>1, <1>2, TypeCorrect, WindowStays, PTL DEF Spec

(* Whatever an earlier transfer left at the receiver, the data phase of a  *)
(* sender whose START was acknowledged runs in a connection of its own, as *)
(* long as the receiver is not restarted.                                  *)
THEOREM ConnectionStaysOwn ==
  ASSUME Quiet
  PROVE  Spec => []ConnectionIsOwn
<1>1. SessionsInv => ConnectionIsOwn
  BY DEF SessionsInv, ConnectionOpened, Confirmed, ConnectionIsOwn, Transferring
<1> QED
  BY <1>1, SessionsStay, PTL

---------------------------------------------------------------------------
(* The file of the transfer. *)

(* Only chunks of the running sender reach the file of its connection.     *)
LEMMA FileStep ==
  ASSUME Quiet, TypeOK, WindowInv, SessionsInv, FileOpened, [Next]_vars,
         Truncates \/ UnopenedAreEmpty
  PROVE  FileOpened'
<1>0. /\ files \in [FileIndex -> Seq(Chunk)] /\ counter \in FileIndex
      /\ FileIndex \subseteq Int
  BY DEF TypeOK, ReceiverTypeOK, FileIndex
<1>1. ASSUME UNCHANGED <<files, counter>>,
             Confirmed' => Confirmed /\ SentFile' = SentFile
      PROVE  FileOpened'
  BY <1>1 DEF FileOpened
<1>2. CASE UNCHANGED vars
  BY <1>1, <1>2
  DEF vars, senderVars, receiverVars, networkVars, Confirmed, SentFile, StartInWindow
<1>3. CASE SenderStep /\ UNCHANGED receiverVars
  BY <1>1, <1>3, SenderConfirmsNothing DEF receiverVars
<1>4. CASE NetworkStep /\ UNCHANGED <<senderVars, receiverVars>>
  BY <1>1, <1>4, NetworkKeepsSessions DEF senderVars, receiverVars, SentFile
<1>5. CASE ReceiverStep /\ UNCHANGED senderVars
  <2>1. /\ SentFile' = SentFile
        /\ UNCHANGED <<phase, window>> /\ StartInWindow' = StartInWindow
    BY <1>5 DEF senderVars, SentFile, StartInWindow
  <2>2. CASE Restart
    BY <2>2 DEF Restart, FileOpened
  <2>3. ASSUME NEW p \in toReceiver, StartAccepted(p) PROVE FileOpened'
    <3>1. counter' = counter + 1 /\ files'[counter + 1] = <<>>
      BY <2>3, OpenedIsEmpty
    <3>2. Len(files'[counter']) = 0
      BY <3>1, EmptySeq
    <3> QED
      BY <3>2 DEF FileOpened
  <2>4. ASSUME NEW p \in toReceiver,
               StartIgnored(p) \/ EndReceived(p) \/ DataDropped(p)
        PROVE  FileOpened'
    <3>1. UNCHANGED <<files, counter>> /\ (toSender' # {} => toSender # {} \/ EndReceived(p))
      BY <2>4 DEF StartIgnored, EndReceived, DataDropped, receiverVars
    <3>2. EndReceived(p) => ~Active
      BY DEF EndReceived, SessionsInv, OfThisSender, IsOwn
    <3> QED
      BY <1>1, <2>1, <3>1, <3>2 DEF Confirmed, Active
  <2>5. ASSUME NEW p \in toReceiver, DataBuffered(p) \/ DataWritten(p)
        PROVE  FileOpened'
    <3>1. Active => IsOwn(p) /\ phase # "start"
      BY <2>5 DEF SessionsInv, OfThisSender, DataBuffered, DataWritten
    <3>2. Confirmed' => Confirmed /\ Active
      BY <2>1, <3>1 DEF Confirmed, Active
    <3>3. CASE DataBuffered(p)
      BY <1>1, <2>1, <3>2, <3>3 DEF DataBuffered
    <3>4. CASE DataWritten(p)
      <4>1. p \in Packet /\ p.type = "DATA" /\ p.seq = next_seq /\ counter' = counter
        BY <3>4, SessionFacts DEF DataWritten
      <4>2. Stored(p)[next_seq] = p.data /\ p.data \in Chunk
        BY <4>1, StoredTypes, PacketFields DEF TypeOK
      <4>3. \/ files' = [files EXCEPT ![counter] = Append(@, p.data)]
            \/ files' = files
        BY <3>4, <4>2 DEF DataWritten, writeToFile
      <4>4. CASE files' = files
        BY <1>1, <2>1, <3>2, <4>1, <4>4
      <4>5. CASE files' = [files EXCEPT ![counter] = Append(@, p.data)]
        <5>1. SUFFICES ASSUME Confirmed', counter >= 0, NEW k \in 1..Len(files'[counter])
                       PROVE  files'[counter][k].of = SentFile
          BY <2>1, <4>1 DEF FileOpened
        <5>2. files[counter] \in Seq(Chunk) /\ Len(files[counter]) \in Nat
              /\ files'[counter] = Append(files[counter], p.data)
          BY <1>0, <4>5, LenProperties
        <5>3. /\ Len(files'[counter]) = Len(files[counter]) + 1
              /\ \A j \in 1..Len(files[counter]) : files'[counter][j] = files[counter][j]
              /\ files'[counter][Len(files[counter]) + 1] = p.data
          BY <4>2, <5>2, AppendProperties
        <5>4. \A j \in 1..Len(files[counter]) : files[counter][j].of = SentFile
          BY <3>2, <5>1 DEF FileOpened
        <5>5. p.data.of = SentFile
          BY <3>1, <3>2, <4>1, <5>1 DEF IsOwn
        <5>6. k \in 1..Len(files[counter]) \/ k = Len(files[counter]) + 1
          BY <5>2, <5>3
        <5> QED
          BY <5>3, <5>4, <5>5, <5>6
      <4> QED
        BY <4>3, <4>4, <4>5
    <3> QED
      BY <2>5, <3>3, <3>4
  <2> QED
    BY <1>5, <2>2, <2>3, <2>4, <2>5 DEF ReceiverStep, ReceiverHandles
<1> QED
  BY <1>2, <1>3, <1>4, <1>5 DEF Next

(* As long as START truncates the file that is written, or the receiver    *)
(* has not been restarted, the output file of a sender whose START was     *)
(* acknowledged holds chunks of its own file only, though DATA has no mark *)
(* of its connection and the receiver's map outlives connections.          *)
THEOREM FileStaysOwn ==
  ASSUME Quiet
  PROVE  Spec => []FileIsOwn
<1>1. Init => (FilesBeginEmpty => FileOpened)
  BY DEF Init, ReceiverInit, FileOpened
<1>2. (FilesBeginEmpty => FileOpened) => FileIsOwn
  BY DEF FileOpened, FileIsOwn, Confirmed, Transferring
<1>3. ASSUME TypeOK, WindowInv, SessionsInv, [Next]_vars,
             restarts = 0 => UnopenedAreEmpty, FilesBeginEmpty => FileOpened
      PROVE  FilesBeginEmpty' => FileOpened'
  <2> HAVE FilesBeginEmpty'
  <2>1. FilesBeginEmpty
    BY <1>3, RestartsCount
  <2>2. FileOpened /\ (Truncates \/ UnopenedAreEmpty)
    BY <1>3, <2>1 DEF FilesBeginEmpty
  <2> QED
    BY <1>3, <2>2, FileStep
<1> QED
  BY <1>1, <1>2, <1>3, TypeCorrect, WindowStays, SessionsStay, UnopenedRemainEmpty, PTL
  DEF Spec

---------------------------------------------------------------------------
(* What every one of several transfers promises.                           *)
(*                                                                         *)
(* Once a connection and a file are the sender's own, next_seq counts the  *)
(* chunks of its file on disk, and no ACK under way is larger (InStep).    *)

(* No restart and no failing write; START's ACK is not repeated. *)
Steady ==
  /\ Quiet /\ MaxRestarts = 0 /\ ~WriteFaults
  /\ \A p \in Replayable : p.type = "ACK" => p.seq \notin StartSeqs

IsSent(p) == p.type = "DATA" => p.seq < offset

Opened == phase \in {"open", "data"} /\ ~StartInWindow

InStep ==
  /\ \A p \in toSender : p.type = "ACK"
  /\ Active => /\ \A p \in toReceiver : IsSent(p)
               /\ \A i \in 1..Len(window) : IsSent(window[i])
  /\ Confirmed => counter >= 0 /\ next_seq <= offset
  /\ phase = "start" => \A p, q \in toSender : p = q
  /\ Opened => /\ \A p \in toSender : p.seq <= next_seq
               /\ offset - Len(window) <= next_seq

(* All that the proofs about Steady transfers build on. *)
BaseInv ==
  /\ TypeOK /\ WindowInv /\ SessionsInv
  /\ ChunksKeepNumbers /\ UnopenedAreEmpty /\ AreGapless /\ FileOpened

(* A window without START is the run of chunks before offset. *)
LEMMA FrontIsNext ==
  ASSUME Quiet, TypeOK, WindowInv, phase = "data", ~StartInWindow, window # <<>>
  PROVE  getNextSeqNum = offset - Len(window)
<1>0. /\ window \in Seq(Packet) /\ DOMAIN window = 1..Len(window)
      /\ Len(window) \in Nat /\ offset \in Nat
  BY SessionFacts
<1>1. 1 \in DOMAIN window /\ Head(window) = window[1]
  BY <1>0, HeadTailProperties, EmptySeq
<1>2. window[1] = DataPacketOf(SentFile, offset - Len(window) + 1 - 1)
  BY <1>1 DEF WindowInv, WindowIsContiguous, StartInWindow
<1> QED
  BY <1>0, <1>1, <1>2 DEF getNextSeqNum, DataPacketOf

(* No ACK is larger than the window's end. *)
LEMMA AckIsInWindow ==
  ASSUME Steady, BaseInv, InStep, NEW p, AdvanceWindow(p)
  PROVE  /\ Opened /\ p \in Packet /\ p.seq <= next_seq
         /\ getNextSeqNum = offset - Len(window) /\ getNextSeqNum \in Nat
         /\ p.seq > getNextSeqNum
         /\ p.seq - getNextSeqNum <= Len(window)
<1>0. Quiet /\ TypeOK /\ WindowInv /\ SessionsInv
  BY DEF Steady, BaseInv
<1>1. /\ phase = "data" /\ receiveAck(p) /\ p.type # "TIMEOUT"
      /\ p.seq > getNextSeqNum
  BY DEF AdvanceWindow, AwaitsAck, Acknowledges
<1>2. ~StartInWindow
  BY <1>0, StartIsNotPopped
<1>3. window # <<>> /\ getNextSeqNum \in Nat
  BY <1>0, FrontExists DEF AdvanceWindow, TypeOK
<1>4. p \in toSender
  <2>1. p # zeroPacket
    BY <1>1, <1>3 DEF zeroPacket, StartPacket
  <2> QED
    BY <1>1, <2>1 DEF receiveAck, noPacket
<1>5. /\ window \in Seq(Packet) /\ Len(window) \in Nat /\ offset \in Nat
      /\ next_seq \in Nat /\ p \in Packet /\ p.seq \in Nat
  BY <1>0, <1>4, SessionFacts, PacketFields
<1>6. getNextSeqNum = offset - Len(window)
  BY <1>0, <1>1, <1>2, <1>3, FrontIsNext
<1>7. /\ Opened /\ p.seq <= next_seq /\ next_seq <= offset
  BY <1>1, <1>2, <1>4 DEF InStep, Opened, Confirmed
<1> QED
  BY <1>1, <1>3, <1>5, <1>6, <1>7

(* The sender opens a connection by START's one ACK, which it takes from   *)
(* the network: none is left.                                              *)
LEMMA OpeningSilences ==
  ASSUME Steady, BaseInv, InStep, SenderStep, Opened', ~Opened
  PROVE  toSender' = {} /\ window' = <<>> /\ offset' = 0
<1>0. Quiet /\ TypeOK /\ WindowInv /\ SessionsInv
  BY DEF Steady, BaseInv
<1>1. Confirmed /\ phase = "start"
  BY <1>0, SenderConfirmsNothing DEF Opened, Confirmed
<1>2. PICK p \in Received : StartAcked(p) \/ StartRetried(p)
  BY <1>1
  DEF SenderStep, SenderLocal, Launch, OpenFile, SendData, EndConnection, Kill,
      Opened, Stopped, SenderReceives, RetransmitWindow, AdvanceWindow, IgnoreAck,
      AwaitsAck, FinishConnection
<1>3. window = <<StartPacket(randSeqNum)>> /\ offset = 0
  BY <1>0, <1>1 DEF WindowInv, WindowStarts
<1>4. randSeqNum \in Nat \ {0} /\ randSeqNum \in StartSeqs
  BY <1>0, <1>1, SessionFacts DEF SessionsInv, OfThisSender, Active
<1>5. StartAcked(p)
  <2>1. window[1].type = "START" /\ 1 \in DOMAIN window
    BY <1>3, <1>4, ShortWindows
  <2>2. ~StartRetried(p)
    BY <2>1 DEF StartRetried, Opened, StartInWindow
  <2> QED
    BY <1>2, <2>2
<1>6. p.seq = randSeqNum /\ p \in toSender /\ toSender' \in Remaining(p, toSender)
  BY <1>4, <1>5 DEF StartAcked, receiveAck, noPacket, zeroPacket, StartPacket
<1>7. p \notin Replayable
  BY <1>4, <1>6 DEF Steady, InStep
<1>8. toSender' = {}
  BY <1>1, <1>6, <1>7 DEF Remaining, InStep
<1>9. window' = <<>> /\ offset' = offset
  <2>1. window' = SubSeq(window, 2, Len(window)) /\ Len(window) = 1
    BY <1>3, <1>4, <1>5, ShortWindows DEF StartAcked, removeAcknowledgedPackets
  <2> QED
    BY <1>0, <1>5, <2>1, SessionFacts, SubSeqEmpty DEF StartAcked
<1> QED
  BY <1>3, <1>8, <1>9

(* Only chunks behind next_seq leave the window of an open connection.     *)
LEMMA PoppedAreStored ==
  ASSUME Steady, BaseInv, InStep, SenderStep, UNCHANGED receiverVars, Opened, Opened'
  PROVE  offset' - Len(window') <= next_seq
<1>0. /\ window \in Seq(Packet) /\ Len(window) \in Nat /\ offset \in Nat
      /\ next_seq \in Nat /\ offset - Len(window) <= next_seq
  BY SessionFacts DEF Steady, BaseInv, InStep
<1>1. CASE UNCHANGED <<window, offset>>
  BY <1>0, <1>1
<1>2. CASE SendData
  <2>1. DataPacketOf(SentFile, offset) \in Packet
    BY <1>2, SentFileExists, BuiltPackets DEF SendData, SenderTypeOK, TypeOK, BaseInv
  <2>2. Len(window') = Len(window) + 1 /\ offset' = offset + 1
    BY <1>0, <1>2, <2>1, AppendProperties DEF SendData
  <2> QED
    BY <1>0, <2>2
<1>3. ASSUME NEW p, AdvanceWindow(p) PROVE offset' - Len(window') <= next_seq
  <2> DEFINE k == p.seq - getNextSeqNum
  <2>1. /\ p \in Packet /\ p.seq \in Nat /\ p.seq <= next_seq /\ k \in Nat
        /\ getNextSeqNum = offset - Len(window) /\ getNextSeqNum \in Nat
        /\ k <= Len(window)
    BY <1>3, AckIsInWindow, PacketFields
  <2>2. window' = SubSeq(window, k + 1, Len(window)) /\ offset' = offset
    BY <1>0, <1>3, <2>1 DEF AdvanceWindow, removeAcknowledgedPackets
  <2>3. p.seq = (offset - Len(window)) + k
    BY <1>0, <2>1
  <2> HIDE DEF k
  <2>4. Len(window') = Len(window) - k
    BY <1>0, <2>1, <2>2, CutFront
  <2>5. k \in Nat /\ p.seq \in Nat /\ p.seq <= next_seq /\ offset' = offset
    BY <2>1, <2>2
  <2>6. offset' - Len(window') = p.seq
    BY <1>0, <2>3, <2>4, <2>5
  <2> QED
    BY <2>5, <2>6
<1> QED
  BY <1>1, <1>2, <1>3
  DEF SenderStep, SenderLocal, Launch, OpenFile, EndConnection, Kill, Opened,
      Stopped, SenderReceives, StartAcked, StartRetried, RetransmitWindow,
      IgnoreAck, FinishConnection, senderVars

(* A step of wSender keeps the counts in step. *)
LEMMA SenderKeepsStep ==
  ASSUME Steady, BaseInv, InStep, SenderStep, UNCHANGED receiverVars
  PROVE  InStep'
<1>0. /\ Quiet /\ TypeOK /\ WindowInv /\ SessionsInv
      /\ counter' = counter /\ next_seq' = next_seq
      /\ offset \in Nat /\ next_seq \in Nat
  BY SessionFacts DEF Steady, BaseInv, receiverVars
<1>1. \A p \in toSender' : p.type = "ACK"
  BY <1>0, SenderSends DEF InStep
<1>2. ASSUME Active'
      PROVE  /\ \A p \in toReceiver' : IsSent(p)'
             /\ \A i \in 1..Len(window') : IsSent(window[i])'
  <2>1. /\ \A i \in 1..Len(window') : window'[i] \in Range(window')
        /\ \A q \in Range(window) : \E i \in 1..Len(window) : q = window[i]
    <3>1. window' \in Seq(Packet) /\ DOMAIN window' = 1..Len(window')
      BY <1>0, SenderKeepsTypes, LenProperties DEF TypeOK, SenderTypeOK
    <3> QED
      BY <1>0, <3>1, SessionFacts DEF Range
  <2>2. CASE Launch
    <3>1. /\ toReceiver' = {StartPacket(randSeqNum')}
          /\ Range(window') = {StartPacket(randSeqNum')}
          /\ StartPacket(randSeqNum').type = "START"
      BY <1>0, <2>2, SenderSends DEF StartPacket
    <3> QED
      BY <2>1, <3>1 DEF IsSent
  <2>3. CASE ~Launch
    <3>1. Active /\ offset' \in {offset, offset + 1} /\ phase' \in {"open", "data"}
      BY <1>0, <1>2, <2>3, SenderSends DEF Active
    <3>2. ASSUME NEW q \in toReceiver \cup Range(window), q \in Packet PROVE IsSent(q)'
      <4>1. IsSent(q)
        BY <2>1, <3>1 DEF InStep
      <4> QED
        BY <1>0, <3>1, <3>2, <4>1, PacketFields DEF IsSent
    <3>3. ASSUME NEW q, IsNew(q) PROVE IsSent(q)'
      BY <1>0, <3>1, <3>3
      DEF IsNew, IsSent, StartPacket, DataPacketOf, EndPacket
    <3>4. toReceiver \cup Range(window) \subseteq Packet
      BY <1>0, SessionFacts DEF Range
    <3> QED
      BY <1>0, <2>1, <3>2, <3>3, <3>4, SenderSends
  <2> QED
    BY <2>2, <2>3
<1>3. ASSUME Confirmed' PROVE counter >= 0 /\ next_seq <= offset'
  <2>1. Confirmed /\ ~Launch /\ Active'
    BY <1>0, <1>3, SenderConfirmsNothing, SenderSends DEF Confirmed, Active
  <2>2. offset' \in {offset, offset + 1}
    BY <1>0, <2>1, SenderSends
  <2> QED
    BY <1>0, <2>1, <2>2 DEF InStep
<1>4. ASSUME phase' = "start" PROVE toSender' = {}
  BY <1>0, <1>4, SenderSends DEF Active
<1>5. ASSUME Opened'
      PROVE  /\ \A p \in toSender' : p.seq <= next_seq
             /\ offset' - Len(window') <= next_seq
  <2>1. CASE Opened
    BY <1>0, <1>5, <2>1, SenderSends, PoppedAreStored DEF InStep
  <2>2. CASE ~Opened
    BY <1>0, <1>5, <2>2, OpeningSilences, EmptySeq
  <2> QED
    BY <2>1, <2>2
<1> QED
  BY <1>0, <1>1, <1>2, <1>3, <1>4, <1>5 DEF InStep

(* So does a turn of wReceiver's loop: it answers with next_seq at most.   *)
LEMMA ReceiverKeepsStep ==
  ASSUME Steady, BaseInv, InStep, ReceiverStep, UNCHANGED senderVars
  PROVE  InStep'
<1>0. /\ UNCHANGED <<phase, offset, window>> /\ StartInWindow' = StartInWindow
      /\ offset \in Nat /\ next_seq \in Nat /\ Len(window) \in Nat
      /\ Quiet /\ TypeOK /\ SessionsInv /\ restarts = 0 /\ ~Restart
      /\ counter \in FileIndex
  BY SessionFacts
  DEF senderVars, Steady, BaseInv, TypeOK, ReceiverTypeOK, Restart, StartInWindow
<1>1. PICK p \in toReceiver : ReceiverHandles(p)
  BY <1>0 DEF ReceiverStep
<1>2. toReceiver' \subseteq toReceiver /\ p \in Packet
  <2>1. receive(p)
    BY <1>1
    DEF ReceiverHandles, StartIgnored, StartAccepted, EndReceived, DataDropped,
        DataBuffered, DataWritten
  <2> QED
    BY <1>0, <2>1, RemainingSubset, SessionFacts DEF receive
<1>3. Active' => /\ \A q \in toReceiver' : IsSent(q)'
                 /\ \A i \in 1..Len(window') : IsSent(window[i])'
  BY <1>0, <1>2 DEF InStep, Active, IsSent
<1>4. Active => IsOwn(p) /\ IsSent(p) /\ (phase = "start" => p.type = "START")
  BY <1>0 DEF SessionsInv, OfThisSender, InStep
<1>5. \A q \in toSender' : q.type = "ACK"
  BY <1>1
  DEF ReceiverHandles, StartIgnored, StartAccepted, EndReceived, DataDropped,
      DataBuffered, DataWritten, sendAck, AckPacket, InStep
<1>6. Confirmed => connection /\ Active
  BY <1>0 DEF SessionsInv, ConnectionOpened, Confirmed, Active
<1>7. Opened => Confirmed /\ phase # "start"
  BY DEF Opened, Confirmed
<1>8. CASE StartIgnored(p) \/ DataDropped(p)
  <2>1. UNCHANGED <<toSender, counter, next_seq>>
    BY <1>8 DEF StartIgnored, DataDropped, receiverVars
  <2> QED
    BY <1>0, <1>3, <1>5, <2>1 DEF InStep, Confirmed, Opened
<1>9. CASE StartAccepted(p)
  <2>1. /\ ~connection /\ next_seq' = 0 /\ counter' = counter + 1
        /\ toSender' = toSender \cup {AckPacket(p.seq)}
    BY <1>9 DEF StartAccepted, sendAck
  <2>2. ~Confirmed /\ ~Opened
    BY <1>6, <1>7, <2>1
  <2>3. phase = "start" => toSender = {}
    BY <2>2 DEF Confirmed
  <2>4. counter' >= 0
    BY <1>0, <2>1, ReceiverAssumption DEF FileIndex, ReceiverAssumption
  <2> QED
    BY <1>0, <1>3, <1>5, <2>1, <2>2, <2>3, <2>4 DEF InStep, Opened
<1>10. CASE EndReceived(p)
  <2>1. ~Active
    BY <1>4, <1>10 DEF EndReceived, IsOwn
  <2> QED
    BY <1>0, <1>5, <2>1 DEF InStep, Active, Confirmed, Opened
<1>11. CASE DataBuffered(p) \/ DataWritten(p)
  <2>1. /\ p.type = "DATA" /\ counter' = counter
        /\ \/ next_seq' = next_seq
           \/ next_seq' = next_seq + 1 /\ p.seq = next_seq
        /\ toSender' = toSender \cup {AckPacket(next_seq')}
    BY <1>11 DEF DataBuffered, DataWritten, sendAck
  <2>2. Active => phase # "start" /\ (next_seq' = next_seq + 1 => next_seq < offset)
    BY <1>0, <1>4, <2>1 DEF IsSent
  <2>3. ASSUME Confirmed' PROVE counter' >= 0 /\ next_seq' <= offset'
    <3>1. Confirmed
      BY <1>0, <2>2, <2>3 DEF Confirmed, Active
    <3> QED
      BY <1>0, <1>6, <2>1, <2>2, <3>1 DEF InStep
  <2>4. ASSUME Opened'
        PROVE  /\ \A q \in toSender' : q.seq <= next_seq'
               /\ offset' - Len(window') <= next_seq'
    <3>1. /\ \A q \in toSender : q.seq <= next_seq /\ q.seq \in Nat
          /\ offset - Len(window) <= next_seq
      BY <1>0, <2>4, SessionFacts, PacketFields DEF InStep, Opened
    <3>2. next_seq <= next_seq' /\ next_seq' \in Nat /\ AckPacket(next_seq').seq = next_seq'
      BY <1>0, <2>1 DEF AckPacket
    <3> QED
      BY <1>0, <2>1, <3>1, <3>2
  <2>5. phase' # "start"
    BY <1>0, <2>2 DEF Active
  <2> QED
    BY <1>3, <1>5, <2>3, <2>4, <2>5 DEF InStep
<1> QED
  BY <1>1, <1>8, <1>9, <1>10, <1>11 DEF ReceiverHandles

(* And the network. *)
LEMMA NetworkKeepsStep ==
  ASSUME Steady, BaseInv, InStep, NetworkStep, UNCHANGED <<senderVars, receiverVars>>
  PROVE  InStep'
<1>0. /\ UNCHANGED <<phase, offset, window, counter, next_seq>>
      /\ StartInWindow' = StartInWindow
      /\ Quiet /\ TypeOK /\ SessionsInv
      /\ toReceiver \subseteq Packet /\ toSender \subseteq Packet
  BY SessionFacts DEF senderVars, receiverVars, Steady, BaseInv, StartInWindow
<1>1. /\ \A p \in toReceiver' : p \in toReceiver \/ \E q \in toReceiver : p = Damaged(q)
      /\ \A p \in toSender' : p \in toSender \/ \E q \in toSender : p = Damaged(q)
  BY DEF NetworkStep, Lose, Corrupt
<1>2. ASSUME \A p, q \in toSender : p = q PROVE \A p, q \in toSender' : p = q
  <2>1. \/ toSender' \subseteq toSender
        \/ \E p \in toSender : toSender' = (toSender \ {p}) \cup {Damaged(p)}
    BY DEF NetworkStep, Lose, Corrupt
  <2> QED
    BY <1>2, <2>1
<1>3. \A p \in toReceiver' : \E q \in toReceiver : p.type = q.type /\ p.seq = q.seq
  BY <1>0, <1>1, DamagedPacket
<1>4. \A p \in toSender' : \E q \in toSender : p.type = q.type /\ p.seq = q.seq
  BY <1>0, <1>1, DamagedPacket
<1>5. Confirmed' => Confirmed
  BY <1>0, NetworkKeepsSessions
<1>6. Active' => /\ \A q \in toReceiver' : IsSent(q)'
                 /\ \A i \in 1..Len(window') : IsSent(window[i])'
  BY <1>0, <1>3 DEF InStep, Active, IsSent
<1>7. Opened' => /\ \A p \in toSender' : p.seq <= next_seq'
                 /\ offset' - Len(window') <= next_seq'
  BY <1>0, <1>4 DEF InStep, Opened
<1>8. \A p \in toSender' : p.type = "ACK"
  BY <1>4 DEF InStep
<1> QED
  BY <1>0, <1>2, <1>5, <1>6, <1>7, <1>8 DEF InStep

(* InStep in the initial state, and through every step. *)
LEMMA StepKeepsStep ==
  ASSUME Steady
  PROVE  /\ Init => InStep
         /\ BaseInv /\ InStep /\ [Next]_vars => InStep'
<1>1. ASSUME Init PROVE InStep
  BY <1>1
  DEF Init, SenderInit, NetworkInit, InStep, Active, Confirmed, Opened
<1>2. ASSUME BaseInv, InStep, [Next]_vars PROVE InStep'
  <2>1. CASE UNCHANGED vars
    BY <1>2, <2>1
    DEF vars, senderVars, receiverVars, networkVars, InStep, Active, Confirmed,
        Opened, IsSent, StartInWindow
  <2> QED
    BY <1>2, <2>1, SenderKeepsStep, ReceiverKeepsStep, NetworkKeepsStep DEF Next
<1> QED
  BY <1>1, <1>2

---------------------------------------------------------------------------
(* What is in step is on disk. *)

(* The current file holds the first n chunks of the sender's file. *)
LEMMA CountedIsStored ==
  ASSUME Steady, BaseInv, InStep, Confirmed, NEW n \in Int, n <= next_seq
  PROVE  IsStored(n)
<1>0. /\ files \in [FileIndex -> Seq(Chunk)] /\ counter \in FileIndex
      /\ counter >= 0 /\ next_seq \in Nat
  BY DEF BaseInv, TypeOK, ReceiverTypeOK, InStep
<1>1. /\ files[counter] \in Seq(Chunk) /\ Len(files[counter]) = next_seq
      /\ \A k \in 1..next_seq : /\ files[counter][k].idx = k - 1
                                /\ files[counter][k].of = SentFile
  BY <1>0 DEF BaseInv, AreGapless, FileOpened
<1>2. \A k \in 1..next_seq : files[counter][k] \in Chunk
  BY <1>1, ElementOfSeq
<1>3. \A k \in 1..next_seq : files[counter][k] = [of |-> SentFile, idx |-> k - 1]
  BY <1>1, <1>2 DEF Chunk
<1>4. HoldsPrefix(counter, n)
  BY <1>0, <1>1, <1>3 DEF HoldsPrefix
<1> QED
  BY <1>0, <1>4 DEF IsStored

(* What an output file holds it keeps. *)
LEMMA StoredRemains ==
  ASSUME Steady, BaseInv, [Next]_vars, NEW n \in Nat, IsStored(n), SentFile' = SentFile
  PROVE  IsStored(n)'
<1>0. /\ files \in [FileIndex -> Seq(Chunk)] /\ counter \in FileIndex
      /\ FileIndex \subseteq Int /\ TypeOK /\ UnopenedAreEmpty /\ ChunksKeepNumbers
      /\ ~Restart
  BY DEF BaseInv, TypeOK, ReceiverTypeOK, FileIndex, Restart, Steady
<1>1. PICK i \in FileIndex : i >= 0 /\ HoldsPrefix(i, n)
  BY DEF IsStored
<1>2. files[i] \in Seq(Chunk) /\ Len(files[i]) \in Nat
  BY <1>0, LenProperties
<1>3. ASSUME files'[i] = files[i] PROVE IsStored(n)'
  BY <1>1, <1>3 DEF IsStored, HoldsPrefix
<1>4. CASE \E p \in toReceiver : StartAccepted(p)
  <2>1. PICK p \in toReceiver : StartAccepted(p)
    BY <1>4
  <2>2. /\ files'[counter + 1] = <<>> /\ counter + 1 \in FileIndex
        /\ counter + 1 >= 0
        /\ \A j \in FileIndex : j # counter + 1 => files'[j] = files[j]
    BY <1>0, <2>1, OpenedIsEmpty
  <2>3. files[counter + 1] = <<>>
    BY <1>0, <2>2 DEF UnopenedAreEmpty
  <2> QED
    BY <1>3, <2>2, <2>3
<1>5. CASE \E p \in toReceiver : DataWritten(p)
  <2>1. PICK p \in toReceiver : DataWritten(p)
    BY <1>5
  <2>2. CASE i # counter
    BY <1>0, <1>3, <2>1, <2>2, WrittenIsNext
  <2>3. CASE i = counter
    <3>1. PICK d \in Chunk : files'[i] = Append(files[i], d)
      BY <1>0, <2>1, <2>3, WrittenIsNext DEF Steady
    <3>2. /\ Len(files'[i]) = Len(files[i]) + 1
          /\ \A k \in 1..Len(files[i]) : files'[i][k] = files[i][k]
      BY <1>2, <3>1, AppendProperties
    <3>3. \A k \in 1..n : k \in 1..Len(files[i])
      BY <1>1, <1>2 DEF HoldsPrefix
    <3>4. \A k \in 1..n : files'[i][k] = [of |-> SentFile, idx |-> k - 1]
      BY <1>1, <3>2, <3>3 DEF HoldsPrefix
    <3>5. Len(files'[i]) >= n
      BY <1>1, <1>2, <3>2 DEF HoldsPrefix
    <3>6. HoldsPrefix(i, n)'
      BY <3>4, <3>5 DEF HoldsPrefix
    <3> QED
      BY <1>1, <3>6 DEF IsStored
  <2> QED
    BY <2>2, <2>3
<1> QED
  BY <1>0, <1>3, <1>4, <1>5, FileSteps

(* END goes out when the file is stored, which remains so until the next   *)
(* sender is run.                                                          *)
LEMMA EndStep ==
  ASSUME Steady, BaseInv, InStep, EndMeansComplete, [Next]_vars
  PROVE  EndMeansComplete'
<1>0. Quiet /\ TypeOK /\ WindowInv /\ SessionsInv
  BY DEF Steady, BaseInv
<1>1. SUFFICES ASSUME phase' \in {"end", "done"}
               PROVE  IsStored(FileLen[SentFile])'
  BY DEF EndMeansComplete
<1>2. SentFile' = SentFile /\ phase # "idle"
  BY <1>1
  DEF Next, vars, SenderStep, SenderLocal, Launch, OpenFile, SendData, EndConnection,
      Kill, SenderReceives, StartAcked, StartRetried, RetransmitWindow,
      AdvanceWindow, IgnoreAck, FinishConnection, AwaitsAck, senderVars, SentFile,
      Running
<1>3. FileLen[SentFile] \in Nat
  BY <1>0, <1>2, SessionFacts
<1>4. IsStored(FileLen[SentFile])
  <2>1. CASE phase \in {"end", "done"}
    BY <2>1 DEF EndMeansComplete
  <2>2. CASE phase \notin {"end", "done"}
    <3>1. EndConnection
      BY <1>1, <2>2
      DEF Next, vars, SenderStep, SenderLocal, Launch, OpenFile, SendData, Kill,
          SenderReceives, StartAcked, StartRetried, RetransmitWindow,
          AdvanceWindow, IgnoreAck, FinishConnection, AwaitsAck, senderVars
    <3>2. /\ phase = "data" /\ window = <<>> /\ FileLen[SentFile] <= offset
      BY <1>0, <1>3, <3>1, SessionFacts DEF EndConnection, hasUnacknowledgedPackets
    <3>3. Opened /\ Confirmed /\ Len(window) = 0
      BY <3>2, EmptySeq DEF Opened, Confirmed, StartInWindow
    <3>4. FileLen[SentFile] <= next_seq
      BY <1>0, <1>3, <3>2, <3>3, SessionFacts DEF InStep
    <3> QED
      BY <1>3, <3>3, <3>4, CountedIsStored
  <2> QED
    BY <2>1, <2>2
<1> QED
  BY <1>2, <1>3, <1>4, StoredRemains

(* Nor does an ACK then pop more than there is. *)
LEMMA PopStep ==
  ASSUME Steady, BaseInv, InStep, WindowNeverUnderflows, [Next]_vars
  PROVE  WindowNeverUnderflows'
<1>1. ASSUME NEW p, AdvanceWindow(p) PROVE phase' # "undefined"
  <2>1. /\ p.seq - getNextSeqNum \in Int /\ Len(window) \in Nat
        /\ p.seq - getNextSeqNum <= Len(window) /\ phase = "data"
    <3>1. /\ p \in Packet /\ p.seq \in Nat /\ getNextSeqNum \in Nat
          /\ p.seq - getNextSeqNum <= Len(window)
      BY <1>1, AckIsInWindow, PacketFields
    <3>2. Len(window) \in Nat
      BY SessionFacts DEF Steady, BaseInv
    <3> QED
      BY <1>1, <3>1, <3>2 DEF AdvanceWindow, AwaitsAck
  <2> QED
    BY <1>1, <2>1 DEF AdvanceWindow
<1> QED
  BY <1>1
  DEF WindowNeverUnderflows, Next, vars, SenderStep, SenderLocal, Launch, OpenFile,
      SendData, EndConnection, Kill, SenderReceives, StartAcked, StartRetried,
      RetransmitWindow, IgnoreAck, FinishConnection, senderVars

TransferInv == InStep /\ EndMeansComplete /\ WindowNeverUnderflows

(* TransferInv holds in every state. *)
LEMMA TransfersStay ==
  ASSUME Steady
  PROVE  Spec => [](BaseInv /\ TransferInv)
<1>1. Quiet /\ ~WriteFaults /\ MaxRestarts = 0
  BY DEF Steady
<1>2. Init => FileOpened /\ TransferInv
  <2>1. Init => InStep
    BY StepKeepsStep
  <2>2. Init => phase = "idle" /\ counter = -1
    BY DEF Init, SenderInit, ReceiverInit
  <2> QED
    BY <2>1, <2>2
    DEF FileOpened, TransferInv, EndMeansComplete, WindowNeverUnderflows
<1>3. TypeOK /\ WindowInv /\ SessionsInv /\ UnopenedAreEmpty /\ FileOpened /\ [Next]_vars
        => FileOpened'
  BY <1>1, FileStep
<1>4. BaseInv /\ TransferInv /\ [Next]_vars => TransferInv'
  BY StepKeepsStep, EndStep, PopStep DEF TransferInv
<1>5. BaseInv <=> /\ TypeOK /\ WindowInv /\ SessionsInv
                  /\ ChunksKeepNumbers /\ UnopenedAreEmpty /\ AreGapless /\ FileOpened
  BY DEF BaseInv
<1>6. Spec => []SessionsInv /\ []UnopenedAreEmpty /\ []FilesHaveNoGaps
  BY <1>1, SessionsStay, UnopenedAreAlwaysEmpty, FilesStayGapless
<1>7. TypeOK /\ FilesHaveNoGaps => AreGapless
  BY <1>1 DEF FilesHaveNoGaps, FilesBeginEmpty, TypeOK, ReceiverTypeOK
<1> QED
  BY <1>2, <1>3, <1>4, <1>5, <1>6, <1>7, TypeCorrect, WindowStays, NumbersAreKept, PTL
  DEF Spec

(* However many transfers came before, finished or killed, a chunk leaves  *)
(* the window of a sender only once an output file holds its file up to    *)
(* that chunk.                                                             *)
THEOREM EveryUnstoredIsKept ==
  ASSUME Steady
  PROVE  Spec => []UnstoredIsKept
<1>1. BaseInv /\ TransferInv => UnstoredIsKept
  <2> SUFFICES ASSUME BaseInv, TransferInv, Transferring
               PROVE  IsStored(offset - Len(window))
    BY DEF UnstoredIsKept
  <2>1. Opened /\ Confirmed /\ InStep
    BY DEF Transferring, Opened, Confirmed, TransferInv
  <2>2. offset - Len(window) \in Int /\ offset - Len(window) <= next_seq
    BY <2>1, SessionFacts DEF InStep, Steady, BaseInv
  <2> QED
    BY <2>1, <2>2, CountedIsStored
<1> QED
  BY <1>1, TransfersStay, PTL

(* When any of the senders sends END, an output file is its whole file.    *)
THEOREM EveryEndIsComplete ==
  ASSUME Steady
  PROVE  Spec => []EndMeansComplete
<1>1. BaseInv /\ TransferInv => EndMeansComplete
  BY DEF TransferInv
<1> QED
  BY <1>1, TransfersStay, PTL

(* In none of the transfers does an ACK make the sender pop more packets   *)
(* than its window holds.                                                  *)
THEOREM EveryWindowStaysPopulated ==
  ASSUME Steady
  PROVE  Spec => []WindowNeverUnderflows
<1>1. BaseInv /\ TransferInv => WindowNeverUnderflows
  BY DEF TransferInv
<1> QED
  BY <1>1, TransfersStay, PTL
===========================================================================

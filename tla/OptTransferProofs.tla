------------------------- MODULE OptTransferProofs -------------------------
(***************************************************************************)
(* Proofs about OptTransfer, for any files, windows, numbers of transfers  *)
(* and connections: types, the sender's window, and what the receiver      *)
(* holds, which is what is marked in that window or gone from it, and      *)
(* nothing beyond its own; and the last transfer implements                *)
(* ReliableTransfer.  And about OptTimers, for any timeout and lateness:   *)
(* the clock only restricts OptTransfer, it always has a timeout set, and  *)
(* no unacknowledged packet waits longer than ResentInTime says.           *)
(*                                                                         *)
(* What is marked is received if every ACK under way is one of this        *)
(* transfer (OnTheNet), which takes users who wait for silence, a recvfrom *)
(* that is not interrupted, and START numbers above the data numbers       *)
(* (Orderly).  A packet's age is bounded by when the recvfrom in progress  *)
(* began: at that moment it was at most Timeout old, or an answer had just *)
(* arrived (NoneIsLate), and a recvfrom lasts Timeout + Late at most.      *)
(***************************************************************************)
EXTENDS OptTimers, WtpNetworkProofs

Entry == [packet : Packet, isAcked : BOOLEAN]

---------------------------------------------------------------------------
(* The window. *)

(* The window and the sequences it is made of. *)
LEMMA WindowEntries ==
  ASSUME SenderTypeOK
  PROVE  /\ window \in Seq(Entry) /\ Len(window) \in Nat
         /\ DOMAIN window = 1..Len(window)
         /\ \A i \in 1..Len(window) : window[i] \in Entry
         /\ windowSize \in Nat \ {0} /\ offset \in Nat /\ randSeqNum \in Nat
<1>1. window \in Seq(Entry) /\ offset \in Nat /\ randSeqNum \in Nat
  BY DEF SenderTypeOK, Entry
<1>2. \A i \in 1..Len(window) : window[i] \in Entry
  BY <1>1, ElementOfSeq
<1> QED
  BY <1>1, <1>2, LenProperties, OptSenderAssumption DEF OptSenderAssumption

(* The count of acknowledged packets at the front of w: determineWindow-   *)
(* Advance pops them all and stops at the first that is not acknowledged.  *)
LEMMA AdvanceCount ==
  ASSUME NEW w \in Seq(Entry)
  PROVE  \E k \in 0..Len(w) :
           /\ determineWindowAdvance(w) = SubSeq(w, k + 1, Len(w))
           /\ \A i \in 1..k : w[i].isAcked
           /\ k < Len(w) => ~w[k + 1].isAcked
<1>0. Len(w) \in Nat
  BY LenProperties
<1> DEFINE Run(k) == \A i \in 1..k : w[i].isAcked
           Runs == {k \in 0..Len(w) : Run(k)}
<1>1. 0 \in Runs
  BY <1>0
<1>2. PICK m \in Runs : \A k \in Runs : m >= k
  <2>1. Runs \subseteq 0..Len(w) /\ Runs # {}
    BY <1>1
  <2> HIDE DEF Runs
  <2> QED
    BY <1>0, <2>1, GreatestNumber
<1>3. Max(Runs) \in Runs /\ \A k \in Runs : Max(Runs) >= k
  <2> HIDE DEF Runs
  <2> QED
    BY <1>2 DEF Max
<1> DEFINE advanced == Max(Runs)
<1>4. determineWindowAdvance(w) = SubSeq(w, advanced + 1, Len(w))
  BY DEF determineWindowAdvance
<1>5. advanced \in 0..Len(w) /\ Run(advanced)
  BY <1>3
<1>6. ASSUME advanced < Len(w), w[advanced + 1].isAcked
      PROVE  FALSE
  <2> HIDE DEF advanced
  <2>1. advanced + 1 \in 0..Len(w) /\ Run(advanced + 1)
    BY <1>0, <1>5, <1>6
  <2>2. advanced >= advanced + 1
    BY <1>3, <2>1 DEF advanced
  <2> QED
    BY <1>5, <2>2
<1> HIDE DEF advanced
<1> QED
  BY <1>4, <1>5, <1>6

(* Marking changes flags only. *)
LEMMA MarkedWindow ==
  ASSUME SenderTypeOK, NEW n \in Nat
  PROVE  LET w == markPacketAsAcked(n) IN
         /\ w \in Seq(Entry) /\ Len(w) = Len(window)
         /\ \A i \in 1..Len(window) :
              /\ w[i].packet = window[i].packet
              /\ w[i].isAcked <=> (window[i].isAcked \/ window[i].packet.seq = n)
<1> DEFINE w == markPacketAsAcked(n)
           e(i) == IF window[i].packet.seq = n
                     THEN [window[i] EXCEPT !.isAcked = TRUE] ELSE window[i]
<1>0. /\ Len(window) \in Nat /\ DOMAIN window = 1..Len(window)
      /\ \A i \in 1..Len(window) : window[i] \in Entry
  BY WindowEntries
<1>1. w = [i \in 1..Len(window) |-> e(i)]
  BY <1>0 DEF markPacketAsAcked
<1>2. \A i \in 1..Len(window) :
        /\ e(i) \in Entry /\ e(i).packet = window[i].packet
        /\ e(i).isAcked <=> (window[i].isAcked \/ window[i].packet.seq = n)
  BY <1>0 DEF Entry
<1> HIDE DEF e
<1>3. w \in Seq(Entry) /\ Len(w) = Len(window)
  BY <1>0, <1>1, <1>2, IsASeq, LenProperties
<1>4. \A i \in 1..Len(window) : w[i] = e(i)
  BY <1>1
<1> QED
  BY <1>2, <1>3, <1>4

(* What one ACK does to the window: k packets leave at the front, each     *)
(* acknowledged before or by this ACK, and the flags of the others follow. *)
LEMMA AckedWindow ==
  ASSUME SenderTypeOK, NEW p \in Packet, AckReceived(p)
  PROVE  \E k \in 0..Len(window) :
           /\ window' \in Seq(Entry) /\ Len(window') = Len(window) - k
           /\ \A i \in 1..(Len(window) - k) :
                /\ window'[i].packet = window[i + k].packet
                /\ window'[i].isAcked <=>
                     (window[i + k].isAcked \/ window[i + k].packet.seq = p.seq)
           /\ \A i \in 1..k : window[i].isAcked \/ window[i].packet.seq = p.seq
           /\ k < Len(window) => ~window'[1].isAcked
<1> DEFINE w == markPacketAsAcked(p.seq)
<1>0. Len(window) \in Nat /\ p.seq \in Nat
  BY WindowEntries, PacketFields
<1>1. /\ w \in Seq(Entry) /\ Len(w) = Len(window)
      /\ \A i \in 1..Len(window) :
           /\ w[i].packet = window[i].packet
           /\ w[i].isAcked <=> (window[i].isAcked \/ window[i].packet.seq = p.seq)
  BY <1>0, MarkedWindow
<1>2. window' = determineWindowAdvance(w)
  BY DEF AckReceived
<1> HIDE DEF w
<1>3. PICK k \in 0..Len(w) :
        /\ window' = SubSeq(w, k + 1, Len(w))
        /\ \A i \in 1..k : w[i].isAcked
        /\ k < Len(w) => ~w[k + 1].isAcked
  BY <1>1, <1>2, AdvanceCount
<1>4. k \in Nat /\ k <= Len(w) /\ k \in 0..Len(window)
  BY <1>0, <1>1
<1>5. /\ window' \in Seq(Entry) /\ Len(window') = Len(window) - k
      /\ \A i \in 1..(Len(window) - k) : window'[i] = w[i + k]
  BY <1>1, <1>3, <1>4, CutFront
<1>6. \A i \in 1..(Len(window) - k) : i + k \in 1..Len(window)
  BY <1>0, <1>4
<1>7. \A i \in 1..(Len(window) - k) :
        /\ window'[i].packet = window[i + k].packet
        /\ window'[i].isAcked <=>
             (window[i + k].isAcked \/ window[i + k].packet.seq = p.seq)
  BY <1>1, <1>5, <1>6
<1>8. \A i \in 1..k : window[i].isAcked \/ window[i].packet.seq = p.seq
  <2>1. \A i \in 1..k : i \in 1..Len(window)
    BY <1>0, <1>4
  <2> QED
    BY <1>1, <1>3, <2>1
<1>9. k < Len(window) => ~window'[1].isAcked
  <2> SUFFICES ASSUME k < Len(window)
               PROVE  ~window'[1].isAcked
    OBVIOUS
  <2>1. 1 \in 1..(Len(window) - k) /\ 1 + k = k + 1
    BY <1>0, <1>4
  <2> QED
    BY <1>1, <1>3, <1>5, <2>1
<1> QED
  BY <1>4, <1>5, <1>7, <1>8, <1>9

---------------------------------------------------------------------------
(* Type correctness, one lemma for each part of Next. *)

(* An answer of recvfrom is a packet and nothing new is in flight. *)
LEMMA ReceivedPacket ==
  ASSUME NetworkTypeOK, NEW p, receiveAck(p)
  PROVE  p \in Packet /\ toSender' \subseteq toSender
<1>1. noPacket \in Packet /\ zeroPacket \in Packet
  BY BuiltPackets DEF noPacket, zeroPacket, Packet, ControlPacket
<1>2. p \in toSender => p \in Packet
  BY DEF NetworkTypeOK
<1>3. toSender' \in Remaining(p, toSender) => toSender' \subseteq toSender
  BY RemainingSubset
<1> QED
  BY <1>1, <1>2, <1>3 DEF receiveAck

(* A started sender has a file to send. *)
LEMMA SentFileExists ==
  ASSUME SenderTypeOK, phase # "idle"
  PROVE  SentFile \in File /\ FileLen[SentFile] \in Nat
BY OptSenderAssumption DEF SenderTypeOK, SentFile, OptSenderAssumption

(* A packet that enters the window, alone or behind others, is an entry. *)
LEMMA WindowExtended ==
  ASSUME SenderTypeOK, NEW p \in Packet
  PROVE  /\ InTheWindow(p) \in Entry /\ <<InTheWindow(p)>> \in Seq(Entry)
         /\ Append(window, InTheWindow(p)) \in Seq(Entry)
<1>1. InTheWindow(p) \in Entry
  BY DEF InTheWindow, Entry
<1> QED
  BY <1>1, WindowEntries, AppendProperties

(* No step of wSenderOpt, or of its user, leaves TypeOK. *)
LEMMA SenderKeepsTypes ==
  ASSUME TypeOK, SenderStep, UNCHANGED receiverVars
  PROVE  TypeOK'
<1> USE DEF TypeOK
<1>0. ReceiverTypeOK' /\ window \in Seq(Entry)
  BY WindowEntries DEF ReceiverTypeOK, receiverVars
<1>1. CASE Launch
  <2>1. session' \in 1..Sessions /\ session' \in 0..Sessions
    BY <1>1, OptSenderAssumption DEF Launch, SenderTypeOK, OptSenderAssumption
  <2>2. PICK r \in StartSeqs : /\ randSeqNum' = r
                               /\ toReceiver' = toReceiver \cup {StartPacket(r)}
                               /\ window' = <<InTheWindow(StartPacket(r))>>
    BY <1>1 DEF Launch, sendPacket
  <2>3. r \in Nat /\ StartPacket(r) \in Packet
    BY BuiltPackets, OptSenderAssumption DEF OptSenderAssumption
  <2>4. window' \in Seq(Entry)
    BY <2>2, <2>3, WindowExtended
  <2> QED
    BY <1>0, <1>1, <2>1, <2>2, <2>3, <2>4
    DEF Launch, SenderTypeOK, NetworkTypeOK, Entry
<1>2. CASE OpenFile
  BY <1>0, <1>2 DEF OpenFile, SenderTypeOK, NetworkTypeOK, networkVars
<1>3. CASE SendData
  <2>1. DataPacketOf(SentFile, offset) \in Packet
    BY <1>3, SentFileExists, BuiltPackets DEF SendData, SenderTypeOK
  <2>2. window' \in Seq(Entry)
    BY <1>3, <2>1, WindowExtended DEF SendData
  <2>3. offset + 1 \in Nat
    BY DEF SenderTypeOK
  <2> QED
    BY <1>0, <1>3, <2>1, <2>2, <2>3
    DEF SendData, sendPacket, SenderTypeOK, NetworkTypeOK, Entry
<1>4. CASE EndConnection
  <2>1. EndPacket(randSeqNum) \in Packet
    BY BuiltPackets DEF SenderTypeOK
  <2>2. window' \in Seq(Entry)
    BY <1>4, <2>1, WindowExtended DEF EndConnection
  <2> QED
    BY <1>0, <1>4, <2>1, <2>2
    DEF EndConnection, sendPacket, SenderTypeOK, NetworkTypeOK, Entry
<1>5. CASE \E p \in Received : SenderReceives(p)
  <2>1. PICK p \in Received : SenderReceives(p)
    BY <1>5
  <2>2. receiveAck(p)
    BY <2>1 DEF SenderReceives, StartAcked, StartResent, RetransmitTimedOut,
                AckReceived, InvalidAckDropped, FinishConnection
  <2>3. p \in Packet /\ toSender' \subseteq Packet
    BY <2>2, ReceivedPacket DEF NetworkTypeOK
  <2>4. CASE StartAcked(p)
    <3>1. window = <<>> => Tail(window) = <<>>
      OBVIOUS
    <3>2. window # <<>> => Tail(window) \in Seq(Entry)
      BY <1>0, HeadTailProperties
    <3>3. window' \in Seq(Entry)
      BY <2>4, <3>1, <3>2, EmptySeq DEF StartAcked
    <3> QED
      BY <1>0, <2>3, <2>4, <3>3 DEF StartAcked, SenderTypeOK, NetworkTypeOK, Entry
  <2>5. CASE StartResent(p)
    <3>1. StartPacket(randSeqNum) \in Packet
      BY BuiltPackets DEF SenderTypeOK
    <3> QED
      BY <1>0, <2>3, <2>5, <3>1
      DEF StartResent, sendPacket, SenderTypeOK, NetworkTypeOK, senderVars
  <2>6. CASE \E timedOut \in SUBSET Unacked : RetransmitTimedOut(p, timedOut)
    <3>1. Unacked \subseteq Packet
      BY WindowEntries DEF Unacked, Entry
    <3> QED
      BY <1>0, <2>3, <2>6, <3>1
      DEF RetransmitTimedOut, SenderTypeOK, NetworkTypeOK, senderVars
  <2>7. CASE AckReceived(p)
    <3>1. window' \in Seq(Entry)
      BY <2>3, <2>7, AckedWindow
    <3> QED
      BY <1>0, <2>3, <2>7, <3>1 DEF AckReceived, SenderTypeOK, NetworkTypeOK, Entry
  <2>8. CASE InvalidAckDropped(p)
    BY <1>0, <2>3, <2>8 DEF InvalidAckDropped, SenderTypeOK, NetworkTypeOK, senderVars
  <2>9. CASE FinishConnection(p)
    <3>1. EndPacket(randSeqNum) \in Packet
      BY BuiltPackets DEF SenderTypeOK
    <3>2. toReceiver' \subseteq Packet
      BY <2>9, <3>1 DEF FinishConnection, sendPacket, NetworkTypeOK
    <3> QED
      BY <1>0, <2>3, <2>9, <3>2 DEF FinishConnection, SenderTypeOK, NetworkTypeOK
  <2> QED
    BY <2>1, <2>4, <2>5, <2>6, <2>7, <2>8, <2>9 DEF SenderReceives
<1> QED
  BY <1>1, <1>2, <1>3, <1>4, <1>5 DEF SenderStep, SenderLocal

(* A chunk stored under a number leaves a map from numbers to chunks. *)
LEMMA StoredTypes ==
  ASSUME ReceiverTypeOK, NEW p \in Packet, p.type = "DATA"
  PROVE  /\ DOMAIN Stored(p) = DOMAIN receivedPackets \cup {p.seq}
         /\ DOMAIN Stored(p) \subseteq Nat
         /\ \A n \in DOMAIN Stored(p) : Stored(p)[n] \in Chunk
         /\ Stored(p)[p.seq] = p.data
         /\ \A n \in DOMAIN receivedPackets :
              n # p.seq => Stored(p)[n] = receivedPackets[n]
<1>1. p.seq \in Nat /\ p.data \in Chunk
  BY PacketFields
<1> QED
  BY <1>1 DEF Stored, ReceiverTypeOK

(* A chunk is in the map before it is looked up there: nothing is written. *)
LEMMA NothingIsWritten ==
  ASSUME ReceiverTypeOK, NEW p \in Packet, DataReceived(p)
  PROVE  files' = files
BY StoredTypes DEF DataReceived

(* No turn of wReceiverOpt's loop leaves TypeOK. *)
LEMMA ReceiverKeepsTypes ==
  ASSUME TypeOK, ReceiverStep, UNCHANGED senderVars
  PROVE  TypeOK'
<1> USE DEF TypeOK
<1>0. SenderTypeOK'
  BY DEF SenderTypeOK, senderVars
<1>1. PICK p \in toReceiver : ReceiverHandles(p)
  BY DEF ReceiverStep
<1>2. p \in Packet /\ p.seq \in Nat
  BY PacketFields DEF NetworkTypeOK
<1>3. toReceiver' \subseteq Packet
  BY <1>1, RemainingSubset
  DEF ReceiverHandles, StartIgnored, StartAccepted, EndReceived, DataDropped,
      DataReceived, receive, NetworkTypeOK
<1>4. ASSUME NEW n \in Nat, sendAck(n)
      PROVE  toSender' \subseteq Packet
  BY <1>4, BuiltPackets DEF sendAck, NetworkTypeOK
<1>5. CASE StartIgnored(p) \/ DataDropped(p)
  BY <1>0, <1>3, <1>5
  DEF StartIgnored, DataDropped, ReceiverTypeOK, NetworkTypeOK, receiverVars
<1>6. CASE StartAccepted(p)
  <2>1. counter + 1 \in FileIndex
    BY <1>6, OptReceiverAssumption
    DEF StartAccepted, ReceiverTypeOK, FileIndex, OptReceiverAssumption
  <2>2. files' \in [FileIndex -> Seq(Chunk)]
    BY <1>6, EmptySeq DEF StartAccepted, ReceiverTypeOK
  <2> QED
    BY <1>0, <1>2, <1>3, <1>4, <1>6, <2>1, <2>2
    DEF StartAccepted, ReceiverTypeOK, NetworkTypeOK
<1>7. CASE EndReceived(p)
  BY <1>0, <1>3, <1>4, <1>7 DEF EndReceived, ReceiverTypeOK, NetworkTypeOK
<1>8. CASE DataReceived(p)
  <2>1. /\ receivedPackets' = Stored(p) /\ p.type = "DATA" /\ sendAck(p.seq)
        /\ connection' = connection /\ counter' = counter /\ startACK' = startACK
    BY <1>8 DEF DataReceived
  <2>2. files' = files
    BY <1>2, <1>8, NothingIsWritten
  <2> QED
    BY <1>0, <1>2, <1>3, <1>4, <2>1, <2>2, StoredTypes
    DEF ReceiverTypeOK, NetworkTypeOK
<1> QED
  BY <1>1, <1>5, <1>6, <1>7, <1>8 DEF ReceiverHandles

(* Loss and damage leave TypeOK. *)
LEMMA NetworkKeepsTypes ==
  ASSUME TypeOK, NetworkStep, UNCHANGED <<senderVars, receiverVars>>
  PROVE  TypeOK'
<1>1. SenderTypeOK' /\ ReceiverTypeOK'
  BY DEF TypeOK, SenderTypeOK, ReceiverTypeOK, senderVars, receiverVars
<1>2. NetworkTypeOK'
  BY NetworkStaysTyped DEF TypeOK
<1> QED
  BY <1>1, <1>2 DEF TypeOK

(* Every reachable state is well typed: the window holds packets, the map  *)
(* holds chunks under numbers, the counter names a file.                   *)
THEOREM TypeCorrect == Spec => []TypeOK
<1>1. Init => TypeOK
  <2> SUFFICES ASSUME Init PROVE TypeOK
    OBVIOUS
  <2>1. -1 \in FileIndex
    BY OptReceiverAssumption DEF FileIndex, OptReceiverAssumption
  <2>2. window \in Seq([packet : Packet, isAcked : BOOLEAN])
    BY DEF Init, SenderInit
  <2>3. SenderTypeOK /\ NetworkTypeOK
    BY <2>2, OptSenderAssumption
    DEF Init, SenderInit, NetworkInit, SenderTypeOK, NetworkTypeOK, OptSenderAssumption
  <2>4. ReceiverTypeOK
    BY <2>1 DEF Init, ReceiverInit, ReceiverTypeOK
  <2> QED
    BY <2>3, <2>4 DEF TypeOK
<1>2. TypeOK /\ [Next]_vars => TypeOK'
  <2> SUFFICES ASSUME TypeOK, [Next]_vars PROVE TypeOK'
    OBVIOUS
  <2>1. CASE UNCHANGED vars
    BY <2>1 DEF vars, TypeOK, SenderTypeOK, ReceiverTypeOK, NetworkTypeOK,
                senderVars, receiverVars, networkVars
  <2> QED
    BY <2>1, SenderKeepsTypes, ReceiverKeepsTypes, NetworkKeepsTypes DEF Next
<1> QED
  BY <1>1, <1>2, PTL DEF Spec

---------------------------------------------------------------------------
(* The window. *)

(* Before the data phase the window holds START until it is acknowledged. *)
WindowStarts ==
  /\ phase = "start" => window = <<InTheWindow(StartPacket(randSeqNum))>>
  /\ phase = "open" => window = <<>>
  /\ phase \in {"start", "open", "failed"} => offset = 0

(* WindowIsOutstanding by indices, an empty window included. *)
Outstands ==
  /\ Len(window) <= windowSize
  /\ 0 < Len(window) => ~window[1].isAcked
  /\ \A i \in 1..Len(window) :
       window[i].packet = DataPacketOf(SentFile, offset - Len(window) + i - 1)

WindowInv == WindowStarts /\ (phase = "data" => Outstands)

(* Which says more than WindowIsOutstanding. *)
LEMMA OutstandsIsMeant ==
  ASSUME TypeOK, WindowInv
  PROVE  WindowIsOutstanding
<1>1. /\ window \in Seq(Entry) /\ DOMAIN window = 1..Len(window)
      /\ Len(window) \in Nat
  BY WindowEntries DEF TypeOK
<1>2. window # <<>> => Head(window) = window[1] /\ 0 < Len(window)
  BY <1>1, HeadTailProperties, EmptySeq
<1> QED
  BY <1>1, <1>2 DEF WindowInv, Outstands, WindowIsOutstanding

(* One step of wSenderOpt keeps the window. *)
LEMMA SenderKeepsWindow ==
  ASSUME TypeOK, WindowInv, SenderStep
  PROVE  WindowInv'
<1> DEFINE n == Len(window)
<1>0. /\ window \in Seq(Entry) /\ n \in Nat /\ DOMAIN window = 1..n
      /\ offset \in Nat /\ randSeqNum \in Nat /\ windowSize \in Nat \ {0}
  BY WindowEntries DEF TypeOK
<1>1. CASE Launch
  BY <1>1 DEF Launch, WindowInv, WindowStarts
<1>2. CASE OpenFile
  <2>1. /\ phase = "open" /\ phase' \in {"failed", "data"}
        /\ window' = window /\ offset' = offset
    BY <1>2 DEF OpenFile
  <2>2. window' = <<>> /\ Len(window') = 0
    BY <2>1, EmptySeq DEF WindowInv, WindowStarts
  <2> QED
    BY <1>0, <2>1, <2>2 DEF WindowInv, WindowStarts, Outstands
<1>3. CASE SendData
  <2> DEFINE d == DataPacketOf(SentFile, offset)
  <2>1. /\ phase = "data" /\ phase' = "data" /\ offset' = offset + 1
        /\ n < windowSize /\ SentFile' = SentFile
        /\ window' = Append(window, InTheWindow(d))
    BY <1>3 DEF SendData, CanSend, canAddPacket, SentFile
  <2>2. d \in Packet
    BY <1>3, SentFileExists, BuiltPackets DEF SendData, SenderTypeOK, TypeOK
  <2>3. /\ Len(window') = n + 1
        /\ \A i \in 1..n : window'[i] = window[i]
        /\ window'[n + 1] = InTheWindow(d)
    BY <1>0, <2>1, <2>2, WindowExtended, AppendProperties DEF TypeOK
  <2>4. InTheWindow(d).packet = d /\ ~InTheWindow(d).isAcked
    BY DEF InTheWindow
  <2>5. ASSUME NEW i \in 1..(n + 1)
        PROVE  window'[i].packet =
                 DataPacketOf(SentFile, (offset + 1) - (n + 1) + i - 1)
    <3>1. (offset + 1) - (n + 1) + i - 1 = offset - n + i - 1
      BY <1>0
    <3>2. CASE i = n + 1
      <4>1. offset - n + i - 1 = offset
        BY <1>0, <3>2
      <4> QED
        BY <2>3, <2>4, <3>1, <3>2, <4>1
    <3>3. CASE i # n + 1
      <4>1. i \in 1..n
        BY <1>0, <3>3
      <4>2. window[i].packet = DataPacketOf(SentFile, offset - n + i - 1)
        BY <2>1, <4>1 DEF WindowInv, Outstands
      <4> QED
        BY <2>3, <3>1, <4>1, <4>2
    <3> QED
      BY <3>2, <3>3
  <2>6. ~window'[1].isAcked
    <3>1. CASE n = 0
      BY <2>3, <2>4, <3>1
    <3>2. CASE n # 0
      BY <1>0, <2>1, <2>3, <3>2 DEF WindowInv, Outstands
    <3> QED
      BY <3>1, <3>2
  <2>7. n + 1 <= windowSize
    BY <1>0, <2>1
  <2> QED
    BY <2>1, <2>3, <2>5, <2>6, <2>7 DEF WindowInv, WindowStarts, Outstands
<1>4. CASE EndConnection
  BY <1>4 DEF EndConnection, WindowInv, WindowStarts
<1>5. CASE \E p \in Received : SenderReceives(p)
  <2>1. PICK p \in Received : SenderReceives(p)
    BY <1>5
  <2>2. CASE StartAcked(p)
    <3>1. /\ phase = "start" /\ phase' = "open" /\ offset' = offset
          /\ window' = Tail(window)
      BY <2>2 DEF StartAcked
    <3>2. window = <<InTheWindow(StartPacket(randSeqNum))>>
      BY <3>1 DEF WindowInv, WindowStarts
    <3>3. window' = <<>>
      BY <3>1, <3>2
    <3> QED
      BY <3>1, <3>3 DEF WindowInv, WindowStarts
  <2>3. CASE UNCHANGED senderVars
    <3>1. SentFile' = SentFile
      BY <2>3 DEF senderVars, SentFile
    <3> QED
      BY <2>3, <3>1 DEF senderVars, WindowInv, WindowStarts, Outstands
  <2>4. CASE AckReceived(p)
    <3>1. p \in Packet
      BY <2>4, ReceivedPacket DEF AckReceived, TypeOK
    <3>2. phase = "data" /\ phase' = "data" /\ offset' = offset /\ SentFile' = SentFile
      BY <2>4 DEF AckReceived, AwaitsAck, SentFile
    <3>3. PICK k \in 0..n :
            /\ Len(window') = n - k
            /\ \A i \in 1..(n - k) : window'[i].packet = window[i + k].packet
            /\ k < n => ~window'[1].isAcked
      BY <2>4, <3>1, AckedWindow DEF TypeOK
    <3>4. ASSUME NEW i \in 1..(n - k)
          PROVE  window'[i].packet = DataPacketOf(SentFile, offset - (n - k) + i - 1)
      <4>1. /\ i + k \in 1..n
            /\ offset - n + (i + k) - 1 = offset - (n - k) + i - 1
        BY <1>0
      <4> QED
        BY <3>2, <3>3, <4>1 DEF WindowInv, Outstands
    <3>5. n - k <= windowSize /\ (0 < n - k => k < n)
      BY <1>0, <3>2 DEF WindowInv, Outstands
    <3> QED
      BY <3>2, <3>3, <3>4, <3>5 DEF WindowInv, WindowStarts, Outstands
  <2>5. CASE FinishConnection(p)
    BY <2>5 DEF FinishConnection, WindowInv, WindowStarts
  <2> QED
    BY <2>1, <2>2, <2>3, <2>4, <2>5
    DEF SenderReceives, StartResent, RetransmitTimedOut, InvalidAckDropped
<1> QED
  BY <1>1, <1>2, <1>3, <1>4, <1>5 DEF SenderStep, SenderLocal

(* One step of the system keeps the window. *)
LEMMA WindowStep ==
  ASSUME TypeOK, WindowInv, [Next]_vars
  PROVE  WindowInv'
<1>1. CASE UNCHANGED senderVars
  <2>1. SentFile' = SentFile
    BY <1>1 DEF senderVars, SentFile
  <2> QED
    BY <1>1, <2>1 DEF senderVars, WindowInv, WindowStarts, Outstands
<1>2. CASE SenderStep
  BY <1>2, SenderKeepsWindow
<1> QED
  BY <1>1, <1>2 DEF Next, vars

(* WindowInv holds in every state, whatever ACKs arrive. *)
LEMMA WindowStays == Spec => []WindowInv
<1>1. Init => WindowInv
  BY DEF Init, SenderInit, WindowInv, WindowStarts
<1>2. TypeOK /\ WindowInv /\ [Next]_vars => WindowInv'
  BY WindowStep
<1> QED
  BY <1>1, <1>2, TypeCorrect, PTL DEF Spec

(* In every state the window holds the chunks just before offset, at most  *)
(* windowSize, and the first is not acknowledged, whatever ACKs arrive and *)
(* however many senders run: determineWindowAdvance stops nowhere else.    *)
THEOREM WindowStaysOutstanding == Spec => []WindowIsOutstanding
<1>1. TypeOK /\ WindowInv => WindowIsOutstanding
  BY OutstandsIsMeant
<1> QED
  BY <1>1, WindowStays, TypeCorrect, PTL

---------------------------------------------------------------------------
(* What the receiver holds. *)

Orderly ==
  /\ QuietLaunch /\ ~MayInterrupt
  /\ \A r \in StartSeqs, f \in File : FileLen[f] <= r

---------------------------------------------------------------------------
(* What is under way belongs to the transfer that runs. *)

OfThisTransfer(p) ==
  \/ p.type \in {"START", "END"} /\ p.seq = randSeqNum
  \/ /\ p.type = "DATA" /\ p.seq < offset
     /\ p.data = [of |-> SentFile, idx |-> p.seq]

AnswersThisTransfer(p) ==
  /\ p.type = "ACK"
  /\ \/ p.seq = randSeqNum /\ startACK = randSeqNum
     \/ p.seq < offset /\ IsReceived(p.seq)

OnTheNet ==
  /\ phase = "idle" => toReceiver = {} /\ toSender = {}
  /\ phase # "idle" => randSeqNum \in StartSeqs /\ offset <= FileLen[SentFile]
  /\ phase \in {"open", "data", "end", "done", "failed"} => startACK = randSeqNum
  /\ \A p \in toReceiver : OfThisTransfer(p)
  /\ \A p \in toReceiver : p.type = "END" => startACK = randSeqNum
  /\ \A p \in toSender : AnswersThisTransfer(p)

(* A chunk stored is of the file being sent; what is received stays so. *)
LEMMA ReceivedStays ==
  ASSUME TypeOK, OnTheNet, NEW p \in toReceiver, DataReceived(p), SentFile' = SentFile
  PROVE  /\ p.seq < offset /\ IsReceived(p.seq)'
         /\ \A n : IsReceived(n) => IsReceived(n)'
<1>1. p \in Packet /\ p.type = "DATA" /\ receivedPackets' = Stored(p)
  BY DEF TypeOK, NetworkTypeOK, DataReceived
<1>2. p.seq < offset /\ p.data = [of |-> SentFile, idx |-> p.seq]
  BY <1>1 DEF OnTheNet, OfThisTransfer
<1>3. /\ DOMAIN Stored(p) = DOMAIN receivedPackets \cup {p.seq}
      /\ Stored(p)[p.seq] = p.data
      /\ \A n \in DOMAIN receivedPackets :
           n # p.seq => Stored(p)[n] = receivedPackets[n]
  BY <1>1, StoredTypes DEF TypeOK
<1> QED
  BY <1>1, <1>2, <1>3 DEF IsReceived

(* No turn of the receiver's loop brings anything else under way. *)
LEMMA ReceiverKeepsNet ==
  ASSUME TypeOK, OnTheNet, ReceiverStep, UNCHANGED senderVars
  PROVE  OnTheNet' /\ \A n : IsReceived(n) => IsReceived(n)'
<1>0. /\ phase' = phase /\ offset' = offset /\ randSeqNum' = randSeqNum
      /\ SentFile' = SentFile
  BY DEF senderVars, SentFile
<1>1. PICK p \in toReceiver : ReceiverHandles(p)
  BY DEF ReceiverStep
<1>2. /\ toReceiver' \subseteq toReceiver /\ p \in Packet /\ phase # "idle"
      /\ OfThisTransfer(p)
  BY <1>1, RemainingSubset
  DEF ReceiverHandles, StartIgnored, StartAccepted, EndReceived, DataDropped,
      DataReceived, receive, TypeOK, NetworkTypeOK, OnTheNet
<1>3. \A q \in toReceiver' : OfThisTransfer(q)'
  BY <1>0, <1>2 DEF OnTheNet, OfThisTransfer
<1>4. SUFFICES /\ \A n : IsReceived(n) => IsReceived(n)'
               /\ startACK' = startACK \/ startACK' = randSeqNum
               /\ \A q \in toSender' : q \in toSender \/ AnswersThisTransfer(q)'
  <2>1. ASSUME NEW q \in toSender'
        PROVE  AnswersThisTransfer(q)'
    BY <1>0, <1>4, <2>1 DEF OnTheNet, AnswersThisTransfer
  <2> QED
    BY <1>0, <1>2, <1>3, <1>4, <2>1 DEF OnTheNet
<1>5. CASE StartIgnored(p) \/ DataDropped(p)
  BY <1>0, <1>5 DEF StartIgnored, DataDropped, receiverVars, IsReceived
<1>6. CASE StartAccepted(p)
  <2>1. p.seq = randSeqNum
    BY <1>2, <1>6 DEF StartAccepted, OfThisTransfer
  <2>2. /\ receivedPackets' = receivedPackets /\ startACK' = randSeqNum
        /\ toSender' = toSender \cup {AckPacket(randSeqNum)}
    BY <1>6, <2>1 DEF StartAccepted, sendAck
  <2> QED
    BY <1>0, <2>2 DEF IsReceived, AnswersThisTransfer, AckPacket
<1>7. CASE EndReceived(p)
  <2>1. startACK = randSeqNum
    BY <1>7 DEF EndReceived, OnTheNet
  <2>2. /\ receivedPackets' = receivedPackets /\ startACK' = startACK
        /\ toSender' = toSender \cup {AckPacket(randSeqNum)}
    BY <1>7, <2>1 DEF EndReceived, sendAck
  <2> QED
    BY <1>0, <2>1, <2>2 DEF IsReceived, AnswersThisTransfer, AckPacket
<1>8. CASE DataReceived(p)
  <2>1. /\ p.seq < offset /\ IsReceived(p.seq)'
        /\ \A n : IsReceived(n) => IsReceived(n)'
    BY <1>0, <1>8, ReceivedStays
  <2>2. startACK' = startACK /\ toSender' = toSender \cup {AckPacket(p.seq)}
    BY <1>8 DEF DataReceived, sendAck
  <2>3. AnswersThisTransfer(AckPacket(p.seq))'
    BY <1>0, <2>1 DEF AnswersThisTransfer, AckPacket
  <2> QED
    BY <2>1, <2>2, <2>3
<1> QED
  BY <1>1, <1>5, <1>6, <1>7, <1>8 DEF ReceiverHandles

(* Nor does a network that loses and damages packets. *)
LEMMA NetworkKeepsNet ==
  ASSUME TypeOK, OnTheNet, NetworkStep, UNCHANGED <<senderVars, receiverVars>>
  PROVE  OnTheNet' /\ \A n : IsReceived(n) => IsReceived(n)'
<1>0. /\ phase' = phase /\ offset' = offset /\ randSeqNum' = randSeqNum
      /\ SentFile' = SentFile /\ startACK' = startACK
      /\ receivedPackets' = receivedPackets
  BY DEF senderVars, receiverVars, SentFile
<1>1. /\ \A q \in toReceiver' : \E p \in toReceiver : q = p \/ q = Damaged(p)
      /\ \A q \in toSender' : \E p \in toSender : q = p \/ q = Damaged(p)
  BY DEF NetworkStep, Lose, Corrupt
<1>2. toReceiver \subseteq Packet /\ toSender \subseteq Packet
  BY DEF TypeOK, NetworkTypeOK
<1>3. ASSUME NEW q \in toReceiver'
      PROVE  OfThisTransfer(q)' /\ (q.type = "END" => startACK = randSeqNum)
  <2>1. PICK p \in toReceiver : q = p \/ q = Damaged(p)
    BY <1>1
  <2>2. q.type = p.type /\ q.seq = p.seq /\ (p.type = "DATA" => q.data = p.data)
    BY <1>2, <2>1, DamagedPacket
  <2> QED
    BY <1>0, <2>2 DEF OnTheNet, OfThisTransfer
<1>4. ASSUME NEW q \in toSender'
      PROVE  AnswersThisTransfer(q)'
  <2>1. PICK p \in toSender : q = p \/ q = Damaged(p)
    BY <1>1
  <2>2. q.type = p.type /\ q.seq = p.seq
    BY <1>2, <2>1, DamagedPacket
  <2> QED
    BY <1>0, <2>2 DEF OnTheNet, AnswersThisTransfer, IsReceived
<1> QED
  BY <1>0, <1>1, <1>3, <1>4 DEF OnTheNet, IsReceived

(* What the sender reads from the socket answers its own packets. *)
LEMMA OwnAnswer ==
  ASSUME OnTheNet, Orderly, NEW p, receiveAck(p), p.type # "TIMEOUT"
  PROVE  p \in toSender /\ AnswersThisTransfer(p)
BY DEF OnTheNet, Orderly, receiveAck, noPacket

(* The number of START and END is none of the data numbers. *)
LEMMA NumbersApart ==
  ASSUME TypeOK, OnTheNet, Orderly, phase # "idle"
  PROVE  \A n \in Nat : n < offset => n # randSeqNum
<1>1. offset <= FileLen[SentFile] /\ FileLen[SentFile] <= randSeqNum
  BY SentFileExists DEF TypeOK, OnTheNet, Orderly
<1>2. offset \in Nat /\ randSeqNum \in Nat /\ FileLen[SentFile] \in Nat
  BY SentFileExists DEF TypeOK, SenderTypeOK
<1> QED
  BY <1>1, <1>2

(* Nor does the sender bring anything else under way. *)
LEMMA SenderKeepsNet ==
  ASSUME TypeOK, WindowInv, OnTheNet, Orderly, SenderStep, UNCHANGED receiverVars
  PROVE  OnTheNet'
<1>0. /\ startACK' = startACK /\ receivedPackets' = receivedPackets
      /\ offset \in Nat /\ randSeqNum \in Nat
  BY DEF receiverVars, TypeOK, SenderTypeOK
<1>1. CASE Launch
  <2>1. PICK r \in StartSeqs : /\ randSeqNum' = r
                               /\ toReceiver' = toReceiver \cup {StartPacket(r)}
    BY <1>1 DEF Launch, sendPacket
  <2>2. toReceiver' = {StartPacket(r)} /\ toSender' = {}
    BY <1>1, <2>1 DEF Launch, Orderly
  <2>3. phase' = "start" /\ offset' = 0 /\ FileLen[SentFile]' \in Nat
    BY <1>1, OptSenderAssumption
    DEF Launch, SentFile, TypeOK, SenderTypeOK, OptSenderAssumption
  <2> QED
    BY <2>1, <2>2, <2>3 DEF OnTheNet, OfThisTransfer, StartPacket
<1>2. ASSUME phase # "idle", phase' # "idle", session' = session,
             randSeqNum' = randSeqNum, toSender' \subseteq toSender,
             offset' = offset,
             phase' \in {"open", "data", "end", "done", "failed"} =>
               startACK = randSeqNum,
             \A q \in toReceiver' :
               \/ q \in toReceiver
               \/ OfThisTransfer(q) /\ (q.type = "END" => startACK = randSeqNum)
      PROVE  OnTheNet'
  <2>1. SentFile' = SentFile
    BY <1>2 DEF SentFile
  <2>2. \A q \in toReceiver' :
          OfThisTransfer(q)' /\ (q.type = "END" => startACK = randSeqNum)
    BY <1>2, <2>1 DEF OnTheNet, OfThisTransfer
  <2>3. \A q \in toSender' : AnswersThisTransfer(q)'
    BY <1>0, <1>2, <2>1 DEF OnTheNet, AnswersThisTransfer, IsReceived
  <2> QED
    BY <1>0, <1>2, <2>1, <2>2, <2>3 DEF OnTheNet
<1>3. CASE OpenFile
  BY <1>2, <1>3 DEF OpenFile, OnTheNet, networkVars
<1>4. CASE SendData
  <2>1. /\ phase = "data" /\ phase' = "data" /\ SentFile' = SentFile
        /\ randSeqNum' = randSeqNum /\ toSender' = toSender
        /\ offset' = offset + 1 /\ offset < FileLen[SentFile]
        /\ toReceiver' = toReceiver \cup {DataPacketOf(SentFile, offset)}
    BY <1>4 DEF SendData, CanSend, sendPacket, SentFile
  <2>2. FileLen[SentFile] \in Nat
    BY <2>1, SentFileExists DEF TypeOK
  <2>3. \A q \in toReceiver : q \in Packet
    BY DEF TypeOK, NetworkTypeOK
  <2>4. ASSUME NEW q \in toReceiver
        PROVE  OfThisTransfer(q)' /\ (q.type = "END" => startACK = randSeqNum)
    BY <1>0, <2>1, <2>3, <2>4, PacketFields DEF OnTheNet, OfThisTransfer
  <2>5. ASSUME NEW q, q = DataPacketOf(SentFile, offset)
        PROVE  OfThisTransfer(q)' /\ q.type = "DATA"
    <3>1. q.type = "DATA" /\ q.seq = offset /\ q.data = [of |-> SentFile, idx |-> offset]
      BY <2>5 DEF DataPacketOf
    <3>2. offset < offset + 1
      BY <1>0
    <3> QED
      BY <2>1, <3>1, <3>2 DEF OfThisTransfer
  <2>6. \A q \in toSender' : AnswersThisTransfer(q)'
    <3>1. \A q \in toSender : q.seq \in Nat
      BY PacketFields DEF TypeOK, NetworkTypeOK
    <3> QED
      BY <1>0, <2>1, <3>1 DEF OnTheNet, AnswersThisTransfer, IsReceived
  <2>7. \A q \in toReceiver' :
          OfThisTransfer(q)' /\ (q.type = "END" => startACK = randSeqNum)
    BY <2>1, <2>4, <2>5
  <2>8. /\ randSeqNum \in StartSeqs /\ startACK = randSeqNum
        /\ offset + 1 <= FileLen[SentFile]
    BY <1>0, <2>1, <2>2 DEF OnTheNet
  <2> QED
    BY <1>0, <2>1, <2>6, <2>7, <2>8 DEF OnTheNet
<1>5. CASE EndConnection
  <2>1. /\ phase = "data" /\ phase' = "end" /\ session' = session
        /\ randSeqNum' = randSeqNum /\ toSender' = toSender /\ offset' = offset
        /\ toReceiver' = toReceiver \cup {EndPacket(randSeqNum)}
    BY <1>5 DEF EndConnection, sendPacket
  <2> QED
    BY <1>2, <2>1 DEF OnTheNet, OfThisTransfer, EndPacket
<1>6. CASE \E p \in Received : SenderReceives(p)
  <2>1. PICK p \in Received : SenderReceives(p)
    BY <1>6
  <2>2. toSender' \subseteq toSender
    BY <2>1, ReceivedPacket
    DEF SenderReceives, StartAcked, StartResent, RetransmitTimedOut, AckReceived,
        InvalidAckDropped, FinishConnection, TypeOK
  <2>3. CASE StartAcked(p)
    <3>1. /\ phase = "start" /\ phase' = "open" /\ session' = session
          /\ randSeqNum' = randSeqNum /\ offset' = offset /\ toReceiver' = toReceiver
          /\ p.type # "TIMEOUT" /\ receiveAck(p) /\ p.seq = randSeqNum
      BY <2>3 DEF StartAcked, IsAckOf
    <3>2. p \in toSender /\ AnswersThisTransfer(p)
      BY <3>1, OwnAnswer
    <3>3. startACK = randSeqNum
      BY <1>0, <3>1, <3>2, NumbersApart DEF AnswersThisTransfer
    <3> QED
      BY <1>2, <2>2, <3>1, <3>3
  <2>4. CASE StartResent(p)
    <3>1. /\ phase = "start" /\ UNCHANGED senderVars
          /\ toReceiver' = toReceiver \cup {StartPacket(randSeqNum)}
      BY <2>4 DEF StartResent, sendPacket
    <3> QED
      BY <1>2, <2>2, <3>1 DEF OfThisTransfer, StartPacket, senderVars, OnTheNet
  <2>5. CASE \E timedOut \in SUBSET Unacked : RetransmitTimedOut(p, timedOut)
    <3>1. PICK timedOut \in SUBSET Unacked : RetransmitTimedOut(p, timedOut)
      BY <2>5
    <3>2. /\ phase = "data" /\ UNCHANGED senderVars
          /\ toReceiver' = toReceiver \cup timedOut
      BY <3>1 DEF RetransmitTimedOut, AwaitsAck
    <3>3. ASSUME NEW q \in Unacked
          PROVE  OfThisTransfer(q) /\ q.type = "DATA"
      <4>1. /\ Len(window) \in Nat /\ DOMAIN window = 1..Len(window)
            /\ offset \in Nat
        BY WindowEntries DEF TypeOK
      <4>2. PICK i \in 1..Len(window) : q = window[i].packet
        BY <4>1 DEF Unacked
      <4>3. q = DataPacketOf(SentFile, offset - Len(window) + i - 1)
        BY <3>2, <4>2 DEF WindowInv, Outstands
      <4>4. offset - Len(window) + i - 1 < offset
        BY <4>1
      <4> QED
        BY <4>3, <4>4 DEF OfThisTransfer, DataPacketOf
    <3> QED
      BY <1>2, <2>2, <3>2, <3>3 DEF OnTheNet, senderVars
  <2>6. CASE AckReceived(p)
    BY <1>2, <2>2, <2>6 DEF AckReceived, AwaitsAck, OnTheNet
  <2>7. CASE InvalidAckDropped(p)
    BY <1>2, <2>2, <2>7 DEF InvalidAckDropped, AwaitsAck, OnTheNet, senderVars
  <2>8. CASE FinishConnection(p)
    <3>1. /\ phase = "end" /\ phase' = "done" /\ session' = session
          /\ randSeqNum' = randSeqNum /\ offset' = offset
          /\ toReceiver' \subseteq toReceiver \cup {EndPacket(randSeqNum)}
      BY <2>8 DEF FinishConnection, sendPacket
    <3> QED
      BY <1>2, <2>2, <3>1 DEF OnTheNet, OfThisTransfer, EndPacket
  <2> QED
    BY <2>1, <2>3, <2>4, <2>5, <2>6, <2>7, <2>8 DEF SenderReceives
<1> QED
  BY <1>1, <1>3, <1>4, <1>5, <1>6 DEF SenderStep, SenderLocal

---------------------------------------------------------------------------
(* What is marked, or has left the window, is received. *)

Held ==
  /\ phase = "data" =>
       /\ \A n \in Nat : n < offset - Len(window) => IsReceived(n)
       /\ \A i \in 1..Len(window) :
            window[i].isAcked => IsReceived(window[i].packet.seq)
  /\ phase \in {"end", "done"} =>
       /\ FileLen[SentFile] <= offset
       /\ \A n \in Nat : n < offset => IsReceived(n)

(* By the numbers of the chunks in the window. *)
LEMMA HeldIsMeant ==
  ASSUME TypeOK, WindowInv, Held
  PROVE  AckedIsReceived
<1> SUFFICES ASSUME phase = "data", NEW n \in 0..(offset - 1), ~IsReceived(n)
             PROVE  DataPacketOf(SentFile, n) \in Unacked
  BY DEF AckedIsReceived
<1>0. /\ Len(window) \in Nat /\ DOMAIN window = 1..Len(window) /\ offset \in Nat
  BY WindowEntries DEF TypeOK
<1> DEFINE i == n - offset + Len(window) + 1
<1>1. i \in 1..Len(window) /\ offset - Len(window) + i - 1 = n
  <2>1. ~(n < offset - Len(window))
    BY DEF Held
  <2> QED
    BY <1>0, <2>1
<1> HIDE DEF i
<1>2. window[i].packet = DataPacketOf(SentFile, n)
  BY <1>1 DEF WindowInv, Outstands
<1>3. ~window[i].isAcked
  BY <1>1, <1>2 DEF Held, DataPacketOf
<1> QED
  BY <1>0, <1>1, <1>2, <1>3 DEF Unacked

(* A step of the sender takes only received packets for acknowledged. *)
LEMMA SenderKeepsHeld ==
  ASSUME TypeOK, WindowInv, OnTheNet, Orderly, Held,
         SenderStep, UNCHANGED receiverVars
  PROVE  Held'
<1> DEFINE n == Len(window)
<1>0. /\ receivedPackets' = receivedPackets
      /\ window \in Seq(Entry) /\ n \in Nat /\ offset \in Nat
  BY WindowEntries DEF receiverVars, TypeOK
<1>1. CASE phase' \in {"start", "open", "failed"}
  BY <1>1 DEF Held
<1>2. CASE OpenFile
  <2>1. /\ phase = "open" /\ phase' \in {"failed", "data"}
        /\ window' = window /\ offset' = offset
    BY <1>2 DEF OpenFile
  <2>2. window' = <<>> /\ Len(window') = 0 /\ offset' = 0
    BY <2>1, EmptySeq DEF WindowInv, WindowStarts
  <2> QED
    BY <2>1, <2>2 DEF Held
<1>3. CASE SendData
  <2> DEFINE d == DataPacketOf(SentFile, offset)
  <2>1. /\ phase = "data" /\ phase' = "data" /\ offset' = offset + 1
        /\ SentFile' = SentFile /\ window' = Append(window, InTheWindow(d))
    BY <1>3 DEF SendData, SentFile
  <2>2. d \in Packet
    BY <1>3, SentFileExists, BuiltPackets DEF SendData, SenderTypeOK, TypeOK
  <2>3. /\ Len(window') = n + 1
        /\ \A i \in 1..n : window'[i] = window[i]
        /\ window'[n + 1] = InTheWindow(d) /\ ~InTheWindow(d).isAcked
    BY <1>0, <2>1, <2>2, WindowExtended, AppendProperties DEF TypeOK, InTheWindow
  <2>4. (offset + 1) - (n + 1) = offset - n
    BY <1>0
  <2>5. \A i \in 1..(n + 1) : i \in 1..n \/ i = n + 1
    BY <1>0
  <2> QED
    <3>1. \A m \in Nat : m < offset' - Len(window') => IsReceived(m)
      <4>1. offset' - Len(window') = offset - n
        <5>1. offset' = offset + 1 /\ Len(window') = n + 1
          BY <2>1, <2>3
        <5> QED
          BY <2>4, <5>1
      <4> QED
        BY <2>1, <4>1 DEF Held
    <3>2. ASSUME NEW i \in 1..(n + 1), window'[i].isAcked
          PROVE  IsReceived(window'[i].packet.seq)
      <4>1. i \in 1..n /\ window'[i] = window[i]
        BY <2>3, <2>5, <3>2
      <4> QED
        BY <2>1, <3>2, <4>1 DEF Held
    <3> QED
      BY <1>0, <2>1, <2>3, <3>1, <3>2 DEF Held, IsReceived
<1>4. CASE EndConnection
  <2>1. /\ phase = "data" /\ phase' = "end" /\ offset' = offset
        /\ SentFile' = SentFile /\ window = <<>> /\ offset >= FileLen[SentFile]
    BY <1>4 DEF EndConnection, hasPackets, SentFile
  <2>2. n = 0 /\ offset - n = offset /\ FileLen[SentFile] <= offset
    BY <1>0, <2>1, SentFileExists DEF TypeOK
  <2> QED
    BY <1>0, <2>1, <2>2 DEF Held, IsReceived
<1>5. CASE \E p \in Received : SenderReceives(p)
  <2>1. PICK p \in Received : SenderReceives(p)
    BY <1>5
  <2>2. CASE UNCHANGED senderVars
    BY <1>0, <2>2 DEF Held, senderVars, IsReceived, SentFile
  <2>3. CASE AckReceived(p)
    <3>1. /\ phase = "data" /\ phase' = "data" /\ offset' = offset
          /\ SentFile' = SentFile /\ receiveAck(p) /\ p.type # "TIMEOUT"
      BY <2>3 DEF AckReceived, AwaitsAck, SentFile
    <3>2. p \in Packet /\ AnswersThisTransfer(p)
      BY <3>1, OwnAnswer, ReceivedPacket DEF TypeOK
    <3>3. PICK k \in 0..n :
            /\ Len(window') = n - k
            /\ \A i \in 1..(n - k) :
                 /\ window'[i].packet = window[i + k].packet
                 /\ window'[i].isAcked <=>
                      (window[i + k].isAcked \/ window[i + k].packet.seq = p.seq)
            /\ \A i \in 1..k : window[i].isAcked \/ window[i].packet.seq = p.seq
      BY <2>3, <3>2, AckedWindow DEF TypeOK
    <3>4. ASSUME NEW i \in 1..n, window[i].isAcked \/ window[i].packet.seq = p.seq
          PROVE  IsReceived(window[i].packet.seq)
      <4> DEFINE m == offset - n + i - 1
      <4>0. window[i].packet = DataPacketOf(SentFile, m) /\ m < offset
        BY <1>0, <3>1 DEF WindowInv, Outstands
      <4>1. window[i].packet.seq = m /\ m < offset
        BY <4>0 DEF DataPacketOf
      <4>2. window[i].packet.seq \in Nat
        BY WindowEntries, PacketFields DEF TypeOK, Entry
      <4>3. window[i].packet.seq # randSeqNum
        BY <3>1, <4>1, <4>2, NumbersApart
      <4> QED
        BY <3>1, <3>2, <3>4, <4>3 DEF Held, AnswersThisTransfer
    <3>5. ASSUME NEW m \in Nat, m < offset - (n - k)
          PROVE  IsReceived(m)
      <4>1. CASE m < offset - n
        BY <3>1, <4>1 DEF Held
      <4>2. CASE ~(m < offset - n)
        <5> DEFINE i == m - offset + n + 1
        <5>1. i \in 1..k /\ i \in 1..n /\ offset - n + i - 1 = m
          BY <1>0, <3>5, <4>2
        <5> HIDE DEF i
        <5>2. window[i].packet = DataPacketOf(SentFile, m)
          BY <3>1, <5>1 DEF WindowInv, Outstands
        <5>3. window[i].packet.seq = m
          BY <5>2 DEF DataPacketOf
        <5> QED
          BY <3>3, <3>4, <5>1, <5>3
      <4> QED
        BY <4>1, <4>2
    <3>6. ASSUME NEW i \in 1..(n - k), window'[i].isAcked
          PROVE  IsReceived(window'[i].packet.seq)
      <4>1. i + k \in 1..n
        BY <1>0
      <4> QED
        BY <3>3, <3>4, <3>6, <4>1
    <3> QED
      BY <1>0, <3>1, <3>3, <3>5, <3>6 DEF Held, IsReceived
  <2>4. CASE FinishConnection(p)
    BY <1>0, <2>4 DEF FinishConnection, Held, IsReceived, SentFile
  <2> QED
    BY <1>1, <2>1, <2>2, <2>3, <2>4
    DEF SenderReceives, StartAcked, StartResent, RetransmitTimedOut, InvalidAckDropped
<1> QED
  BY <1>1, <1>2, <1>3, <1>4, <1>5 DEF SenderStep, SenderLocal, Launch

HeldInv == TypeOK /\ WindowInv /\ OnTheNet /\ Held

(* The invariant holds from the start on. *)
LEMMA HeldHolds ==
  ASSUME Orderly
  PROVE  /\ Init => WindowInv /\ OnTheNet /\ Held
         /\ HeldInv /\ [Next]_vars /\ TypeOK' => HeldInv'
<1>1. Init => WindowInv /\ OnTheNet /\ Held
  BY DEF Init, SenderInit, NetworkInit, WindowInv, WindowStarts, OnTheNet, Held
<1>2. SUFFICES ASSUME HeldInv, [Next]_vars
               PROVE  WindowInv' /\ OnTheNet' /\ Held'
  BY <1>1 DEF HeldInv
<1>3. WindowInv'
  BY <1>2, WindowStep DEF HeldInv
<1>4. ASSUME UNCHANGED senderVars, \A n : IsReceived(n) => IsReceived(n)'
      PROVE  Held'
  BY <1>2, <1>4 DEF HeldInv, Held, senderVars, SentFile
<1>5. CASE SenderStep /\ UNCHANGED receiverVars
  BY <1>2, <1>3, <1>5, SenderKeepsNet, SenderKeepsHeld DEF HeldInv
<1>6. CASE ReceiverStep /\ UNCHANGED senderVars
  BY <1>2, <1>3, <1>4, <1>6, ReceiverKeepsNet DEF HeldInv
<1>7. CASE NetworkStep /\ UNCHANGED <<senderVars, receiverVars>>
  BY <1>2, <1>3, <1>4, <1>7, NetworkKeepsNet DEF HeldInv
<1>8. CASE UNCHANGED vars
  BY <1>2, <1>8
  DEF HeldInv, Held, vars, senderVars, receiverVars, networkVars, IsReceived,
      OnTheNet, OfThisTransfer, AnswersThisTransfer, SentFile, WindowInv,
      WindowStarts, Outstands
<1> QED
  BY <1>2, <1>5, <1>6, <1>7, <1>8 DEF Next

(* In every state a packet the sender takes for acknowledged is in the     *)
(* receiver's map, with the chunk of this transfer's file.                 *)
THEOREM AckedStaysReceived ==
  ASSUME Orderly
  PROVE  Spec => []AckedIsReceived
<1>1. TypeOK /\ WindowInv /\ Held => AckedIsReceived
  BY HeldIsMeant
<1>2. HeldInv => AckedIsReceived
  BY <1>1 DEF HeldInv
<1>3. Init /\ TypeOK => HeldInv
  BY HeldHolds DEF HeldInv
<1>4. HeldInv /\ [Next]_vars /\ TypeOK' => HeldInv'
  BY HeldHolds
<1> QED
  BY <1>2, <1>3, <1>4, TypeCorrect, PTL DEF Spec

---------------------------------------------------------------------------
(* The receiver's window. *)

(* Everything more than a sender's window below offset is received. *)
LEMMA BelowTheWindow ==
  ASSUME HeldInv, windowSize <= window_size, NEW p \in toReceiver, p.type = "DATA",
         NEW m \in Nat, p.seq >= m + window_size
  PROVE  IsReceived(m)
<1>1. p.seq \in Nat /\ p.seq < offset /\ phase # "idle"
  BY PacketFields DEF HeldInv, TypeOK, NetworkTypeOK, OnTheNet, OfThisTransfer
<1>2. /\ offset \in Nat /\ Len(window) \in Nat
      /\ windowSize \in Nat \ {0} /\ window_size \in Nat
  BY WindowEntries, OptReceiverAssumption
  DEF HeldInv, TypeOK, OptReceiverAssumption
<1>3. phase \in {"data", "end", "done"}
  BY <1>1, <1>2 DEF HeldInv, TypeOK, SenderTypeOK, WindowInv, WindowStarts
<1>4. CASE phase = "data"
  <2>1. Len(window) <= windowSize
    BY <1>4 DEF HeldInv, WindowInv, Outstands
  <2>2. m < offset - Len(window)
    BY <1>1, <1>2, <2>1
  <2> QED
    BY <1>4, <2>2 DEF HeldInv, Held
<1>5. CASE phase \in {"end", "done"}
  <2>1. m < offset
    BY <1>1, <1>2
  <2> QED
    BY <1>5, <2>1 DEF HeldInv, Held
<1> QED
  BY <1>3, <1>4, <1>5

(* So no step takes a packet a whole window past a missing one. *)
LEMMA KeptStep ==
  ASSUME HeldInv, KeptWithinWindow, [Next]_vars, windowSize <= window_size
  PROVE  KeptWithinWindow'
<1>1. CASE receivedPackets' = receivedPackets
  BY <1>1 DEF KeptWithinWindow
<1>2. CASE \E p \in toReceiver : DataReceived(p)
  <2>1. PICK p \in toReceiver : DataReceived(p)
    BY <1>2
  <2>2. p \in Packet /\ p.type = "DATA" /\ receivedPackets' = Stored(p)
    BY <2>1 DEF DataReceived, HeldInv, TypeOK, NetworkTypeOK
  <2>3. DOMAIN receivedPackets' = DOMAIN receivedPackets \cup {p.seq}
    BY <2>2, StoredTypes DEF HeldInv, TypeOK
  <2>4. ASSUME NEW m \in 0..p.seq, p.seq >= m + window_size
        PROVE  m \in DOMAIN receivedPackets
    <3>1. m \in Nat
      BY <2>2, PacketFields
    <3> QED
      BY <2>2, <2>4, <3>1, BelowTheWindow DEF IsReceived
  <2> QED
    BY <2>3, <2>4 DEF KeptWithinWindow
<1> QED
  BY <1>1, <1>2
  DEF Next, vars, SenderStep, ReceiverStep, NetworkStep, ReceiverHandles,
      receiverVars, StartIgnored, StartAccepted, EndReceived, DataDropped

(* The map never holds a packet a whole window past a missing one, though  *)
(* the receiver's own test of the window always succeeds.                  *)
THEOREM KeptStaysWithinWindow ==
  ASSUME Orderly, windowSize <= window_size
  PROVE  Spec => []KeptWithinWindow
<1>1. Init /\ TypeOK => HeldInv /\ KeptWithinWindow
  <2>1. Init => receivedPackets = <<>> /\ DOMAIN receivedPackets = {}
    BY DEF Init, ReceiverInit
  <2> QED
    BY <2>1, HeldHolds DEF HeldInv, KeptWithinWindow
<1>2. HeldInv /\ KeptWithinWindow /\ [Next]_vars /\ TypeOK'
        => HeldInv' /\ KeptWithinWindow'
  BY HeldHolds, KeptStep
<1> QED
  BY <1>1, <1>2, TypeCorrect, PTL DEF Spec

---------------------------------------------------------------------------
(* The last transfer implements ReliableTransfer. *)

ReceivedPrefixes == {k \in 0..Length : ReceivedPrefix(k)}
StoredNow == IF session < Sessions THEN 0
             ELSE Max(ReceivedPrefixes)
FinishedNow == session = Sessions /\ phase \in {"end", "done"}

(* The three kinds of abstract steps. *)
LEMMA AbstractSteps ==
  /\ StoredNow' \in (StoredNow + 1)..Length
       /\ Confirmed' = Confirmed /\ FinishedNow' = FinishedNow => Reliable!Next
  /\ ~FinishedNow /\ Confirmed' \in (Confirmed + 1)..StoredNow
       /\ StoredNow' = StoredNow /\ FinishedNow' = FinishedNow => Reliable!Next
  /\ ~FinishedNow /\ Confirmed = Length /\ FinishedNow' = TRUE
       /\ StoredNow' = StoredNow /\ Confirmed' = Confirmed => Reliable!Next
  /\ StoredNow' = StoredNow /\ Confirmed' = Confirmed /\ FinishedNow' = FinishedNow
       => UNCHANGED Reliable!vars
BY DEF StoredNow, ReceivedPrefixes, FinishedNow, Reliable!Next, Reliable!Store,
       Reliable!Confirm, Reliable!Finish, Reliable!vars

(* The file of the last transfer. *)
LEMMA LastFile ==
  ASSUME Sessions # 0
  PROVE  Length \in Nat /\ (session = Sessions => FileLen[SentFile] = Length)
BY OptSenderAssumption DEF Length, SentFile, OptSenderAssumption

(* A bounded set of numbers, not empty, has a maximum. *)
LEMMA GreatestOf ==
  ASSUME NEW bound \in Nat, NEW S, S \subseteq 0..bound, S # {}
  PROVE  Max(S) \in S /\ \A k \in S : k <= Max(S)
<1>1. PICK m \in S : \A k \in S : m >= k
  BY GreatestNumber
<1>2. Max(S) \in S /\ \A k \in S : Max(S) >= k
  BY <1>1 DEF Max
<1> QED
  BY <1>2

(* What is stored is the longest prefix received. *)
LEMMA StoredIsGreatest ==
  ASSUME Sessions # 0
  PROVE  /\ Max(ReceivedPrefixes) \in ReceivedPrefixes
         /\ \A k \in ReceivedPrefixes : k <= Max(ReceivedPrefixes)
         /\ Max(ReceivedPrefixes') \in ReceivedPrefixes'
         /\ \A k \in ReceivedPrefixes' : k <= Max(ReceivedPrefixes')
<1>1. /\ ReceivedPrefixes \subseteq 0..Length /\ 0 \in ReceivedPrefixes
      /\ ReceivedPrefixes' \subseteq 0..Length /\ 0 \in ReceivedPrefixes'
  BY LastFile DEF ReceivedPrefixes, ReceivedPrefix
<1> QED
  BY <1>1, LastFile, GreatestOf

(* Only stored chunks are confirmed. *)
LEMMA ConfirmedIsStored ==
  ASSUME Sessions # 0, HeldInv, session = Sessions
  PROVE  Confirmed \in Nat /\ Confirmed <= StoredNow
<1>0. /\ Length \in Nat /\ FileLen[SentFile] = Length /\ session = Sessions
      /\ Sessions \in Nat /\ ~(session < Sessions) /\ StoredNow = Max(ReceivedPrefixes)
  BY LastFile, OptSenderAssumption DEF OptSenderAssumption, StoredNow
<1>1. offset \in Nat /\ Len(window) \in Nat
  BY WindowEntries DEF HeldInv, TypeOK
<1>2. SUFFICES Confirmed \in ReceivedPrefixes
  BY <1>0, StoredIsGreatest DEF ReceivedPrefixes
<1>3. CASE phase = "data"
  <2>1. Confirmed = offset - Len(window)
    BY <1>0, <1>3 DEF Confirmed
  <2>2. offset - Len(window) \in Nat
    <3>1. CASE Len(window) = 0
      BY <1>1, <3>1
    <3>2. CASE Len(window) # 0
      <4>1. 1 \in 1..Len(window) /\ offset - Len(window) + 1 - 1 = offset - Len(window)
        BY <1>1, <3>2
      <4>2. window[1].packet = DataPacketOf(SentFile, offset - Len(window))
        BY <1>3, <4>1 DEF HeldInv, WindowInv, Outstands
      <4>3. window[1].packet.seq \in Nat
        BY <4>1, WindowEntries, PacketFields DEF HeldInv, TypeOK, Entry
      <4> QED
        BY <4>2, <4>3 DEF DataPacketOf
    <3> QED
      BY <3>1, <3>2
  <2>3. offset <= Length
    BY <1>0, <1>3 DEF HeldInv, OnTheNet
  <2>4. offset - Len(window) \in 0..Length
    BY <1>0, <1>1, <2>2, <2>3
  <2>5. ASSUME NEW n \in 0..((offset - Len(window)) - 1)
        PROVE  IsReceived(n)
    <3>1. n \in Nat /\ n < offset - Len(window)
      BY <2>2
    <3> QED
      BY <1>3, <3>1 DEF HeldInv, Held
  <2> QED
    BY <2>1, <2>4, <2>5 DEF ReceivedPrefixes, ReceivedPrefix
<1>4. CASE phase \in {"end", "done"}
  <2>1. Confirmed = Length
    BY <1>0, <1>4 DEF Confirmed
  <2>2. offset = Length
    BY <1>0, <1>1, <1>4 DEF HeldInv, OnTheNet, Held
  <2>3. ASSUME NEW n \in 0..(Length - 1)
        PROVE  IsReceived(n)
    BY <1>0, <1>4, <2>2 DEF HeldInv, Held
  <2> QED
    BY <1>0, <2>1, <2>3 DEF ReceivedPrefixes, ReceivedPrefix
<1>5. CASE phase \notin {"data", "end", "done"}
  <2>1. Confirmed = 0
    BY <1>0, <1>5 DEF Confirmed
  <2> QED
    BY <1>0, <2>1 DEF ReceivedPrefixes, ReceivedPrefix
<1> QED
  BY <1>3, <1>4, <1>5

(* Also after a step. *)
LEMMA ConfirmedIsStoredNext ==
  (Sessions # 0 /\ HeldInv /\ session = Sessions
     => Confirmed \in Nat /\ Confirmed <= StoredNow)'
<1>1. Sessions # 0 /\ HeldInv /\ session = Sessions
        => Confirmed \in Nat /\ Confirmed <= StoredNow
  BY ConfirmedIsStored
<1> QED
  BY <1>1, PTL

(* A step that leaves the sender alone stores chunks or nothing. *)
LEMMA StoreSimulates ==
  ASSUME Sessions # 0, session = Sessions, UNCHANGED senderVars,
         \A n : IsReceived(n) => IsReceived(n)'
  PROVE  Reliable!Next \/ UNCHANGED Reliable!vars
<1>0. /\ Length \in Nat /\ ~(session < Sessions) /\ session' = session
      /\ StoredNow = Max(ReceivedPrefixes) /\ StoredNow' = Max(ReceivedPrefixes')
  BY LastFile, OptSenderAssumption
  DEF OptSenderAssumption, StoredNow, senderVars
<1>1. Confirmed' = Confirmed /\ FinishedNow' = FinishedNow
  BY DEF Confirmed, FinishedNow, senderVars, Length
<1>2. ReceivedPrefixes \subseteq ReceivedPrefixes'
  BY DEF ReceivedPrefixes, ReceivedPrefix, Length
<1>3. StoredNow' \in 0..Length /\ StoredNow \in 0..Length /\ StoredNow <= StoredNow'
  BY <1>0, <1>2, StoredIsGreatest DEF ReceivedPrefixes, Length
<1>4. StoredNow' = StoredNow \/ StoredNow' \in (StoredNow + 1)..Length
  BY <1>0, <1>3
<1> QED
  BY <1>1, <1>4, AbstractSteps

(* Before the last transfer, and at its start, nothing is confirmed. *)
LEMMA LaunchSimulates ==
  ASSUME Sessions # 0, TypeOK, \/ Launch
                               \/ session < Sessions /\ session' = session
  PROVE  Reliable!Next \/ UNCHANGED Reliable!vars
<1>0. Length \in Nat /\ Sessions \in Nat /\ session \in Nat
  BY LastFile, OptSenderAssumption DEF OptSenderAssumption, TypeOK, SenderTypeOK
<1>1. session < Sessions /\ StoredNow = 0 /\ Confirmed = 0 /\ FinishedNow = FALSE
  BY <1>0 DEF Launch, StoredNow, Confirmed, FinishedNow
<1>2. Confirmed' = 0 /\ FinishedNow' = FALSE
  BY <1>0, <1>1 DEF Launch, Confirmed, FinishedNow
<1>3. StoredNow' \in 0..Length
  <2>1. CASE session' < Sessions
    BY <1>0, <2>1 DEF StoredNow
  <2>2. CASE ~(session' < Sessions)
    <3>1. StoredNow' = Max(ReceivedPrefixes')
      BY <2>2 DEF StoredNow
    <3> QED
      BY <3>1, StoredIsGreatest DEF ReceivedPrefixes, Length
  <2> QED
    BY <2>1, <2>2
<1>4. StoredNow' = StoredNow \/ StoredNow' \in (StoredNow + 1)..Length
  BY <1>0, <1>1, <1>3
<1> QED
  BY <1>1, <1>2, <1>4, AbstractSteps

(* A step of the last sender confirms chunks, declares the end, or changes *)
(* nothing.                                                                *)
LEMMA SenderSimulates ==
  ASSUME Sessions # 0, HeldInv, HeldInv', session = Sessions,
         SenderLocal \/ \E p \in Received : SenderReceives(p),
         UNCHANGED receiverVars
  PROVE  Reliable!Next \/ UNCHANGED Reliable!vars
<1> DEFINE n == Len(window)
<1>0. /\ Length \in Nat /\ FileLen[SentFile] = Length
      /\ ~(session < Sessions) /\ session' = session /\ ~(session' < Sessions)
      /\ receivedPackets' = receivedPackets
      /\ window \in Seq(Entry) /\ n \in Nat /\ offset \in Nat
  BY LastFile, OptSenderAssumption, WindowEntries
  DEF OptSenderAssumption, SenderLocal, OpenFile, SendData, EndConnection,
      SenderReceives, StartAcked, StartResent, RetransmitTimedOut, AckReceived,
      InvalidAckDropped, FinishConnection, senderVars, receiverVars, HeldInv, TypeOK
<1>1. StoredNow' = StoredNow
  <2>1. ReceivedPrefixes' = ReceivedPrefixes
    BY <1>0 DEF ReceivedPrefixes, ReceivedPrefix, IsReceived, SentFile, Length
  <2> QED
    BY <1>0, <2>1 DEF StoredNow
<1>2. CASE Confirmed' = Confirmed /\ FinishedNow' = FinishedNow
  BY <1>1, <1>2, AbstractSteps
<1>3. CASE OpenFile
  <2>1. /\ phase = "open" /\ phase' \in {"failed", "data"}
        /\ window' = window /\ offset' = offset
    BY <1>3 DEF OpenFile
  <2>2. offset' - Len(window') = 0
    <3>1. window' = <<>> /\ offset' = 0
      BY <2>1 DEF HeldInv, WindowInv, WindowStarts
    <3>2. Len(window') = 0
      BY <3>1
    <3>3. offset' = 0
      BY <3>1
    <3> QED
      BY <3>2, <3>3
  <2>3. Confirmed = 0 /\ Confirmed' = 0
    BY <1>0, <2>1, <2>2 DEF Confirmed
  <2> QED
    BY <1>0, <1>2, <2>1, <2>3 DEF FinishedNow
<1>4. CASE SendData
  <2> DEFINE d == DataPacketOf(SentFile, offset)
  <2>1. /\ phase = "data" /\ phase' = "data" /\ offset' = offset + 1
        /\ window' = Append(window, InTheWindow(d))
    BY <1>4 DEF SendData
  <2>2. d \in Packet
    BY <1>4, SentFileExists, BuiltPackets DEF SendData, SenderTypeOK, TypeOK, HeldInv
  <2>3. Len(window') = n + 1
    BY <1>0, <2>1, <2>2, WindowExtended, AppendProperties DEF HeldInv, TypeOK
  <2>4. (offset + 1) - (n + 1) = offset - n
    BY <1>0
  <2>5. Confirmed = offset - n /\ Confirmed' = (offset + 1) - (n + 1)
    BY <1>0, <2>1, <2>3 DEF Confirmed
  <2> QED
    BY <1>0, <1>2, <2>1, <2>4, <2>5 DEF FinishedNow
<1>5. CASE EndConnection
  <2>1. /\ phase = "data" /\ phase' = "end" /\ window = <<>>
        /\ offset >= FileLen[SentFile]
    BY <1>5 DEF EndConnection, hasPackets
  <2>2. n = 0 /\ offset <= Length
    BY <1>0, <2>1, EmptySeq DEF HeldInv, OnTheNet
  <2>3. offset - n = Length
    BY <1>0, <2>1, <2>2
  <2>4. Confirmed = Length /\ Confirmed' = Length
    BY <1>0, <2>1, <2>3 DEF Confirmed, Length
  <2>5. ~FinishedNow /\ FinishedNow' = TRUE
    BY <1>0, <2>1 DEF FinishedNow
  <2> QED
    BY <1>1, <2>4, <2>5, AbstractSteps
<1>6. CASE \E p \in Received : SenderReceives(p)
  <2>1. PICK p \in Received : SenderReceives(p)
    BY <1>6
  <2>2. CASE UNCHANGED senderVars
    BY <1>2, <2>2 DEF Confirmed, FinishedNow, senderVars, Length
  <2>3. CASE StartAcked(p) \/ FinishConnection(p)
    BY <1>0, <1>2, <2>3
    DEF StartAcked, FinishConnection, Confirmed, FinishedNow, Length
  <2>4. CASE AckReceived(p)
    <3>1. /\ phase = "data" /\ phase' = "data" /\ offset' = offset /\ p \in Packet
      BY <2>4, ReceivedPacket DEF AckReceived, AwaitsAck, HeldInv, TypeOK
    <3>2. PICK k \in 0..n : Len(window') = n - k
      BY <2>4, <3>1, AckedWindow DEF HeldInv, TypeOK
    <3>3. Confirmed = offset - n /\ Confirmed' = offset - (n - k)
      BY <1>0, <3>1, <3>2 DEF Confirmed
    <3>4. ~FinishedNow /\ FinishedNow' = FinishedNow
      BY <1>0, <3>1 DEF FinishedNow
    <3>5. CASE k = 0
      BY <1>0, <1>2, <3>3, <3>4, <3>5
    <3>6. CASE k # 0
      <4>1. Confirmed' \in Nat /\ Confirmed' <= StoredNow
        <5>1. (Confirmed \in Nat /\ Confirmed <= StoredNow)'
          BY <1>0, ConfirmedIsStoredNext
        <5> QED
          BY <1>1, <5>1
      <4>2. Confirmed \in Nat /\ Confirmed < Confirmed' /\ StoredNow \in Nat
        BY <1>0, <3>3, <3>6, ConfirmedIsStored, StoredIsGreatest
        DEF StoredNow, ReceivedPrefixes
      <4>3. Confirmed' \in (Confirmed + 1)..StoredNow
        BY <4>1, <4>2
      <4> QED
        BY <1>1, <3>4, <4>3, AbstractSteps
    <3> QED
      BY <1>0, <3>5, <3>6
  <2> QED
    BY <2>1, <2>2, <2>3, <2>4
    DEF SenderReceives, StartResent, RetransmitTimedOut, InvalidAckDropped
<1> QED
  BY <1>3, <1>4, <1>5, <1>6 DEF SenderLocal

(* One step of the system is a step of ReliableTransfer, or none. *)
LEMMA StepSimulates ==
  ASSUME Orderly, Sessions # 0, HeldInv, HeldInv', [Next]_vars
  PROVE  Reliable!Next \/ UNCHANGED Reliable!vars
<1>0. session \in Nat /\ Sessions \in Nat /\ (session < Sessions \/ session = Sessions)
  BY OptSenderAssumption DEF HeldInv, TypeOK, SenderTypeOK, OptSenderAssumption
<1>1. CASE Launch
  BY <1>1, LaunchSimulates DEF HeldInv
<1>2. CASE UNCHANGED senderVars /\ \A n : IsReceived(n) => IsReceived(n)'
  <2>1. session' = session
    BY <1>2 DEF senderVars
  <2> QED
    BY <1>0, <1>2, <2>1, LaunchSimulates, StoreSimulates DEF HeldInv
<1>3. CASE SenderStep /\ UNCHANGED receiverVars /\ ~Launch
  <2>1. SenderLocal \/ \E p \in Received : SenderReceives(p)
    BY <1>3 DEF SenderStep
  <2>2. session' = session
    BY <2>1
    DEF SenderLocal, OpenFile, SendData, EndConnection, SenderReceives, StartAcked,
        StartResent, RetransmitTimedOut, AckReceived, InvalidAckDropped,
        FinishConnection, senderVars
  <2> QED
    BY <1>0, <1>3, <2>1, <2>2, LaunchSimulates, SenderSimulates DEF HeldInv
<1>4. CASE UNCHANGED vars
  BY <1>2, <1>4 DEF vars, senderVars, receiverVars, IsReceived, SentFile
<1>5. CASE ReceiverStep /\ UNCHANGED senderVars
  BY <1>2, <1>5, ReceiverKeepsNet DEF HeldInv
<1>6. CASE NetworkStep /\ UNCHANGED <<senderVars, receiverVars>>
  BY <1>2, <1>6, NetworkKeepsNet DEF HeldInv
<1> QED
  BY <1>1, <1>3, <1>4, <1>5, <1>6 DEF Next

(* The last of any number of transfers between which users wait for        *)
(* silence stores and confirms its file as ReliableTransfer says, and END  *)
(* goes out only when all of it is confirmed.                              *)
THEOREM Implements ==
  ASSUME Orderly, Sessions # 0
  PROVE  Spec => ImplementsReliable
<1>1. Init => Reliable!Init
  BY OptSenderAssumption
  DEF Init, SenderInit, Reliable!Init, Confirmed, OptSenderAssumption
<1>2. HeldInv /\ HeldInv' /\ [Next]_vars => [Reliable!Next]_(Reliable!vars)
  BY StepSimulates
<1>3. Init /\ TypeOK => HeldInv
  BY HeldHolds DEF HeldInv
<1>4. HeldInv /\ [Next]_vars /\ TypeOK' => HeldInv'
  BY HeldHolds
<1> QED
  BY <1>1, <1>2, <1>3, <1>4, TypeCorrect, PTL
  DEF Spec, ImplementsReliable, Reliable!Spec
---------------------------------------------------------------------------
(* The clock. *)

(* There is an age for every packet of the window. *)
ClockOK ==
  /\ soTimeout \in 1..Timeout
  /\ slept \in Nat /\ slept <= soTimeout + Late
  /\ silence \in Nat
  /\ age \in Seq(Nat) /\ Len(age) = Len(window)

(* Packet i was due, or the last answer came, this side of one timeout     *)
(* before the recvfrom in progress.                                        *)
IsRecent(i) == age[i] <= Timeout + slept \/ silence <= Timeout + slept

NoneIsLate ==
  /\ ~Sleeps => slept = 0
  /\ phase \in {"open", "data"} => \A i \in Outstanding : IsRecent(i)

ClockInv == ClockOK /\ NoneIsLate

---------------------------------------------------------------------------
(* Every step with a clock is one that OptTransfer allows without. *)
LEMMA ClockRestricts ==
  ASSUME [TimedNext]_timedVars
  PROVE  [Next]_vars
<1>1. CASE TimedSender /\ UNCHANGED receiverVars
  <2>1. ASSUME NEW p \in Received, SenderReceives(p)
        PROVE  SenderStep
    BY <2>1 DEF SenderStep
  <2>2. CASE TimedLaunch \/ TimedLocal
    BY <1>1, <2>2 DEF TimedLaunch, TimedLocal, SenderStep, Next
  <2>3. CASE TimesOut
    <3> DEFINE overdue == {i \in Outstanding : hasTimedOut(i)}
    <3>1. noPacket \in Received
      BY DEF Received
    <3>2. {window[i].packet : i \in overdue} \in SUBSET Unacked
      BY DEF Unacked, Outstanding
    <3>3. SenderReceives(noPacket)
      BY <2>3, <3>2 DEF TimesOut, SenderReceives
    <3> QED
      BY <1>1, <2>1, <3>1, <3>3 DEF Next
  <2>4. CASE \E p \in Received : Answered(p)
    <3>1. PICK p \in Received : Answered(p)
      BY <2>4
    <3>2. SenderReceives(p)
      BY <3>1 DEF Answered, SenderReceives
    <3> QED
      BY <1>1, <2>1, <3>2 DEF Next
  <2> QED
    BY <1>1, <2>2, <2>3, <2>4 DEF TimedSender
<1> QED
  BY <1>1 DEF TimedNext, timedVars, Tick, Next

(* So whatever holds of every behaviour of OptTransfer holds with a clock, *)
(* which times out and resends in fewer ways.                              *)
THEOREM ImplementsUntimed == TimedSpec => Spec
<1>1. TimedInit => Init
  BY DEF TimedInit
<1>2. [TimedNext]_timedVars => [Next]_vars
  BY ClockRestricts
<1> QED
  BY <1>1, <1>2, PTL DEF TimedSpec, Spec

---------------------------------------------------------------------------
(* The next timeout is one, and no longer than Timeout, whatever packets   *)
(* it is computed from.                                                    *)
LEMMA SomeTimeout ==
  ASSUME NEW S, NEW ages, \A i \in S : ages[i] \in Nat
  PROVE  Min({Timeout} \cup
             {Timeout - ages[i] : i \in {j \in S : Timeout - ages[j] > 0}})
           \in 1..Timeout
<1> DEFINE Rests == {Timeout} \cup
                    {Timeout - ages[i] : i \in {j \in S : Timeout - ages[j] > 0}}
<1>1. Rests \subseteq 1..Timeout /\ Rests # {}
  BY TimersAssumption DEF TimersAssumption
<1>2. Rests \subseteq Nat /\ Timeout \in Nat
  BY <1>1, TimersAssumption DEF TimersAssumption
<1> HIDE DEF Rests
<1>3. \E x \in Rests : \A y \in Rests : x <= y
  BY <1>1, <1>2, LeastNumber
<1>4. Min(Rests) \in Rests
  BY <1>3 DEF Min
<1> QED
  BY <1>1, <1>4 DEF Rests

(* Each packet that stays in the window keeps its age, a new one has none. *)
LEMMA AgesFollowWindow ==
  ASSUME SenderTypeOK, ClockOK, AgesFollow,
         Len(window') \in Nat, Len(window') <= Len(window) + 1
  PROVE  /\ age' \in Seq(Nat) /\ Len(age') = Len(window')
         /\ \A i \in 1..Len(window) : Len(window') >= Len(window) => age'[i] = age[i]
         /\ Len(window') > Len(window) => age'[Len(window')] = 0
<1>0. age \in Seq(Nat) /\ Len(age) = Len(window) /\ Len(window) \in Nat
  BY WindowEntries DEF ClockOK
<1>1. CASE Len(window') > Len(window)
  <2>1. age' = Append(age, 0) /\ Len(window') = Len(age) + 1
    BY <1>0, <1>1 DEF AgesFollow
  <2> QED
    BY <1>0, <1>1, <2>1, AppendProperties
<1>2. CASE ~(Len(window') > Len(window))
  <2> DEFINE k == Len(age) - Len(window')
  <2>1. k \in Nat /\ k <= Len(age) /\ Len(age) - k = Len(window')
    BY <1>0, <1>2
  <2>2. age' = SubSeq(age, k + 1, Len(age))
    BY <1>2 DEF AgesFollow
  <2> HIDE DEF k
  <2>3. /\ age' \in Seq(Nat) /\ Len(age') = Len(age) - k
        /\ \A i \in 1..(Len(age) - k) : age'[i] = age[i + k]
    BY <1>0, <2>1, <2>2, CutFront
  <2>4. age' \in Seq(Nat) /\ Len(age') = Len(window')
    BY <2>1, <2>3
  <2>5. ASSUME Len(window') >= Len(window), NEW i \in 1..Len(window)
        PROVE  age'[i] = age[i]
    <3>1. k = 0 /\ i \in 1..(Len(age) - k) /\ i + 0 = i
      BY <1>0, <1>2, <2>1, <2>5
    <3> QED
      BY <2>3, <3>1
  <2> QED
    BY <1>2, <2>4, <2>5
<1> QED
  BY <1>1, <1>2

---------------------------------------------------------------------------
(* ClockInv, one lemma for each kind of step. *)

LEMMA LesserOf ==
  ASSUME NEW a \in Nat, NEW b \in Nat
  PROVE  Min({a, b}) \in {a, b} /\ Min({a, b}) <= a /\ Min({a, b}) <= b
<1>1. \E x \in {a, b} : \A y \in {a, b} : x <= y
  OBVIOUS
<1> QED
  BY <1>1 DEF Min

(* A tick makes a clock older by one, unless it has stopped. *)
LEMMA OneTick ==
  ASSUME NEW t \in Nat
  PROVE  Older(t) \in Nat /\ Older(t) <= t + 1
         /\ (t <= Timeout + Late => Older(t) = t + 1)
<1>1. Horizon \in Nat /\ Timeout + Late + 1 <= Horizon /\ Timeout + Late \in Nat
  BY TimersAssumption DEF Horizon, TimersAssumption
<1>2. t + 1 \in Nat
  OBVIOUS
<1> QED
  BY <1>1, <1>2, LesserOf DEF Older

(* The timeout set before the next recvfrom, and the time slept in it. *)
LEMMA NextSleep ==
  ASSUME ClockOK, Receiving, window' \in Seq(Entry),
         age' \in Seq(Nat), Len(age') = Len(window')
  PROVE  soTimeout' \in 1..Timeout /\ slept' = 0 /\ slept' <= soTimeout' + Late
<1>1. soTimeout \in 1..Timeout /\ Timeout \in Nat /\ Late \in Nat
  BY TimersAssumption DEF ClockOK, TimersAssumption
<1>2. \A i \in Outstanding' : age'[i] \in Nat
  <2>1. Outstanding' \subseteq DOMAIN window'
    BY DEF Outstanding
  <2>2. DOMAIN window' = 1..Len(age')
    BY LenProperties
  <2> QED
    BY <2>1, <2>2, ElementOfSeq
<1>3. AwaitsAck' => hasPackets'
  <2>1. window' = <<>> => canAddPacket'
    BY EmptySeq, OptSenderAssumption DEF canAddPacket, OptSenderAssumption
  <2> QED
    BY <2>1 DEF AwaitsAck, CanSend, hasPackets
<1>4. Min({Timeout} \cup {Timeout - age'[i] :
            i \in {j \in Outstanding' : Timeout - age'[j] > 0}}) \in 1..Timeout
  <2> DEFINE S == Outstanding'
  <2> HIDE DEF S
  <2> QED
    BY <1>2, SomeTimeout DEF S
<1>5. soTimeout' \in 1..Timeout
  <2>1. hasPackets' => updateSocketTimeout' \in 1..Timeout
    BY <1>4 DEF updateSocketTimeout
  <2>2. CASE AwaitsAck'
    <3>1. soTimeout' = updateSocketTimeout'
      BY <2>2 DEF Receiving
    <3> QED
      BY <1>3, <2>1, <2>2, <3>1
  <2>3. CASE ~AwaitsAck'
    BY <1>1, <2>3 DEF Receiving
  <2> QED
    BY <2>2, <2>3
<1>6. slept' = 0
  BY DEF Receiving
<1>7. \A t \in 1..Timeout : 0 <= t + Late
  BY <1>1
<1> QED
  BY <1>5, <1>6, <1>7

(* Time passes: every clock, that of this recvfrom too, is a tick older. *)
LEMMA TickKeepsClock ==
  ASSUME SenderTypeOK, ClockInv, Tick
  PROVE  ClockInv'
<1>0. /\ Timeout \in Nat \ {0} /\ Late \in Nat
      /\ soTimeout \in 1..Timeout /\ slept \in Nat /\ silence \in Nat
      /\ age \in Seq(Nat) /\ Len(age) = Len(window) /\ Len(window) \in Nat
      /\ DOMAIN window = 1..Len(window) /\ DOMAIN age = 1..Len(age)
  BY TimersAssumption, WindowEntries, LenProperties
  DEF ClockInv, ClockOK, TimersAssumption
<1>1. /\ UNCHANGED senderVars /\ soTimeout' = soTimeout
      /\ window' = window /\ phase' = phase
      /\ Sleeps' = Sleeps /\ Sleeps /\ Outstanding' = Outstanding
      /\ Outstanding \subseteq 1..Len(age)
  BY <1>0 DEF Tick, vars, senderVars, Sleeps, AwaitsAck, CanSend, canAddPacket,
              hasPackets, SentFile, Outstanding
<1>2. slept' = slept + 1 /\ slept + 1 <= soTimeout + Late
  <2>1. slept < soTimeout + Late
    BY <1>0 DEF Tick
  <2>2. slept <= Timeout + Late
    BY <1>0, <2>1
  <2> QED
    BY <1>0, <2>1, <2>2, OneTick DEF Tick
<1>3. silence' \in Nat /\ silence' <= silence + 1
  BY <1>0, OneTick DEF Tick
<1>4. /\ age' \in Seq(Nat) /\ Len(age') = Len(age)
      /\ \A i \in 1..Len(age) : age'[i] <= age[i] + 1
  <2>1. age' = [i \in 1..Len(age) |-> Older(age[i])]
    BY <1>0 DEF Tick
  <2>2. \A i \in 1..Len(age) :
          age[i] \in Nat /\ Older(age[i]) \in Nat /\ Older(age[i]) <= age[i] + 1
    BY <1>0, OneTick, ElementOfSeq
  <2>3. age' \in Seq(Nat) /\ Len(age') = Len(age)
    BY <1>0, <2>1, <2>2, IsASeq, LenProperties
  <2>4. \A i \in 1..Len(age) : age'[i] = Older(age[i])
    BY <2>1
  <2> QED
    BY <2>2, <2>3, <2>4
<1>5. ClockOK'
  BY <1>0, <1>1, <1>2, <1>3, <1>4 DEF ClockOK
<1>6. ASSUME phase' \in {"open", "data"}, NEW i \in Outstanding'
      PROVE  age'[i] <= Timeout + slept' \/ silence' <= Timeout + slept'
  <2>1. i \in 1..Len(age) /\ i \in Outstanding /\ age[i] \in Nat /\ age'[i] \in Nat
    BY <1>0, <1>1, <1>4, <1>6, ElementOfSeq
  <2>2. age[i] <= Timeout + slept \/ silence <= Timeout + slept
    BY <1>1, <1>6, <2>1 DEF ClockInv, NoneIsLate, IsRecent
  <2> QED
    BY <1>0, <1>2, <1>3, <1>4, <2>1, <2>2
<1>7. NoneIsLate'
  BY <1>1, <1>6 DEF NoneIsLate, IsRecent
<1> QED
  BY <1>5, <1>7 DEF ClockInv

(* The process takes a step of its own: no time passes, so that what was   *)
(* recent still is, and a new packet has no age at all.                    *)
LEMMA LocalKeepsClock ==
  ASSUME SenderTypeOK, window' \in Seq(Entry), ClockInv, TimedLocal
  PROVE  ClockInv'
<1>0. /\ Timeout \in Nat \ {0} /\ Len(window) \in Nat
      /\ window \in Seq(Entry) /\ DOMAIN window = 1..Len(window)
      /\ ClockOK /\ silence \in Nat
  BY TimersAssumption, WindowEntries DEF ClockInv, ClockOK, TimersAssumption
<1>1. CanSend => ~AwaitsAck
  BY DEF AwaitsAck
<1>2. CASE EndConnection
  <2>1. /\ window' = Append(window, InTheWindow(EndPacket(randSeqNum)))
        /\ phase' = "end"
    BY <1>2 DEF EndConnection
  <2>2. InTheWindow(EndPacket(randSeqNum)) \in Entry
    BY WindowExtended, BuiltPackets, WindowEntries
  <2>3. Len(window') = Len(window) + 1
    BY <1>0, <2>1, <2>2, AppendProperties
  <2>4. age' \in Seq(Nat) /\ Len(age') = Len(window')
    BY <1>0, <2>3, AgesFollowWindow DEF TimedLocal
  <2>5. ClockOK'
    BY <1>0, <2>4, NextSleep DEF TimedLocal, ClockOK
  <2>6. NoneIsLate'
    BY <1>0, <2>1, <2>4, NextSleep DEF TimedLocal, NoneIsLate
  <2> QED
    BY <2>5, <2>6 DEF ClockInv
<1>3. CASE OpenFile \/ SendData
  <2>1. ~Sleeps /\ slept = 0 /\ phase \in {"open", "data"}
    <3>1. ~AwaitsAck /\ phase \in {"open", "data"}
      BY <1>1, <1>3 DEF OpenFile, SendData, AwaitsAck
    <3> QED
      BY <3>1 DEF Sleeps, ClockInv, NoneIsLate
  <2>2. \/ window' = window /\ Len(window') = Len(window)
        \/ /\ Len(window') = Len(window) + 1
           /\ \A i \in 1..Len(window) : window'[i] = window[i]
    <3>1. CASE OpenFile
      BY <3>1 DEF OpenFile
    <3>2. CASE SendData
      <4> DEFINE d == DataPacketOf(SentFile, offset)
      <4>1. window' = Append(window, InTheWindow(d))
        BY <3>2 DEF SendData
      <4>2. d \in Packet
        BY <3>2, SentFileExists, BuiltPackets DEF SendData, SenderTypeOK
      <4> HIDE DEF d
      <4>3. InTheWindow(d) \in Entry
        BY <4>2, WindowExtended
      <4> QED
        BY <1>0, <4>1, <4>3, AppendProperties
    <3> QED
      BY <1>3, <3>1, <3>2
  <2>3. /\ age' \in Seq(Nat) /\ Len(age') = Len(window')
        /\ \A i \in 1..Len(window) : age'[i] = age[i]
        /\ Len(window') > Len(window) => age'[Len(window')] = 0
    BY <1>0, <2>2, AgesFollowWindow DEF TimedLocal
  <2>4. slept' = 0 /\ silence' = silence /\ ClockOK'
    BY <1>0, <2>3, NextSleep DEF TimedLocal, ClockOK
  <2>5. ASSUME NEW i \in Outstanding'
        PROVE  age'[i] <= Timeout \/ silence <= Timeout
    <3>1. i \in 1..Len(window')
      BY LenProperties DEF Outstanding
    <3>2. CASE i \in 1..Len(window)
      <4>1. i \in Outstanding
        BY <1>0, <2>2, <3>2 DEF Outstanding
      <4> QED
        BY <1>0, <2>1, <2>3, <3>2, <4>1 DEF ClockInv, NoneIsLate, IsRecent
    <3>3. CASE i \notin 1..Len(window)
      <4>1. i = Len(window') /\ Len(window') > Len(window)
        BY <1>0, <2>2, <3>1, <3>3
      <4> QED
        BY <1>0, <2>3, <4>1
    <3> QED
      BY <3>2, <3>3
  <2>6. NoneIsLate'
    BY <1>0, <2>4, <2>5 DEF NoneIsLate, IsRecent
  <2> QED
    BY <2>4, <2>6 DEF ClockInv
<1> QED
  BY <1>2, <1>3 DEF TimedLocal, SenderLocal

(* recvfrom gives up: what is older than Timeout is sent again.            *)
LEMMA TimeoutKeepsClock ==
  ASSUME SenderTypeOK, window' \in Seq(Entry), ClockInv, TimesOut
  PROVE  ClockInv'
<1>0. /\ Timeout \in Nat \ {0} /\ Len(window) \in Nat
      /\ DOMAIN window = 1..Len(window)
      /\ ClockOK /\ age \in Seq(Nat) /\ Len(age) = Len(window)
      /\ DOMAIN age = 1..Len(age)
  BY TimersAssumption, WindowEntries, LenProperties
  DEF ClockInv, ClockOK, TimersAssumption
<1> DEFINE overdue == {i \in Outstanding : hasTimedOut(i)}
<1>1. CASE StartResent(noPacket) \/ FinishConnection(noPacket)
  <2>1. /\ window' = window /\ phase' \in {"start", "done"}
        /\ age' = age \/ RetransmitTimedOut(noPacket, {window[i].packet : i \in overdue})
    BY <1>1 DEF TimesOut, StartResent, FinishConnection, senderVars
  <2>2. age' = age
    BY <1>1, <2>1 DEF TimesOut, RetransmitTimedOut, AwaitsAck, StartResent,
                      FinishConnection
  <2>3. ClockOK' /\ slept' = 0
    BY <1>0, <2>1, <2>2, NextSleep DEF TimesOut, ClockOK
  <2>4. NoneIsLate'
    BY <2>1, <2>3 DEF NoneIsLate
  <2> QED
    BY <2>3, <2>4 DEF ClockInv
<1>2. CASE /\ RetransmitTimedOut(noPacket, {window[i].packet : i \in overdue})
           /\ age' = [i \in DOMAIN age |-> IF i \in overdue THEN 0 ELSE age[i]]
  <2>1. window' = window
    BY <1>2 DEF RetransmitTimedOut, senderVars
  <2> DEFINE e(i) == IF i \in overdue THEN 0 ELSE age[i]
  <2>2. age' = [i \in 1..Len(age) |-> e(i)]
    BY <1>0, <1>2
  <2>3. \A i \in 1..Len(age) : e(i) \in Nat
    BY <1>0, ElementOfSeq
  <2>4. ASSUME NEW i \in Outstanding
        PROVE  i \in 1..Len(age) /\ e(i) <= Timeout
    <3>1. i \in 1..Len(age) /\ age[i] \in Nat
      BY <1>0, ElementOfSeq DEF Outstanding
    <3> QED
      BY <1>0, <3>1 DEF hasTimedOut
  <2> HIDE DEF e
  <2>5. age' \in Seq(Nat) /\ Len(age') = Len(age)
    BY <1>0, <2>2, <2>3, IsASeq, LenProperties
  <2>6. ClockOK' /\ slept' = 0
    BY <1>0, <2>1, <2>5, NextSleep DEF TimesOut, ClockOK
  <2>7. \A i \in Outstanding' : age'[i] <= Timeout + slept'
    BY <1>0, <2>1, <2>2, <2>4, <2>6 DEF Outstanding
  <2>8. NoneIsLate'
    BY <2>6, <2>7 DEF NoneIsLate, IsRecent
  <2> QED
    BY <2>6, <2>8 DEF ClockInv
<1> QED
  BY <1>1, <1>2 DEF TimesOut

(* An answer: there is no silence. *)
LEMMA AnswerKeepsClock ==
  ASSUME TypeOK, WindowInv, window' \in Seq(Entry), ClockInv,
         NEW p, Answered(p)
  PROVE  ClockInv'
<1>0. /\ SenderTypeOK /\ Len(window) \in Nat /\ Len(window') \in Nat
      /\ Timeout \in Nat \ {0} /\ ClockOK
  BY TimersAssumption, WindowEntries, LenProperties
  DEF ClockInv, TypeOK, TimersAssumption
<1>1. Len(window') <= Len(window)
  <2>1. CASE StartAcked(p)
    <3>1. window = <<InTheWindow(StartPacket(randSeqNum))>> /\ window' = Tail(window)
      BY <2>1 DEF StartAcked, WindowInv, WindowStarts
    <3> QED
      BY <1>0, <3>1
  <2>2. CASE AckReceived(p)
    <3>1. p \in Packet
      BY <2>2, ReceivedPacket DEF AckReceived, TypeOK
    <3>2. PICK k \in 0..Len(window) : Len(window') = Len(window) - k
      BY <1>0, <2>2, <3>1, AckedWindow
    <3> QED
      BY <1>0, <3>2
  <2>3. CASE window' = window
    BY <1>0, <2>3
  <2> QED
    BY <2>1, <2>2, <2>3
    DEF Answered, StartResent, InvalidAckDropped, FinishConnection, senderVars
<1>2. age' \in Seq(Nat) /\ Len(age') = Len(window')
  BY <1>0, <1>1, AgesFollowWindow DEF Answered
<1>3. ClockOK' /\ slept' = 0 /\ silence' = 0
  BY <1>0, <1>2, NextSleep DEF Answered, ClockOK
<1>4. NoneIsLate'
  BY <1>0, <1>3 DEF NoneIsLate, IsRecent
<1> QED
  BY <1>3, <1>4 DEF ClockInv

(* A new process starts with a new socket and START not yet old. *)
LEMMA LaunchKeepsClock ==
  ASSUME TimedLaunch
  PROVE  ClockInv'
<1>1. /\ soTimeout' = Timeout /\ slept' = 0 /\ silence' = 0
      /\ age' = <<0>> /\ phase' = "start"
  BY DEF TimedLaunch, Launch
<1>2. PICK r \in StartSeqs : window' = <<InTheWindow(StartPacket(r))>>
  BY DEF TimedLaunch, Launch
<1>3. age' \in Seq(Nat) /\ Len(age') = Len(window')
  BY <1>1, <1>2
<1>4. Timeout \in 1..Timeout /\ 0 <= Timeout + Late
  BY TimersAssumption DEF TimersAssumption
<1> QED
  BY <1>1, <1>3, <1>4 DEF ClockInv, ClockOK, NoneIsLate

LEMMA ClockStep ==
  ASSUME TypeOK, TypeOK', WindowInv, ClockInv, [TimedNext]_timedVars
  PROVE  ClockInv'
<1>0. SenderTypeOK /\ window' \in Seq(Entry)
  BY DEF TypeOK, SenderTypeOK, Entry
<1>1. CASE UNCHANGED <<senderVars, timerVars>>
  BY <1>1 DEF senderVars, timerVars, ClockInv, ClockOK, NoneIsLate, IsRecent,
              Outstanding, Sleeps, AwaitsAck, CanSend, canAddPacket, hasPackets,
              SentFile
<1>2. CASE TimedSender
  BY <1>0, <1>2, LaunchKeepsClock, LocalKeepsClock, TimeoutKeepsClock,
     AnswerKeepsClock DEF TimedSender
<1>3. CASE Tick
  BY <1>0, <1>3, TickKeepsClock
<1> QED
  BY <1>1, <1>2, <1>3 DEF TimedNext, timedVars, vars

LEMMA ClockStays == TimedSpec => []ClockInv
<1>1. TimedInit => ClockInv
  <2> SUFFICES ASSUME TimedInit PROVE ClockInv
    OBVIOUS
  <2>1. age \in Seq(Nat) /\ Len(age) = Len(window)
    BY EmptySeq DEF TimedInit, TimersInit, Init, SenderInit
  <2>2. Timeout \in 1..Timeout /\ 0 <= Timeout + Late
    BY TimersAssumption DEF TimersAssumption
  <2> QED
    BY <2>1, <2>2 DEF TimedInit, TimersInit, Init, SenderInit, ClockInv, ClockOK,
                      NoneIsLate
<1>2. TypeOK /\ TypeOK' /\ WindowInv /\ ClockInv /\ [TimedNext]_timedVars
        => ClockInv'
  BY ClockStep
<1> QED
  BY <1>1, <1>2, ImplementsUntimed, TypeCorrect, WindowStays, PTL DEF TimedSpec

---------------------------------------------------------------------------
(* The socket always has a timeout of 1 to Timeout: updateSocketTimeout    *)
(* never computes 0, which would let recvfrom wait for ever.               *)
THEOREM SleepStaysBounded == TimedSpec => []SleepIsBounded
<1>1. ClockInv => SleepIsBounded
  BY DEF ClockInv, ClockOK, SleepIsBounded
<1> QED
  BY <1>1, ClockStays, PTL

(* Whatever the timeout and however late the process wakes up, every       *)
(* packet waiting for its ACK is resent, or some answer arrives, within    *)
(* twice the timeout and one lateness.                                     *)
THEOREM ResendsStayInTime == TimedSpec => []ResentInTime
<1>1. ASSUME TypeOK, ClockInv
      PROVE  ResentInTime
  <2> SUFFICES ASSUME AwaitsAck, NEW i \in Outstanding
               PROVE  Min({age[i], silence}) <= 2 * Timeout + Late
    BY DEF ResentInTime
  <2>1. /\ Timeout \in Nat \ {0} /\ Late \in Nat
        /\ soTimeout \in 1..Timeout /\ slept \in Nat /\ slept <= soTimeout + Late
        /\ silence \in Nat /\ age \in Seq(Nat) /\ Len(age) = Len(window)
    BY <1>1, TimersAssumption DEF ClockInv, ClockOK, TimersAssumption
  <2>2. age[i] \in Nat
    <3>1. i \in 1..Len(window)
      BY <1>1, WindowEntries DEF Outstanding, TypeOK
    <3> QED
      BY <2>1, <3>1, ElementOfSeq
  <2>3. age[i] <= Timeout + slept \/ silence <= Timeout + slept
    BY <1>1 DEF ClockInv, NoneIsLate, IsRecent, AwaitsAck
  <2>4. Timeout + slept <= 2 * Timeout + Late
    BY <2>1
  <2>5. Min({age[i], silence}) <= age[i] /\ Min({age[i], silence}) <= silence
        /\ Min({age[i], silence}) \in Nat
    BY <2>1, <2>2, LesserOf
  <2> QED
    BY <2>1, <2>2, <2>3, <2>4, <2>5
<1> QED
  BY <1>1, ClockStays, ImplementsUntimed, TypeCorrect, PTL
===========================================================================

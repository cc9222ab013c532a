------------------------------ MODULE WtpWire ------------------------------
(***************************************************************************)
(* A base transfer on the wire: how packets become datagrams and datagrams *)
(* packets again, byte by byte.  Both windows hold one packet, only DATA   *)
(* is damaged and nothing is lost, so that one datagram at a time is under *)
(* way; what larger windows and a worse network do is the subject of       *)
(* BaseTransfer, which takes a packet as a whole and its checksum as right *)
(* or wrong.  That this is a fair picture of the bytes is shown here: the  *)
(* transfer on the wire implements BaseTransfer.                           *)
(***************************************************************************)
EXTENDS CrcDivision, Integers

CONSTANTS
  Contents,     \* contents of the file to send, sequences of bytes
  StartSeqs,    \* values of the random START number, words
  CHUNK_SIZE,   \* 1456
  BufferSize,   \* size of the receiver's buffers, 1500
  Garbage,      \* what a byte of an uninitialised buffer may be
  Damages       \* which bits of a data section the network may flip at once

ASSUME WireAssumption ==
  /\ Contents \subseteq Seq(Byte)
  /\ StartSeqs \subseteq Word
  /\ CHUNK_SIZE \in Nat \ {0}
  /\ BufferSize \in Nat /\ BufferSize >= 16 + CHUNK_SIZE
  /\ Garbage \subseteq Byte
  /\ \A bits \in Damages : bits \subseteq Nat

VARIABLES
  file,         \* the sender: what it read from its file,
  phase,        \* where it is,
  randSeqNum,   \* number of START and END,
  window,       \* the packet sent and not acknowledged, if any,
  offset,       \* next byte to send
  dataSeqNum,   \* and next number
  connection,   \* the receiver: a connection is open,
  startACK,     \* number of the START accepted last,
  next_seq,     \* number expected next
  output,       \* and what it wrote
  toReceiver,   \* the datagram in flight to the receiver, empty if none
  toSender      \* and the one to the sender

senderVars == <<file, phase, randSeqNum, window, offset, dataSeqNum>>
receiverVars == <<connection, startACK, next_seq, output>>
vars == <<senderVars, receiverVars, toReceiver, toSender>>

---------------------------------------------------------------------------
(* Words in memory order, and packets. *)

START == {}
END == {0}
DATA == {1}
ACK == {0, 1}

Zeros(n) == [i \in 1..n |-> {}]

(* Most significant byte first. *)
htonl(w) == [k \in 1..4 |-> {i \in 0..7 : 8 * (4 - k) + i \in w}]
ntohl(b) == UNION {{8 * (4 - k) + i : i \in b[k]} : k \in 1..4}

calculateCheckSum(data) == crc32(data)

Packet(type, data, seqNum) ==
  [type |-> type, seqNum |-> seqNum, length |-> Bits(Len(data)),
   checksum |-> calculateCheckSum(data), data |-> data]

getNetworkOrderHeader(p) ==
  htonl(p.type) \o htonl(p.seqNum) \o htonl(p.length) \o htonl(p.checksum)

(* The header in network order and the data behind it. *)
Datagram(p) == getNetworkOrderHeader(p) \o p.data

(* What a datagram holds, given the bytes that are taken for its data. *)
Parsed(buffer, data) ==
  [type |-> ntohl(SubSeq(buffer, 1, 4)), seqNum |-> ntohl(SubSeq(buffer, 5, 8)),
   length |-> ntohl(SubSeq(buffer, 9, 12)),
   checksum |-> ntohl(SubSeq(buffer, 13, 16)), data |-> data]

(* The receiver takes as data what recvfrom returned beyond the header. *)
Packet1(datagram) ==
  LET recv_len == Min({BufferSize, Len(datagram)})
  IN  Parsed(datagram, SubSeq(datagram, 17, recv_len))

(* Mutant: the number goes out as it stands in memory. *)
toBuffer_HostOrder(seqNum, rest) ==
  htonl(ACK) \o Reverse(htonl(seqNum)) \o Zeros(8) \o
    [i \in 1..(BufferSize - 16) |-> rest]

(* An ACK is a whole buffer: type and number in network order, length and  *)
(* checksum 0, and the rest as it was.                                     *)
toBuffer(seqNum, rest) ==
  htonl(ACK) \o htonl(seqNum) \o Zeros(8) \o
    [i \in 1..(BufferSize - 16) |-> rest]

(* The sender's buffer is zeroed and smaller; of the data it takes as much *)
(* as the header says.                                                     *)
receiveAck(datagram) ==
  LET bufferSize == 16 + CHUNK_SIZE
      buffer == SubSeq(datagram \o Zeros(bufferSize), 1, bufferSize)
      length == ntohl(SubSeq(buffer, 9, 12))
  IN  Parsed(buffer, IF length = {} THEN <<>>
                     ELSE SubSeq(buffer, 17, 16 + SumSet({2^i : i \in length})))

isAckValid(p) == p.checksum = calculateCheckSum(p.data)

---------------------------------------------------------------------------
(* The sender, as in BaseSender. *)

Init ==
  /\ file \in Contents
  /\ phase = "idle"
  /\ randSeqNum = {}
  /\ window = <<>>
  /\ offset = 0
  /\ dataSeqNum = 0
  /\ connection = FALSE
  /\ startACK = {}
  /\ next_seq = 0
  /\ output = <<>>
  /\ toReceiver = <<>>
  /\ toSender = <<>>

sendPacket(p) == toReceiver' = Datagram(p) /\ window' = <<p>>

Launch ==
  /\ phase = "idle"
  /\ phase' = "start"
  /\ \E r \in StartSeqs : randSeqNum' = r /\ sendPacket(Packet(START, <<>>, r))
  /\ UNCHANGED <<file, offset, dataSeqNum, receiverVars, toSender>>

OpenFile ==
  /\ phase = "open"
  /\ phase' = "data"
  /\ UNCHANGED <<file, randSeqNum, window, offset, dataSeqNum,
                 receiverVars, toReceiver, toSender>>

(* Mutant: the chunk ends one byte early. *)
chunk_OneShort ==
  LET chunkSize == Min({CHUNK_SIZE - 1, Len(file) - offset})
  IN  SubSeq(file, offset + 1, offset + chunkSize)

(* The piece of the file, at most CHUNK_SIZE bytes, that starts at offset. *)
chunk ==
  LET chunkSize == Min({CHUNK_SIZE, Len(file) - offset})
  IN  SubSeq(file, offset + 1, offset + chunkSize)

SendData ==
  /\ phase = "data"
  /\ window = <<>> /\ offset < Len(file)
  /\ sendPacket(Packet(DATA, chunk, Bits(dataSeqNum)))
  /\ offset' = offset + Len(chunk)
  /\ dataSeqNum' = dataSeqNum + 1
  /\ UNCHANGED <<file, phase, randSeqNum, receiverVars, toSender>>

EndConnection ==
  /\ phase = "data"
  /\ window = <<>> /\ offset >= Len(file)
  /\ phase' = "end"
  /\ sendPacket(Packet(END, <<>>, randSeqNum))
  /\ UNCHANGED <<file, randSeqNum, offset, dataSeqNum, receiverVars, toSender>>

(* A damaged DATA packet was dropped: its timeout sends it again. *)
Retransmit ==
  /\ phase = "data"
  /\ window # <<>> /\ toReceiver = <<>> /\ toSender = <<>>
  /\ toReceiver' = Datagram(Head(window))
  /\ UNCHANGED <<senderVars, receiverVars, toSender>>

(* With one packet in the window and one datagram under way an answer is   *)
(* always that of the front packet: an ACK to ignore, and a START or END   *)
(* to retry, occur in BaseSender only.                                     *)
Answered ==
  LET p == receiveAck(toSender) IN
  /\ toSender # <<>>
  /\ toSender' = <<>>
  /\ isAckValid(p)
  /\ \/ /\ phase = "start" /\ p.seqNum = randSeqNum
        /\ phase' = "open"
     \/ /\ phase = "data" /\ p.seqNum = Bits(Number(Head(window).seqNum) + 1)
        /\ UNCHANGED phase
     \/ /\ phase = "end" /\ p.seqNum = randSeqNum
        /\ phase' = "done"
  /\ window' = IF phase = "end" THEN window ELSE <<>>
  /\ UNCHANGED <<file, randSeqNum, offset, dataSeqNum, receiverVars, toReceiver>>

---------------------------------------------------------------------------
(* The network and the receiver. *)

Flipped(datagram, bits) ==
  [i \in DOMAIN datagram |->
     datagram[i] ^^ {b \in 0..7 : i > 16 /\ 8 * (i - 17) + b \in bits}]

Damage ==
  /\ \E bits \in Damages :
       /\ bits \subseteq 0..(8 * (Len(toReceiver) - 16) - 1)
       /\ toReceiver = Datagram(Head(window))
       /\ toReceiver' = Flipped(toReceiver, bits)
  /\ UNCHANGED <<senderVars, receiverVars, toSender>>

sendAck(seqNum) == \E rest \in Garbage : toSender' = toBuffer(seqNum, rest)

(* One START is under way in one transfer, to a receiver not yet connected: *)
(* that a second one is ignored is in BaseReceiver.  The int that its      *)
(* number goes through (line 153) has the 32 bits of the word.             *)
StartReceived(p) ==
  /\ p.type = START
  /\ connection' = TRUE
  /\ startACK' = p.seqNum
  /\ next_seq' = 0
  /\ sendAck(p.seqNum)
  /\ UNCHANGED output

EndReceived(p) ==
  /\ p.type = END
  /\ connection' = FALSE
  /\ sendAck(startACK)
  /\ UNCHANGED <<startACK, next_seq, output>>

(* Mutant: the checksum is not looked at. *)
DataReceived_Unchecked(p) ==
  /\ p.type = DATA /\ p.seqNum = Bits(next_seq)
  /\ output' = output \o p.data
  /\ next_seq' = next_seq + 1
  /\ sendAck(Bits(next_seq + 1))
  /\ UNCHANGED <<connection, startACK>>

DataReceived(p) ==
  /\ p.type = DATA
  /\ IF p.checksum = crc32(p.data) /\ p.seqNum = Bits(next_seq)
       THEN /\ output' = output \o p.data
            /\ next_seq' = next_seq + 1
            /\ sendAck(Bits(next_seq + 1))
       ELSE UNCHANGED <<output, next_seq, toSender>>
  /\ UNCHANGED <<connection, startACK>>

Receive ==
  /\ toReceiver # <<>>
  /\ LET p == Packet1(toReceiver) IN
       StartReceived(p) \/ EndReceived(p) \/ DataReceived(p)
  /\ toReceiver' = <<>>
  /\ UNCHANGED senderVars

Next ==
  \/ Launch \/ OpenFile \/ SendData \/ EndConnection
  \/ Retransmit \/ Answered
  \/ Damage \/ Receive

Spec == Init /\ [][Next]_vars

---------------------------------------------------------------------------

(* The bytes written are the first bytes of the file, whatever its length  *)
(* and its bytes and however often DATA is damaged, and all of them when   *)
(* END is sent.                                                            *)
OutputIsTheFile ==
  /\ IsPrefix(output, file)
  /\ phase \in {"end", "done"} => output = file

(* A data section damaged within 32 bits no longer fits the checksum in    *)
(* its header.                                                             *)
DamageIsDetected ==
  toReceiver # <<>> /\ toReceiver # Datagram(Head(window)) =>
    LET p == Packet1(toReceiver) IN p.checksum # crc32(p.data)

(* An ACK, a receiver's buffer whose end is not initialised, cut down to   *)
(* the sender's shorter one, is read as a valid ACK with the number that   *)
(* the receiver meant: that of START, or next_seq.                         *)
AckReadsBack ==
  toSender # <<>> =>
    LET p == receiveAck(toSender) IN
    /\ p.type = ACK /\ isAckValid(p)
    /\ p.seqNum = IF phase = "data" THEN Bits(next_seq) ELSE randSeqNum

(* The table-driven checksum of a data section, damaged or not, is the     *)
(* CRC-32 of the polynomial that Crc32.hpp names.                          *)
ChecksumIsCrc ==
  toReceiver # <<>> =>
    LET p == Packet1(toReceiver) IN crc32(p.data) = CrcOf(p.data)
===========================================================================

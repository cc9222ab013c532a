-------------------------- MODULE MCBaseTransfer --------------------------
(***************************************************************************)
(* BaseTransfer on small instances.                                        *)
(***************************************************************************)
EXTENDS BaseTransfer

CONSTANTS
  log1, log2,   \* the -o arguments of two senders
  MaxLen        \* the length of each file, in chunks

Files == {log1, log2}

(* Every datagram the instance can put on the network. *)
StartPackets == [type : {"START"}, seq : StartSeqs, intact : BOOLEAN]
EndPackets == [type : {"END"}, seq : StartSeqs, intact : BOOLEAN]
StartAcks == [type : {"ACK"}, seq : StartSeqs, intact : BOOLEAN]
DataAcks == [type : {"ACK"}, seq : 0..MaxLen, intact : BOOLEAN]
DataPackets ==
  [type : {"DATA"}, seq : 0..MaxLen, data : [of : Files, idx : 0..MaxLen],
   intact : BOOLEAN]
Acks == StartAcks \cup DataAcks
AllPackets == StartPackets \cup EndPackets \cup DataPackets \cup Acks

NoPackets == {}
AllButAcks == AllPackets \ Acks
AllButStartAcks == AllPackets \ StartAcks
DataAndAcks == DataPackets \cup Acks

Logs == [s \in 1..Sessions |-> IF s = 1 THEN log1 ELSE log2]
SameLen == [f \in Files |-> MaxLen]

Log1 == {log1}

(* What the first sender sends, and the ACKs it may be sent. *)
Sent == {StartPacket(r) : r \in StartSeqs} \cup {EndPacket(r) : r \in StartSeqs}
          \cup {DataPacketOf(log1, n) : n \in 0..(MaxLen - 1)}
Answers == {AckPacket(n) : n \in StartSeqs \cup 0..MaxLen}
===========================================================================

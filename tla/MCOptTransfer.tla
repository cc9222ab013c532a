-------------------------- MODULE MCOptTransfer --------------------------
(***************************************************************************)
(* OptTransfer on small instances.                                         *)
(***************************************************************************)
EXTENDS OptTransfer

CONSTANTS
  in1, in2,   \* two input files
  MaxLen      \* the length of each, in chunks

Files == {in1, in2}

(* Every datagram the instance can put on the network. *)
StartPackets == [type : {"START"}, seq : StartSeqs, intact : BOOLEAN]
EndPackets == [type : {"END"}, seq : StartSeqs, intact : BOOLEAN]
StartAcks == [type : {"ACK"}, seq : StartSeqs, intact : BOOLEAN]
DataAcks == [type : {"ACK"}, seq : 0..MaxLen, intact : BOOLEAN]
DataPackets ==
  [type : {"DATA"}, seq : 0..MaxLen, data : [of : Files, idx : 0..MaxLen],
   intact : BOOLEAN]
AllPackets ==
  StartPackets \cup EndPackets \cup DataPackets \cup StartAcks \cup DataAcks

NoPackets == {}
AllButStartAcks == AllPackets \ StartAcks

Inputs == [s \in 1..Sessions |-> IF s = 1 THEN in1 ELSE in2]
SameLen == [f \in Files |-> MaxLen]
In1 == {in1}

(* What the first sender sends, and the ACKs it may be sent. *)
Data == {DataPacketOf(in1, n) : n \in 0..(MaxLen - 1)}
Sent == Data \cup {StartPacket(r) : r \in StartSeqs}
Answers == {AckPacket(n) : n \in StartSeqs \cup 0..(MaxLen - 1)}

===========================================================================

---------------------------- MODULE WtpNetwork ----------------------------
(***************************************************************************)
(* WTP packets and the UDP datagram service that carries them.             *)
(*                                                                         *)
(* A packet keeps what the two programs look at: its type, its sequence    *)
(* number, for DATA the chunk of file it carries, and whether the checksum *)
(* in its header is the CRC of its data section (`intact').  A packet the  *)
(* programs build is intact; only the network damages one.                 *)
(*                                                                         *)
(* UDP is outside the repository.  Each direction is the set of datagrams  *)
(* in flight: any of them may arrive next (reordering, delay), a Lossy one *)
(* may vanish, a Replayable one may arrive again, a Corruptible one may    *)
(* arrive with a data section that no longer matches its checksum.  Two    *)
(* equal datagrams in flight are one element of the set.                   *)
(***************************************************************************)
EXTENDS Integers

CONSTANTS
  File,         \* the files named on the command lines
  Lossy,        \* the packets the network may lose
  Replayable,   \* the packets the network may deliver more than once
  Corruptible   \* the packets the network may damage

VARIABLES
  toReceiver,   \* datagrams in flight to wReceiver
  toSender      \* datagrams in flight to the sender port (9000)

networkVars == <<toReceiver, toSender>>

(* The idx-th CHUNK_SIZE piece of a file, counted from 0. *)
Chunk == [of : File, idx : Nat]

ControlPacket ==
  [type : {"START", "END", "ACK", "TIMEOUT"}, seq : Nat, intact : BOOLEAN]
DataPacket == [type : {"DATA"}, seq : Nat, data : Chunk, intact : BOOLEAN]
Packet == ControlPacket \cup DataPacket

StartPacket(r) == [type |-> "START", seq |-> r, intact |-> TRUE]
EndPacket(r) == [type |-> "END", seq |-> r, intact |-> TRUE]
AckPacket(n) == [type |-> "ACK", seq |-> n, intact |-> TRUE]
(* Mutant: the chunk is cut one CHUNK_SIZE too early. *)
DataPacketOf_EarlyChunk(f, n) ==
  [type |-> "DATA", seq |-> n, data |-> [of |-> f, idx |-> n - 1], intact |-> TRUE]

DataPacketOf(f, n) ==
  [type |-> "DATA", seq |-> n, data |-> [of |-> f, idx |-> n], intact |-> TRUE]

---------------------------------------------------------------------------

(* What may be left of the datagrams `net' once p has been delivered. *)
Remaining(p, net) ==
  {net \ {p}} \cup (IF p \in Replayable THEN {net} ELSE {})

Damaged(p) == [p EXCEPT !.intact = FALSE]

Lose ==
  \/ /\ \E p \in toReceiver \cap Lossy : toReceiver' = toReceiver \ {p}
     /\ UNCHANGED toSender
  \/ /\ \E p \in toSender \cap Lossy : toSender' = toSender \ {p}
     /\ UNCHANGED toReceiver

Corrupt ==
  \/ /\ \E p \in toReceiver \cap Corruptible :
          toReceiver' = (toReceiver \ {p}) \cup {Damaged(p)}
     /\ UNCHANGED toSender
  \/ /\ \E p \in toSender \cap Corruptible :
          toSender' = (toSender \ {p}) \cup {Damaged(p)}
     /\ UNCHANGED toReceiver

NetworkInit == toReceiver = {} /\ toSender = {}
NetworkStep == Lose \/ Corrupt

NetworkTypeOK == toReceiver \subseteq Packet /\ toSender \subseteq Packet
===========================================================================

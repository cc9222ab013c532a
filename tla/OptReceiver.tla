--------------------------- MODULE OptReceiver ---------------------------
(***************************************************************************)
(* wReceiverOpt (cpp/src/opt/Receiver.cpp): the loop of wReceiver with     *)
(* another DATA branch.  It sets next_seq to the number of the packet in   *)
(* hand before it uses next_seq, so no expected number survives from one   *)
(* datagram to the next and next_seq is not a variable here.               *)
(***************************************************************************)
EXTENDS WtpNetwork, Sequences

CONSTANTS
  window_size,      \* the receiver's window argument
  MaxFiles,         \* connections accepted in one behaviour (bound)
  OutputDirIsCwd    \* TRUE: output_dir is the current directory

ASSUME OptReceiverAssumption ==
  /\ window_size \in Nat \ {0}
  /\ MaxFiles \in Nat
  /\ OutputDirIsCwd \in BOOLEAN

VARIABLES
  connection,       \* a connection is open
  counter,          \* index of the current output file, -1 before any
  startACK,         \* number of the START accepted last
  receivedPackets,  \* std::map from sequence number to chunk received
  files             \* contents of FILE-i.out in the current directory

receiverVars == <<connection, counter, startACK, receivedPackets, files>>

FileIndex == -1 .. (MaxFiles - 1)

ReceiverInit ==
  /\ connection = FALSE
  /\ counter = -1
  /\ startACK = 0
  /\ receivedPackets = <<>>
  /\ files = [i \in FileIndex |-> <<>>]

receive(p) == p \in toReceiver /\ toReceiver' \in Remaining(p, toReceiver)

sendAck(n) == toSender' = toSender \cup {AckPacket(n)}

---------------------------------------------------------------------------

StartIgnored(p) ==
  /\ p.type = "START"
  /\ connection
  /\ receive(p)
  /\ UNCHANGED <<receiverVars, toSender>>

(* Opening output_file truncates it. *)
StartAccepted(p) ==
  /\ p.type = "START"
  /\ ~connection
  /\ counter + 1 < MaxFiles
  /\ receive(p)
  /\ connection' = TRUE
  /\ startACK' = p.seq
  /\ sendAck(p.seq)
  /\ counter' = counter + 1
  /\ files' = IF OutputDirIsCwd THEN [files EXCEPT ![counter + 1] = <<>>]
                                ELSE files
  /\ UNCHANGED receivedPackets

EndReceived(p) ==
  /\ p.type = "END"
  /\ receive(p)
  /\ connection' = FALSE
  /\ sendAck(startACK)
  /\ UNCHANGED <<counter, startACK, receivedPackets, files>>

InWindow(next_seq, n) == next_seq + window_size > n /\ next_seq <= n

(* receivedPackets[p.seq] = p *)
Stored(p) ==
  [n \in DOMAIN receivedPackets \cup {p.seq} |->
     IF n = p.seq THEN p.data ELSE receivedPackets[n]]

(* Only a bad checksum fails: n is always within the window that starts    *)
(* at n.                                                                   *)
DataDropped(p) ==
  /\ p.type = "DATA"
  /\ ~p.intact \/ ~InWindow(p.seq, p.seq)
  /\ receive(p)
  /\ UNCHANGED <<receiverVars, toSender>>

(* The packet is stored in the map and then looked up there: only if it    *)
(* were absent would it be written to the file.                            *)
DataReceived(p) ==
  LET next_seq == p.seq IN
  /\ p.type = "DATA" /\ p.intact /\ InWindow(next_seq, p.seq)
  /\ receive(p)
  /\ receivedPackets' = Stored(p)
  /\ files' = IF next_seq \in DOMAIN Stored(p) THEN files
              ELSE [files EXCEPT ![counter] = Append(@, p.data)]
  /\ sendAck(next_seq)
  /\ UNCHANGED <<connection, counter, startACK>>

ReceiverHandles(p) ==
  \/ StartIgnored(p) \/ StartAccepted(p)
  \/ EndReceived(p)
  \/ DataDropped(p) \/ DataReceived(p)

ReceiverStep == \E p \in toReceiver : ReceiverHandles(p)

ReceiverTypeOK ==
  /\ connection \in BOOLEAN
  /\ counter \in FileIndex
  /\ startACK \in Nat
  /\ DOMAIN receivedPackets \subseteq Nat
  /\ \A n \in DOMAIN receivedPackets : receivedPackets[n] \in Chunk
  /\ files \in [FileIndex -> Seq(Chunk)]
===========================================================================

--------------------------- MODULE BaseReceiver ---------------------------
(***************************************************************************)
(* wReceiver (cpp/src/base/Receiver.cpp): one loop that takes a datagram,  *)
(* handles it to the end and answers it, for every transfer in turn.  The  *)
(* actions are the branches of that loop.                                  *)
(***************************************************************************)
EXTENDS WtpNetwork, Sequences, Functions

CONSTANTS
  window_size,      \* the receiver's window argument
  MaxFiles,         \* connections accepted in one behaviour (bound)
  OutputDirIsCwd,   \* TRUE: output_dir is the current directory
  OpenFaults,       \* TRUE: opening output_dir/FILE-i.out may fail
  WriteFaults,      \* TRUE: opening FILE-i.out to append may fail
  MaxRestarts       \* restarts of the receiver process (bound)

ASSUME ReceiverAssumption ==
  /\ window_size \in Nat \ {0}
  /\ MaxFiles \in Nat
  /\ OutputDirIsCwd \in BOOLEAN
  /\ OpenFaults \in BOOLEAN /\ WriteFaults \in BOOLEAN
  /\ MaxRestarts \in Nat

VARIABLES
  connection,       \* a connection is open
  next_seq,         \* sequence number expected next
  counter,          \* index of the current output file, -1 before any
  startACK,         \* number of the START accepted last
  receivedPackets,  \* std::map from sequence number to chunk received
  files,            \* contents of FILE-i.out in the current directory
  restarts          \* restarts so far

receiverVars ==
  <<connection, next_seq, counter, startACK, receivedPackets, files, restarts>>

FileIndex == -1 .. (MaxFiles - 1)

ReceiverInit ==
  /\ connection = FALSE
  /\ next_seq = 0
  /\ counter = -1
  /\ startACK = 0
  /\ receivedPackets = <<>>
  /\ files = [i \in FileIndex |-> <<>>]
  /\ restarts = 0

---------------------------------------------------------------------------

receive(p) == p \in toReceiver /\ toReceiver' \in Remaining(p, toReceiver)

(* Mutant: the ACK covers one packet too many. *)
sendAck_OneMore(n) == toSender' = toSender \cup {AckPacket(n + 1)}

sendAck(n) == toSender' = toSender \cup {AckPacket(n)}

(* Mutants: a write is forgotten; a write that succeeded is tried again. *)
writeToFile_Lost(d) ==
  \/ files' = [files EXCEPT ![counter] = Append(@, d)]
  \/ UNCHANGED files
writeToFile_Twice(d) ==
  \/ files' = [files EXCEPT ![counter] = Append(@, d)]
  \/ files' = [files EXCEPT ![counter] = @ \o <<d, d>>]

(* writeToFile appends to FILE-<counter>.out; a failed open is printed and *)
(* forgotten.                                                              *)
writeToFile(d) ==
  \/ files' = [files EXCEPT ![counter] = Append(@, d)]
  \/ WriteFaults /\ UNCHANGED files

(* Mutants: the file is opened before the counter moves; it is opened for  *)
(* append.                                                                 *)
openOutput_Previous(i) ==
  files' = IF OutputDirIsCwd /\ i > 0 THEN [files EXCEPT ![i - 1] = <<>>] ELSE files
openOutput_Kept(i) == UNCHANGED files

(* output_dir/FILE-i.out is opened, which truncates it, and never written: *)
(* it is the file writeToFile appends to only when output_dir is the       *)
(* working directory.  Whether the open succeeded is not looked at.        *)
openOutput(i) ==
  \/ OutputDirIsCwd /\ files' = [files EXCEPT ![i] = <<>>]
  \/ (~OutputDirIsCwd \/ OpenFaults) /\ UNCHANGED files

---------------------------------------------------------------------------

(* Mutant: a START that is ignored is acknowledged all the same. *)
StartIgnored_Acked(p) ==
  /\ p.type = "START" /\ connection
  /\ receive(p) /\ sendAck(p.seq)
  /\ UNCHANGED receiverVars

StartIgnored(p) ==
  /\ p.type = "START"
  /\ connection
  /\ receive(p)
  /\ UNCHANGED <<receiverVars, toSender>>

(* Mutant: the expected number is not reset for the new connection. *)
StartAccepted_NoReset(p) ==
  /\ p.type = "START" /\ ~connection /\ counter + 1 < MaxFiles
  /\ receive(p) /\ sendAck(p.seq)
  /\ connection' = TRUE /\ startACK' = p.seq
  /\ counter' = counter + 1 /\ openOutput(counter + 1)
  /\ UNCHANGED <<next_seq, receivedPackets, restarts>>

StartAccepted(p) ==
  /\ p.type = "START"
  /\ ~connection
  /\ counter + 1 < MaxFiles
  /\ receive(p)
  /\ connection' = TRUE
  /\ next_seq' = 0
  /\ startACK' = p.seq
  /\ sendAck(p.seq)
  /\ counter' = counter + 1
  /\ openOutput(counter + 1)
  /\ UNCHANGED <<receivedPackets, restarts>>

EndReceived(p) ==
  /\ p.type = "END"
  /\ receive(p)
  /\ connection' = FALSE
  /\ sendAck(startACK)
  /\ UNCHANGED <<next_seq, counter, startACK, receivedPackets, files, restarts>>

InWindow(n) == next_seq + window_size > n /\ next_seq <= n

(* A bad checksum or a number outside the window: dropped, not answered. *)
DataDropped(p) ==
  /\ p.type = "DATA"
  /\ ~p.intact \/ ~InWindow(p.seq)
  /\ receive(p)
  /\ UNCHANGED <<receiverVars, toSender>>

(* Mutant: map::insert, which keeps what an earlier connection left. *)
Stored_Insert(p) ==
  [n \in DOMAIN receivedPackets \cup {p.seq} |->
     IF n \in DOMAIN receivedPackets THEN receivedPackets[n] ELSE p.data]

(* receivedPackets[p.seq] = p *)
Stored(p) ==
  [n \in DOMAIN receivedPackets \cup {p.seq} |->
     IF n = p.seq THEN p.data ELSE receivedPackets[n]]

(* Ahead of the expected number: kept, the expected number is repeated. *)
DataBuffered(p) ==
  /\ p.type = "DATA" /\ p.intact /\ InWindow(p.seq)
  /\ p.seq # next_seq
  /\ receive(p)
  /\ receivedPackets' = Stored(p)
  /\ sendAck(next_seq)
  /\ UNCHANGED <<connection, next_seq, counter, startACK, files, restarts>>

(* The expected number: the inner loop writes and erases that entry, looks *)
(* for the same number again and ends, so next_seq moves by one.           *)
DataWritten(p) ==
  /\ p.type = "DATA" /\ p.intact /\ InWindow(p.seq)
  /\ p.seq = next_seq
  /\ receive(p)
  /\ writeToFile(Stored(p)[next_seq])
  /\ receivedPackets' =
       Restrict(Stored(p), DOMAIN receivedPackets \ {next_seq})
  /\ next_seq' = next_seq + 1
  /\ sendAck(next_seq + 1)
  /\ UNCHANGED <<connection, counter, startACK, restarts>>

(* The process is stopped and started again; what is on disk stays. *)
Restart ==
  /\ restarts < MaxRestarts
  /\ restarts' = restarts + 1
  /\ connection' = FALSE
  /\ next_seq' = 0
  /\ counter' = -1
  /\ startACK' = 0
  /\ receivedPackets' = <<>>
  /\ UNCHANGED <<files, networkVars>>

ReceiverHandles(p) ==
  \/ StartIgnored(p) \/ StartAccepted(p)
  \/ EndReceived(p)
  \/ DataDropped(p) \/ DataBuffered(p) \/ DataWritten(p)

ReceiverStep == (\E p \in toReceiver : ReceiverHandles(p)) \/ Restart

ReceiverTypeOK ==
  /\ connection \in BOOLEAN
  /\ next_seq \in Nat
  /\ counter \in FileIndex
  /\ startACK \in Nat
  /\ DOMAIN receivedPackets \subseteq Nat
  /\ \A n \in DOMAIN receivedPackets : receivedPackets[n] \in Chunk
  /\ files \in [FileIndex -> Seq(Chunk)]
  /\ restarts \in 0..MaxRestarts
===========================================================================

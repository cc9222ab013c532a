--------------------------- MODULE BaseTransfer ---------------------------
(***************************************************************************)
(* wSender and wReceiver joined by the network.                            *)
(***************************************************************************)
EXTENDS BaseSender, BaseReceiver, SequencesExt

vars == <<senderVars, receiverVars, networkVars>>

Init == SenderInit /\ ReceiverInit /\ NetworkInit

Next ==
  \/ SenderStep /\ UNCHANGED receiverVars
  \/ ReceiverStep /\ UNCHANGED senderVars
  \/ NetworkStep /\ UNCHANGED <<senderVars, receiverVars>>

Spec == Init /\ [][Next]_vars

TypeOK == NetworkTypeOK /\ SenderTypeOK /\ ReceiverTypeOK

---------------------------------------------------------------------------
(* Safety for any number of transfers over the worst network. *)

(* START opens output_dir/FILE-i.out and DATA is appended to FILE-i.out in *)
(* the working directory, so what an earlier receiver process left there   *)
(* is truncated only if the two are one file and the open succeeds.        *)
Truncates == OutputDirIsCwd /\ ~OpenFaults
FilesBeginEmpty == Truncates \/ restarts = 0

AreOrdered ==
  \A i \in FileIndex : i >= 0 =>
    \A j, k \in 1..Len(files[i]) : j < k => files[i][j].idx < files[i][k].idx

(* The chunks of every output file stand in the order of the input file,   *)
(* none twice, whatever is lost, repeated, reordered or damaged, however   *)
(* many senders follow one another, and even when writes fail: as long as  *)
(* START truncates the file that is written, or the receiver has not been  *)
(* restarted.                                                              *)
FilesInOrder == FilesBeginEmpty => AreOrdered

AreGapless ==
  /\ \A i \in FileIndex : i >= 0 =>
       \A k \in 1..Len(files[i]) : files[i][k].idx = k - 1
  /\ counter >= 0 => Len(files[counter]) = next_seq

(* No chunk is skipped, under the same condition: the k-th chunk of an     *)
(* output file is number k - 1, and the current file holds exactly the     *)
(* chunks before next_seq.                                                 *)
FilesHaveNoGaps == FilesBeginEmpty => AreGapless

(* What is on disk stays on disk until the receiver is restarted: an       *)
(* output file only grows at its end, and no later connection truncates it *)
(* or writes into it.                                                      *)
FilesOnlyGrow ==
  [][restarts = 0 =>
       \A i \in FileIndex : i >= 0 =>
         /\ IsPrefix(files[i], files'[i])
         /\ files'[i] # files[i] => i = counter]_vars

StartInWindow == \E i \in DOMAIN window : window[i].type = "START"
Transferring == phase = "data" /\ ~StartInWindow

(* Of transfers between which the network falls silent: the data phase of  *)
(* a sender whose START was acknowledged runs in a connection of its own,  *)
(* which nothing of an earlier transfer, killed or finished, has opened or *)
(* closes, as long as the receiver is not restarted.                       *)
ConnectionIsOwn ==
  Transferring /\ restarts = 0 => connection /\ startACK = randSeqNum

(* Its output file holds chunks of the sender's file only, though DATA has *)
(* no mark of its connection and receivedPackets outlives connections: as  *)
(* long as START truncates the file that is written, or the receiver has   *)
(* not been restarted.                                                     *)
FileIsOwn ==
  FilesBeginEmpty /\ Transferring /\ counter >= 0 =>
    \A k \in 1..Len(files[counter]) : files[counter][k].of = SentFile

---------------------------------------------------------------------------
(* What one transfer promises.  Its START is acknowledged at most once.    *)

(* Some output file holds the first n chunks of the file being sent. *)
HoldsPrefix(i, n) ==
  /\ Len(files[i]) >= n
  /\ \A k \in 1..n : files[i][k] = [of |-> SentFile, idx |-> k - 1]
IsStored(n) == \E i \in FileIndex : i >= 0 /\ HoldsPrefix(i, n)

(* A cumulative ACK under way to the sender speaks of chunks on disk: no   *)
(* data is confirmed before it is written (to FILE--1.out, if the receiver *)
(* has not had START yet).                                                 *)
AckedIsStored ==
  \A p \in toSender : p.intact /\ p.seq \notin StartSeqs =>
    \E i \in FileIndex : HoldsPrefix(i, p.seq)

(* A chunk leaves the window only once it is on disk: everything sent and  *)
(* no longer in the window is the prefix of some output file, though DATA  *)
(* that overtakes START is written, and acknowledged, to FILE--1.out.      *)
UnstoredIsKept ==
  Transferring => IsStored(offset - Len(window))

(* END is sent only after the full transfer is verified: by then one       *)
(* output file is the whole file.                                          *)
EndMeansComplete ==
  phase \in {"end", "done"} => IsStored(FileLen[SentFile])

(* No ACK makes the sender pop more packets than its window holds. *)
WindowNeverUnderflows == phase # "undefined"

(* The window is the run of chunks just before offset, behind START if     *)
(* START is still in it, and never exceeds windowSize: what lets a number  *)
(* in an ACK be turned into a count of packets.                            *)
WindowIsContiguous ==
  phase = "data" =>
    /\ Len(window) <= windowSize
    /\ \A i \in DOMAIN window :
         \/ i = 1 /\ window[i].type = "START"
         \/ window[i] = DataPacketOf(SentFile, offset - Len(window) + i - 1)

(* The transfer implements ReliableTransfer: `stored' is the longest prefix *)
(* of the file that an output file holds, a chunk is confirmed once it has *)
(* been sent and has left the window, and END declares the end.            *)
Length == FileLen[output_log[1]]

Reliable == INSTANCE ReliableTransfer WITH
  stored <- IF session = 0 THEN 0
            ELSE Max({n \in 0..Length : IsStored(n)}),
  confirmed <- CASE phase \in {"end", "done"} -> Length
                 [] Transferring -> offset - Len(window)
                 [] OTHER -> 0,
  finished <- phase \in {"end", "done"}

ImplementsReliable == Reliable!Spec

---------------------------------------------------------------------------
(* What the README and the comments say and the programs do not do. *)

(* wReceiver can handle one wSender after another (README:104): once no    *)
(* sender runs and nothing is under way, it takes the next START.          *)
ReadyForNextSender == phase \in Stopped /\ toReceiver = {} => ~connection

(* FILE-i.out is the file from one connection (README:104), stored in the  *)
(* directory that -d names (README:124): no output file has chunks of two  *)
(* input files, whatever earlier receivers have left on disk.              *)
FilesAreUnmixed ==
  \A i \in FileIndex : i >= 0 =>
    \A j, k \in 1..Len(files[i]) : files[i][j].of = files[i][k].of
===========================================================================

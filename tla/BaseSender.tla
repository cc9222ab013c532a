---------------------------- MODULE BaseSender ----------------------------
(***************************************************************************)
(* wSender (cpp/src/base/Sender.cpp): one process per transfer, run one    *)
(* after the other against the same receiver.  A process sends START,      *)
(* transfers its file through a sliding window of unacknowledged packets,  *)
(* sends END and exits.  It is single threaded and sleeps only in          *)
(* recvfrom, which a datagram, the 500 ms timeout or a signal ends; each   *)
(* action below runs from one such sleep, or one turn of a loop, to the    *)
(* next.  Sizes and offsets are counted in chunks.                         *)
(***************************************************************************)
EXTENDS WtpNetwork, Sequences, Functions

CONSTANTS
  windowSize,    \* the sender's -w argument
  StartSeqs,     \* values the random START number may take
  Sessions,      \* how many sender processes are run (bound)
  output_log,    \* session -> the -o argument
  FileLen,       \* file -> its length in chunks
  Unreadable,    \* files that std::ifstream may fail to open
  QuietLaunch,   \* TRUE: users wait until nothing is under way
  MayInterrupt,  \* TRUE: recvfrom may fail for another reason than a timeout
  MayKill        \* TRUE: a sender process may be killed

ASSUME SenderAssumption ==
  /\ windowSize \in Nat \ {0}
  /\ StartSeqs \subseteq Nat \ {0}
  /\ Sessions \in Nat
  /\ output_log \in [1..Sessions -> File]
  /\ FileLen \in [File -> Nat]

VARIABLES
  phase,       \* where the sender process is
  session,     \* number of sender processes started so far
  randSeqNum,  \* sequence number of START and END
  window,      \* Window::packets, the packets sent and not acknowledged
  offset       \* next chunk to send, also dataSeqNum

senderVars == <<phase, session, randSeqNum, window, offset>>

(* main() hands the -o path to sendData; it does nothing with the -i path. *)
SentFile == output_log[session]

Running == {"start", "open", "data", "end"}
Stopped == {"idle", "done", "failed", "undefined"}

SenderInit ==
  /\ phase = "idle"
  /\ session = 0
  /\ randSeqNum = 0
  /\ window = <<>>
  /\ offset = 0

---------------------------------------------------------------------------
(* Window and helper functions, with the mutants of some of them. *)

getNextSeqNum == Head(window).seq
removeAcknowledgedPackets_OneMore(n) == SubSeq(window, n + 2, Len(window))
removeAcknowledgedPackets(n) == SubSeq(window, n + 1, Len(window))
hasUnacknowledgedPackets_OneMissed == Len(window) > 1
hasUnacknowledgedPackets == window # <<>>
canAddPacket_OneMore == Len(window) <= windowSize
canAddPacket == Len(window) < windowSize

isAckValid(p) == p.intact

(* A timeout is handed up as a packet of type 4, a failed recvfrom as the  *)
(* zeroed buffer: a START numbered 0 whose checksum is right.              *)
noPacket == [type |-> "TIMEOUT", seq |-> 0, intact |-> TRUE]
zeroPacket == StartPacket(0)

receiveAck(p) ==
  \/ p = noPacket /\ UNCHANGED toSender
  \/ MayInterrupt /\ p = zeroPacket /\ UNCHANGED toSender
  \/ p \in toSender /\ toSender' \in Remaining(p, toSender)

Received == toSender \cup {noPacket, zeroPacket}

sendPacket(p) == toReceiver' = toReceiver \cup {p}

---------------------------------------------------------------------------

(* A user runs the next wSender: its START goes out and into the window. *)
Launch ==
  /\ phase \in Stopped
  /\ session < Sessions
  /\ QuietLaunch => toReceiver = {} /\ toSender = {}
  /\ session' = session + 1
  /\ \E r \in StartSeqs :
       /\ randSeqNum' = r
       /\ sendPacket(StartPacket(r))
       /\ window' = <<StartPacket(r)>>
  /\ offset' = 0
  /\ phase' = "start"
  /\ UNCHANGED toSender

(* The ACK of START arrived: START leaves the window. *)
StartAcked(p) ==
  /\ phase = "start"
  /\ p.type # "TIMEOUT" /\ isAckValid(p) /\ p.seq = randSeqNum
  /\ receiveAck(p)
  /\ window' = removeAcknowledgedPackets(1)
  /\ phase' = "open"
  /\ UNCHANGED <<session, randSeqNum, offset, toReceiver>>

(* Anything else: START is sent once more and startConnection returns. *)
StartRetried(p) ==
  /\ phase = "start"
  /\ p.type = "TIMEOUT" \/ ~isAckValid(p) \/ p.seq # randSeqNum
  /\ receiveAck(p)
  /\ sendPacket(StartPacket(randSeqNum))
  /\ phase' = "open"
  /\ UNCHANGED <<session, randSeqNum, window, offset>>

(* sendData reads the whole file first; failing to open it ends main(). *)
OpenFile ==
  /\ phase = "open"
  /\ \/ phase' = "data"
     \/ SentFile \in Unreadable /\ phase' = "failed"
  /\ UNCHANGED <<session, randSeqNum, window, offset, networkVars>>

CanSend == canAddPacket /\ offset < FileLen[SentFile]

SendData ==
  /\ phase = "data"
  /\ CanSend
  /\ sendPacket(DataPacketOf(SentFile, offset))
  /\ window' = Append(window, DataPacketOf(SentFile, offset))
  /\ offset' = offset + 1
  /\ UNCHANGED <<phase, session, randSeqNum, toSender>>

(* The loop waits in recvfrom once it can send nothing more. *)
AwaitsAck ==
  /\ phase = "data"
  /\ ~CanSend
  /\ offset < FileLen[SentFile] \/ hasUnacknowledgedPackets

RetransmitWindow(p) ==
  /\ AwaitsAck
  /\ p.type = "TIMEOUT"
  /\ receiveAck(p)
  /\ toReceiver' = toReceiver \cup Range(window)
  /\ UNCHANGED senderVars

Acknowledges_OneLater(p) == isAckValid(p) /\ p.seq > getNextSeqNum + 1
Acknowledges(p) == isAckValid(p) /\ p.seq > getNextSeqNum

(* A cumulative ACK pops one packet per sequence number it is ahead of the *)
(* first packet.  Popping past the end of the deque is undefined behaviour *)
(* and nothing is modelled of the process after it.                        *)
AdvanceWindow(p) ==
  /\ AwaitsAck
  /\ p.type # "TIMEOUT" /\ Acknowledges(p)
  /\ receiveAck(p)
  /\ LET ackedPackets == p.seq - getNextSeqNum IN
       \/ /\ ackedPackets <= Len(window)
          /\ window' = removeAcknowledgedPackets(ackedPackets)
          /\ UNCHANGED phase
       \/ /\ ackedPackets > Len(window)
          /\ window' = <<>>
          /\ phase' = "undefined"
  /\ UNCHANGED <<session, randSeqNum, offset, toReceiver>>

IgnoreAck(p) ==
  /\ AwaitsAck
  /\ p.type # "TIMEOUT" /\ ~Acknowledges(p)
  /\ receiveAck(p)
  /\ UNCHANGED <<senderVars, toReceiver>>

(* The loop ends: END goes out and into the window. *)
EndConnection ==
  /\ phase = "data"
  /\ offset >= FileLen[SentFile] /\ ~hasUnacknowledgedPackets
  /\ sendPacket(EndPacket(randSeqNum))
  /\ window' = Append(window, EndPacket(randSeqNum))
  /\ phase' = "end"
  /\ UNCHANGED <<session, randSeqNum, offset, toSender>>

(* endConnection looks at one answer, resends END unless it is the ACK of  *)
(* END, and the process exits either way.                                  *)
FinishConnection(p) ==
  /\ phase = "end"
  /\ receiveAck(p)
  /\ IF p.type # "TIMEOUT" /\ isAckValid(p) /\ p.seq = randSeqNum
       THEN UNCHANGED toReceiver
       ELSE sendPacket(EndPacket(randSeqNum))
  /\ phase' = "done"
  /\ UNCHANGED <<session, randSeqNum, window, offset>>

Kill ==
  /\ MayKill
  /\ phase \in Running
  /\ phase' = "failed"
  /\ UNCHANGED <<session, randSeqNum, window, offset, networkVars>>

(* The steps a running process takes on its own. *)
SenderLocal == OpenFile \/ SendData \/ EndConnection

(* What it does with one answer of recvfrom. *)
SenderReceives(p) ==
  \/ StartAcked(p) \/ StartRetried(p)
  \/ RetransmitWindow(p) \/ AdvanceWindow(p) \/ IgnoreAck(p)
  \/ FinishConnection(p)

SenderStep ==
  \/ Launch
  \/ SenderLocal
  \/ \E p \in Received : SenderReceives(p)
  \/ Kill

SenderTypeOK ==
  /\ phase \in Running \cup Stopped
  /\ session \in 0..Sessions
  /\ phase # "idle" => session \in 1..Sessions
  /\ randSeqNum \in Nat
  /\ window \in Seq(Packet)
  /\ offset \in Nat
===========================================================================

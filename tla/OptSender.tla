---------------------------- MODULE OptSender ----------------------------
(***************************************************************************)
(* wSenderOpt (cpp/src/opt/Sender.cpp, Window.cpp): like wSender, but it   *)
(* insists on the ACK of START, keeps with every packet of the window      *)
(* whether it was acknowledged, moves the window past an acknowledged      *)
(* front, and after a timeout resends only packets whose own timer has run *)
(* out.  There is no clock here: which unacknowledged packets are overdue  *)
(* at a timeout is any set of them.  OptTimers adds the clock.             *)
(***************************************************************************)
EXTENDS WtpNetwork, SequencesExt

CONSTANTS
  windowSize,    \* the sender's window argument
  StartSeqs,     \* values the random START number may take
  Sessions,      \* how many sender processes are run (bound)
  input_file,    \* session -> the file argument
  FileLen,       \* file -> its length in chunks
  Unreadable,    \* files that std::ifstream may fail to open
  QuietLaunch,   \* TRUE: users wait until nothing is under way
  MayInterrupt   \* TRUE: recvfrom may fail for another reason than a timeout

ASSUME OptSenderAssumption ==
  /\ windowSize \in Nat \ {0}
  /\ StartSeqs \subseteq Nat \ {0}
  /\ Sessions \in Nat
  /\ input_file \in [1..Sessions -> File]
  /\ FileLen \in [File -> Nat]

VARIABLES
  phase,       \* where the sender process is
  session,     \* number of sender processes started so far
  randSeqNum,  \* sequence number of START and END
  window,      \* Window::packets, each with its isAcked flag
  offset       \* next chunk to send, also dataSeqNum

senderVars == <<phase, session, randSeqNum, window, offset>>

SentFile == input_file[session]

SenderInit ==
  /\ phase = "idle"
  /\ session = 0
  /\ randSeqNum = 0
  /\ window = <<>>
  /\ offset = 0

---------------------------------------------------------------------------
(* Window, with mutants. *)

InTheWindow(p) == [packet |-> p, isAcked |-> FALSE]

hasPackets_OneMissed == Len(window) > 1
hasPackets == window # <<>>
canAddPacket_OneMore == Len(window) <= windowSize
canAddPacket == Len(window) < windowSize

(* Mutant: cumulative, everything up to the number is marked. *)
markPacketAsAcked_Cumulative(n) ==
  [i \in DOMAIN window |->
     IF window[i].packet.seq <= n THEN [window[i] EXCEPT !.isAcked = TRUE]
                                  ELSE window[i]]

(* Sequence numbers in a window are distinct: at most one is marked. *)
markPacketAsAcked(n) ==
  [i \in DOMAIN window |->
     IF window[i].packet.seq = n THEN [window[i] EXCEPT !.isAcked = TRUE]
                                 ELSE window[i]]

(* Mutant: only one packet is popped for each ACK. *)
determineWindowAdvance_Once(w) == IF Head(w).isAcked THEN Tail(w) ELSE w

(* What is left of w when the acknowledged packets at its front are popped. *)
determineWindowAdvance(w) ==
  LET advanceCount == Max({k \in 0..Len(w) : \A i \in 1..k : w[i].isAcked})
  IN  SubSeq(w, advanceCount + 1, Len(w))

Unacked == {window[i].packet : i \in {j \in DOMAIN window : ~window[j].isAcked}}

isAckValid(p) == p.intact

noPacket == [type |-> "TIMEOUT", seq |-> 0, intact |-> TRUE]
zeroPacket == StartPacket(0)

receiveAck(p) ==
  \/ p = noPacket /\ UNCHANGED toSender
  \/ MayInterrupt /\ p = zeroPacket /\ UNCHANGED toSender
  \/ p \in toSender /\ toSender' \in Remaining(p, toSender)

Received == toSender \cup {noPacket, zeroPacket}

sendPacket(p) == toReceiver' = toReceiver \cup {p}

---------------------------------------------------------------------------

Launch ==
  /\ phase \in {"idle", "done", "failed"}
  /\ session < Sessions
  /\ QuietLaunch => toReceiver = {} /\ toSender = {}
  /\ session' = session + 1
  /\ \E r \in StartSeqs :
       /\ randSeqNum' = r
       /\ sendPacket(StartPacket(r))
       /\ window' = <<InTheWindow(StartPacket(r))>>
  /\ offset' = 0
  /\ phase' = "start"
  /\ UNCHANGED toSender

IsAckOf(p, n) == p.type # "TIMEOUT" /\ isAckValid(p) /\ p.seq = n

StartAcked(p) ==
  /\ phase = "start"
  /\ IsAckOf(p, randSeqNum)
  /\ receiveAck(p)
  /\ window' = Tail(window)
  /\ phase' = "open"
  /\ UNCHANGED <<session, randSeqNum, offset, toReceiver>>

(* The loop goes round: START is sent again after any other answer. *)
StartResent(p) ==
  /\ phase = "start"
  /\ ~IsAckOf(p, randSeqNum)
  /\ receiveAck(p)
  /\ sendPacket(StartPacket(randSeqNum))
  /\ UNCHANGED senderVars

(* sendData reads the whole file first; failing to open it ends main(). *)
OpenFile ==
  /\ phase = "open"
  /\ \/ phase' = "data"
     \/ SentFile \in Unreadable /\ phase' = "failed"
  /\ UNCHANGED <<session, randSeqNum, window, offset, networkVars>>

CanSend == canAddPacket /\ offset < FileLen[SentFile]

SendData ==
  /\ phase = "data"
  /\ CanSend
  /\ sendPacket(DataPacketOf(SentFile, offset))
  /\ window' = Append(window, InTheWindow(DataPacketOf(SentFile, offset)))
  /\ offset' = offset + 1
  /\ UNCHANGED <<phase, session, randSeqNum, toSender>>

AwaitsAck ==
  /\ phase = "data"
  /\ ~CanSend
  /\ offset < FileLen[SentFile] \/ hasPackets

(* After a timeout the overdue packets that are not acknowledged go again. *)
RetransmitTimedOut(p, timedOut) ==
  /\ AwaitsAck
  /\ p.type = "TIMEOUT"
  /\ receiveAck(p)
  /\ timedOut \subseteq Unacked
  /\ toReceiver' = toReceiver \cup timedOut
  /\ UNCHANGED senderVars

AckReceived(p) ==
  /\ AwaitsAck
  /\ p.type # "TIMEOUT" /\ isAckValid(p)
  /\ receiveAck(p)
  /\ window' = determineWindowAdvance(markPacketAsAcked(p.seq))
  /\ UNCHANGED <<phase, session, randSeqNum, offset, toReceiver>>

InvalidAckDropped(p) ==
  /\ AwaitsAck
  /\ p.type # "TIMEOUT" /\ ~isAckValid(p)
  /\ receiveAck(p)
  /\ UNCHANGED <<senderVars, toReceiver>>

EndConnection ==
  /\ phase = "data"
  /\ offset >= FileLen[SentFile] /\ ~hasPackets
  /\ sendPacket(EndPacket(randSeqNum))
  /\ window' = Append(window, InTheWindow(EndPacket(randSeqNum)))
  /\ phase' = "end"
  /\ UNCHANGED <<session, randSeqNum, offset, toSender>>

(* One answer is looked at; END is resent unless it is the ACK of END. *)
FinishConnection(p) ==
  /\ phase = "end"
  /\ receiveAck(p)
  /\ IF IsAckOf(p, randSeqNum) THEN UNCHANGED toReceiver
                               ELSE sendPacket(EndPacket(randSeqNum))
  /\ phase' = "done"
  /\ UNCHANGED <<session, randSeqNum, window, offset>>

SenderLocal == OpenFile \/ SendData \/ EndConnection

SenderReceives(p) ==
  \/ StartAcked(p) \/ StartResent(p)
  \/ \E timedOut \in SUBSET Unacked : RetransmitTimedOut(p, timedOut)
  \/ AckReceived(p) \/ InvalidAckDropped(p)
  \/ FinishConnection(p)

SenderStep ==
  \/ Launch
  \/ SenderLocal
  \/ \E p \in Received : SenderReceives(p)

SenderTypeOK ==
  /\ phase \in {"idle", "start", "open", "data", "end", "done", "failed"}
  /\ session \in 0..Sessions
  /\ phase # "idle" => session \in 1..Sessions
  /\ randSeqNum \in Nat
  /\ window \in Seq([packet : Packet, isAcked : BOOLEAN])
  /\ offset \in Nat
===========================================================================

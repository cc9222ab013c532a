---------------------------- MODULE OptTimers ----------------------------
(***************************************************************************)
(* The clock of wSenderOpt: SO_RCVTIMEO, which updateSocketTimeout sets    *)
(* from the ages of the packets in the window before each recvfrom, and    *)
(* hasTimedOut, which selects the packets to resend after a timeout.       *)
(*                                                                         *)
(* Time is counted in ticks (the code: whole milliseconds) and passes only *)
(* while the process sleeps in recvfrom: code takes none.  recvfrom ends   *)
(* with a datagram at any time, and without one once soTimeout has passed, *)
(* or up to Late ticks after that.  Every clock stops at Horizon, beyond   *)
(* which no comparison tells values apart.                                 *)
(***************************************************************************)
EXTENDS OptTransfer

CONSTANTS
  Timeout,   \* 500 ms
  Late       \* by how much the kernel may oversleep

ASSUME TimersAssumption == Timeout \in Nat \ {0} /\ Late \in Nat

VARIABLES
  soTimeout,  \* SO_RCVTIMEO of the socket, 0 for no timeout at all
  slept,      \* time in the current recvfrom
  age,        \* now - sentTime of each packet of the window
  silence     \* time since recvfrom last returned a datagram

timerVars == <<soTimeout, slept, age, silence>>
timedVars == <<vars, timerVars>>

Horizon == 2 * Timeout + Late + 1

TimersInit == soTimeout = Timeout /\ slept = 0 /\ age = <<>> /\ silence = 0

Outstanding == {i \in DOMAIN window : ~window[i].isAcked}

(* Mutant: a packet due this very moment asks for no sleep at all. *)
updateSocketTimeout_Now ==
  IF hasPackets
    THEN Min({Timeout} \cup
             {Timeout - age[i] : i \in {j \in Outstanding : Timeout - age[j] >= 0}})
    ELSE soTimeout

(* The smallest remaining time of an unacknowledged packet that has any    *)
(* left, and 500 ms if none has.                                           *)
updateSocketTimeout ==
  IF hasPackets
    THEN Min({Timeout} \cup
             {Timeout - age[i] : i \in {j \in Outstanding : Timeout - age[j] > 0}})
    ELSE soTimeout

hasTimedOut(i) == age[i] > Timeout

(* A recvfrom begins; in the data phase SO_RCVTIMEO is set just before. *)
Receiving ==
  /\ slept' = 0
  /\ soTimeout' = IF AwaitsAck' THEN updateSocketTimeout' ELSE soTimeout

(* A packet enters the window with a new timer and leaves it with its own. *)
AgesFollow ==
  age' = IF Len(window') > Len(window) THEN Append(age, 0)
         ELSE SubSeq(age, Len(age) - Len(window') + 1, Len(age))

---------------------------------------------------------------------------

Sleeps == phase \in {"start", "end"} \/ AwaitsAck

Older(t) == Min({t + 1, Horizon})

Tick ==
  /\ Sleeps
  /\ soTimeout = 0 \/ slept < soTimeout + Late
  /\ slept' = Older(slept)
  /\ age' = [i \in DOMAIN age |-> Older(age[i])]
  /\ silence' = Older(silence)
  /\ UNCHANGED <<vars, soTimeout>>

(* createUDPSocket and startConnection. *)
TimedLaunch ==
  /\ Launch
  /\ soTimeout' = Timeout
  /\ slept' = 0
  /\ age' = <<0>>
  /\ silence' = 0

TimedLocal == SenderLocal /\ AgesFollow /\ Receiving /\ UNCHANGED silence

(* recvfrom gives up.  Only a resent packet of the window has a new timer: *)
(* START and END are resent from a copy.                                   *)
TimesOut ==
  /\ soTimeout > 0 /\ slept >= soTimeout
  /\ LET overdue == {i \in Outstanding : hasTimedOut(i)} IN
       \/ /\ RetransmitTimedOut(noPacket, {window[i].packet : i \in overdue})
          /\ age' = [i \in DOMAIN age |-> IF i \in overdue THEN 0 ELSE age[i]]
       \/ /\ StartResent(noPacket) \/ FinishConnection(noPacket)
          /\ UNCHANGED age
  /\ Receiving
  /\ UNCHANGED silence

Answered(p) ==
  /\ p # noPacket
  /\ \/ StartAcked(p) \/ StartResent(p)
     \/ AckReceived(p) \/ InvalidAckDropped(p)
     \/ FinishConnection(p)
  /\ AgesFollow
  /\ Receiving
  /\ silence' = 0

TimedSender ==
  TimedLaunch \/ TimedLocal \/ TimesOut \/ \E p \in Received : Answered(p)

TimedInit == Init /\ TimersInit

TimedNext ==
  \/ Tick
  \/ TimedSender /\ UNCHANGED receiverVars
  \/ ReceiverStep /\ UNCHANGED <<senderVars, timerVars>>
  \/ NetworkStep /\ UNCHANGED <<senderVars, receiverVars, timerVars>>

TimedSpec == TimedInit /\ [][TimedNext]_timedVars

(* Time passes, the sender process does what it can, and a datagram, one   *)
(* of S to the receiver or of A to the sender, that is in flight again and *)
(* again arrives.  Nothing is assumed of timeouts or of which packets are  *)
(* overdue: that follows from the clock.                                   *)
TimedFairness(S, A) ==
  /\ WF_timedVars(Tick)
  /\ WF_timedVars(TimedLocal /\ UNCHANGED receiverVars)
  /\ WF_timedVars(TimesOut /\ UNCHANGED receiverVars)
  /\ \A p \in S : SF_timedVars(ReceiverHandles(p)
                                /\ UNCHANGED <<senderVars, timerVars>>)
  /\ \A p \in A : SF_timedVars(Answered(p) /\ UNCHANGED receiverVars)

---------------------------------------------------------------------------

(* recvfrom always has a timeout, of 500 ms at most: 0 would be none.      *)
SleepIsBounded == soTimeout \in 1..Timeout

(* No unacknowledged packet of the window waits without an answer to       *)
(* anything for longer than twice the timeout, and the lateness of one     *)
(* wake-up.  (Not once the timeout: a process that wakes when a packet is  *)
(* exactly 500 ms old neither resends it nor counts it in the next         *)
(* timeout.)                                                               *)
ResentInTime ==
  AwaitsAck =>
    \A i \in Outstanding : Min({age[i], silence}) <= 2 * Timeout + Late

(* Once START was sent, END is sent in the end: unless the ACK of START is *)
(* lost, everything else may be.                                           *)
TransferCompletes == phase = "start" ~> phase = "end"
===========================================================================

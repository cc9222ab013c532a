---------------------------- MODULE BaseTimers ----------------------------
(***************************************************************************)
(* The clock of wSender, and what liveness rests on.  SO_RCVTIMEO is set   *)
(* once, to 500 ms, and counts from the start of each recvfrom: whatever   *)
(* datagram is read, the wait begins anew, whether the window moved or not.*)
(* Time passes only while the process sleeps there (its code takes none),  *)
(* and recvfrom gives up when Timeout has passed, or up to Late after it.  *)
(***************************************************************************)
EXTENDS BaseTransfer

CONSTANTS
  Timeout,   \* 500 ms
  Late       \* by how much the kernel may oversleep

ASSUME TimersAssumption == Timeout \in Nat \ {0} /\ Late \in Nat

VARIABLE slept   \* time in the current recvfrom

timedVars == <<vars, slept>>

Sleeps == phase \in {"start", "end"} \/ AwaitsAck

Tick ==
  /\ Sleeps
  /\ slept < Timeout + Late
  /\ slept' = slept + 1
  /\ UNCHANGED vars

TimedLocal == (Launch \/ SenderLocal \/ Kill) /\ slept' = 0

TimesOut ==
  /\ slept >= Timeout
  /\ SenderReceives(noPacket)
  /\ slept' = 0

Answered(p) ==
  /\ p # noPacket
  /\ SenderReceives(p)
  /\ slept' = 0

TimedSender == TimedLocal \/ TimesOut \/ \E p \in Received : Answered(p)

TimedNext ==
  \/ Tick
  \/ TimedSender /\ UNCHANGED receiverVars
  \/ ReceiverStep /\ UNCHANGED <<senderVars, slept>>
  \/ NetworkStep /\ UNCHANGED <<senderVars, receiverVars, slept>>

TimedSpec == Init /\ slept = 0 /\ [][TimedNext]_timedVars

(* Time passes, a running sender process does what it can, and a datagram, *)
(* one of S to the receiver or of A to the sender, that is in flight again *)
(* and again arrives: the network loses packets, but not for ever.  The    *)
(* timeouts follow from the clock.  Nothing obliges a user to start or     *)
(* kill a process, or the network to lose, repeat or damage anything.      *)
TimedFairness(S, A) ==
  /\ WF_timedVars(Tick)
  /\ WF_timedVars(SenderLocal /\ slept' = 0 /\ UNCHANGED receiverVars)
  /\ WF_timedVars(TimesOut /\ UNCHANGED receiverVars)
  /\ \A p \in S : SF_timedVars(ReceiverHandles(p)
                                /\ UNCHANGED <<senderVars, slept>>)
  /\ \A p \in A : SF_timedVars(Answered(p) /\ UNCHANGED receiverVars)

---------------------------------------------------------------------------

(* Once START is acknowledged the data is transferred to the end: however  *)
(* often an answer that does not move the window restarts the wait, the    *)
(* window is resent in the end.                                            *)
TransferCompletes == Transferring ~> phase = "end"

(* A sender that sent START ends up with START acknowledged (README:40).   *)
StartIsConfirmed == phase = "start" ~> Transferring
===========================================================================

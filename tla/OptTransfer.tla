--------------------------- MODULE OptTransfer ---------------------------
(***************************************************************************)
(* wSenderOpt and wReceiverOpt joined by the network.                      *)
(***************************************************************************)
EXTENDS OptSender, OptReceiver

vars == <<senderVars, receiverVars, networkVars>>

Init == SenderInit /\ ReceiverInit /\ NetworkInit

Next ==
  \/ SenderStep /\ UNCHANGED receiverVars
  \/ ReceiverStep /\ UNCHANGED senderVars
  \/ NetworkStep /\ UNCHANGED <<senderVars, receiverVars>>

Spec == Init /\ [][Next]_vars

TypeOK == NetworkTypeOK /\ SenderTypeOK /\ ReceiverTypeOK

---------------------------------------------------------------------------
(* What one transfer promises. *)

IsReceived(n) ==
  /\ n \in DOMAIN receivedPackets
  /\ receivedPackets[n] = [of |-> SentFile, idx |-> n]

(* Of the chunks sent, those not outstanding in the window - marked in it, *)
(* or gone from it - are in the receiver's map: no packet is taken for     *)
(* acknowledged that was not received.                                     *)
AckedIsReceived ==
  phase = "data" =>
    \A n \in 0..(offset - 1) : IsReceived(n) \/ DataPacketOf(SentFile, n) \in Unacked

(* The window is the run of chunks just before offset, no longer than      *)
(* windowSize, and its front is not acknowledged: the sender always has a  *)
(* packet whose timer still runs.                                          *)
WindowIsOutstanding ==
  phase = "data" /\ window # <<>> =>
    /\ Len(window) <= windowSize
    /\ ~Head(window).isAcked
    /\ \A i \in DOMAIN window :
         window[i].packet = DataPacketOf(SentFile, offset - Len(window) + i - 1)

(* The receiver keeps no packet numbered N + window_size or more, N being  *)
(* the first number it has not received (README:140).  Its own test cannot *)
(* see to that; a sender whose window is no larger does.                   *)
KeptWithinWindow ==
  \A n \in DOMAIN receivedPackets :
    \A m \in 0..n : n >= m + window_size => m \in DOMAIN receivedPackets

(* The last sender's transfer implements ReliableTransfer, with the        *)
(* receiver's map for the disk: the chunks stored are the run from 0 that  *)
(* it holds of this file, beside what it still holds of earlier ones.      *)
Length == FileLen[input_file[Sessions]]

ReceivedPrefix(k) == \A n \in 0..(k - 1) : IsReceived(n)

Confirmed ==
  CASE session < Sessions -> 0
    [] session = Sessions /\ phase \in {"end", "done"} -> Length
    [] session = Sessions /\ phase = "data" -> offset - Len(window)
    [] OTHER -> 0

Reliable == INSTANCE ReliableTransfer WITH
  stored <- IF session < Sessions THEN 0
            ELSE Max({k \in 0..Length : ReceivedPrefix(k)}),
  confirmed <- Confirmed,
  finished <- session = Sessions /\ phase \in {"end", "done"}

ImplementsReliable == Reliable!Spec
===========================================================================

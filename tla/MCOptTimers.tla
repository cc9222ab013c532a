--------------------------- MODULE MCOptTimers ---------------------------
(***************************************************************************)
(* OptTimers on small instances.                                           *)
(***************************************************************************)
EXTENDS MCOptTransfer, OptTimers

FairSpec == TimedSpec /\ TimedFairness(Sent, Answers)
===========================================================================

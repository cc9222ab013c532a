--------------------------- MODULE MCBaseTimers ---------------------------
(***************************************************************************)
(* BaseTimers on small instances.                                          *)
(***************************************************************************)
EXTENDS MCBaseTransfer, BaseTimers

FairSpec == TimedSpec /\ TimedFairness(Sent, Answers)
===========================================================================

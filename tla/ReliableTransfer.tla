------------------------- MODULE ReliableTransfer -------------------------
(***************************************************************************)
(* What one WTP transfer promises, without packets, windows or timers: the *)
(* chunks of the file are stored from the first on, the sender learns of   *)
(* stored chunks only, either in any number at a time, and it declares the *)
(* transfer finished when it knows of all of them.                         *)
(***************************************************************************)
EXTENDS Naturals

CONSTANT Length   \* chunks in the file

VARIABLES
  stored,     \* chunks at the front of the file that are on disk
  confirmed,  \* chunks the sender knows to be stored
  finished    \* the sender has declared the transfer complete

vars == <<stored, confirmed, finished>>

Init == stored = 0 /\ confirmed = 0 /\ finished = FALSE

Store ==
  /\ stored' \in (stored + 1) .. Length
  /\ UNCHANGED <<confirmed, finished>>

Confirm ==
  /\ ~finished
  /\ confirmed' \in (confirmed + 1) .. stored
  /\ UNCHANGED <<stored, finished>>

Finish ==
  /\ ~finished
  /\ confirmed = Length
  /\ finished' = TRUE
  /\ UNCHANGED <<stored, confirmed>>

Next == Store \/ Confirm \/ Finish

Spec == Init /\ [][Next]_vars
===========================================================================

------------------------- MODULE WtpNetworkProofs -------------------------
(***************************************************************************)
(* Facts about packets, sequences and numbers that the proofs about both   *)
(* pairs of programs cite.                                                 *)
(***************************************************************************)
EXTENDS WtpNetwork, SequenceTheorems, WellFoundedInduction, TLAPS

---------------------------------------------------------------------------
(* Packets. *)

(* The packets the two programs build are packets. *)
LEMMA BuiltPackets ==
  /\ \A r \in Nat : StartPacket(r) \in Packet /\ EndPacket(r) \in Packet
                    /\ AckPacket(r) \in Packet
  /\ \A f \in File, n \in Nat : DataPacketOf(f, n) \in Packet
BY DEF StartPacket, EndPacket, AckPacket, DataPacketOf, Packet, ControlPacket,
       DataPacket, Chunk

(* A packet has the fields the programs read. *)
LEMMA PacketFields ==
  ASSUME NEW p \in Packet
  PROVE  /\ p.seq \in Nat
         /\ p.intact \in BOOLEAN
         /\ p.type = "DATA" => p.data \in Chunk
BY DEF Packet, ControlPacket, DataPacket, Chunk

(* Damage leaves a packet a packet, and all that it says. *)
LEMMA DamagedPacket ==
  ASSUME NEW p \in Packet
  PROVE  /\ Damaged(p) \in Packet
         /\ Damaged(p).type = p.type /\ Damaged(p).seq = p.seq
         /\ p.type = "DATA" => Damaged(p).data = p.data
BY DEF Damaged, Packet, ControlPacket, DataPacket, Chunk

(* Delivery adds nothing to what is in flight. *)
LEMMA RemainingSubset ==
  ASSUME NEW p, NEW net, NEW rest \in Remaining(p, net)
  PROVE  rest \subseteq net
BY DEF Remaining

(* Loss and damage keep what is in flight packets. *)
LEMMA NetworkStaysTyped ==
  ASSUME NetworkTypeOK, NetworkStep
  PROVE  NetworkTypeOK'
<1>1. toReceiver \subseteq Packet /\ toSender \subseteq Packet
  BY DEF NetworkTypeOK
<1>2. CASE Lose
  <2>1. toReceiver' \subseteq toReceiver /\ toSender' \subseteq toSender
    BY <1>2 DEF Lose
  <2> QED
    BY <1>1, <2>1 DEF NetworkTypeOK
<1>3. CASE Corrupt
  <2>1. \/ toSender' = toSender /\ \E p \in toReceiver :
             toReceiver' = (toReceiver \ {p}) \cup {Damaged(p)}
        \/ toReceiver' = toReceiver /\ \E p \in toSender :
             toSender' = (toSender \ {p}) \cup {Damaged(p)}
    BY <1>3 DEF Corrupt
  <2>2. \A p \in Packet : Damaged(p) \in Packet
    BY DamagedPacket
  <2>3. toReceiver' \subseteq Packet /\ toSender' \subseteq Packet
    BY <1>1, <2>1, <2>2
  <2> QED
    BY <2>3 DEF NetworkTypeOK
<1> QED
  BY <1>2, <1>3 DEF NetworkStep

---------------------------------------------------------------------------
(* Sequences and numbers. *)

(* What is left of a sequence when its first k members are cut off. *)
LEMMA CutFront ==
  ASSUME NEW S, NEW s \in Seq(S), NEW k \in Nat, k <= Len(s)
  PROVE  /\ SubSeq(s, k + 1, Len(s)) \in Seq(S)
         /\ Len(SubSeq(s, k + 1, Len(s))) = Len(s) - k
         /\ DOMAIN SubSeq(s, k + 1, Len(s)) = 1..(Len(s) - k)
         /\ \A i \in 1..(Len(s) - k) : SubSeq(s, k + 1, Len(s))[i] = s[i + k]
<1> DEFINE t == SubSeq(s, k + 1, Len(s))
<1>0. Len(s) \in Nat
  BY LenProperties
<1>1. \A i \in (k + 1)..Len(s) : s[i] \in S
  BY <1>0, ElementOfSeq
<1>2. /\ t \in Seq(S)
      /\ Len(t) = IF k + 1 <= Len(s) THEN Len(s) - (k + 1) + 1 ELSE 0
      /\ \A i \in 1..(Len(s) - (k + 1) + 1) : t[i] = s[(k + 1) + i - 1]
  BY <1>0, <1>1, SubSeqProperties
<1>3. DOMAIN t = 1..Len(t)
  BY <1>2, LenProperties
<1> HIDE DEF t
<1>4. Len(t) = Len(s) - k
  BY <1>0, <1>2
<1>5. ASSUME NEW i \in 1..(Len(s) - k)
      PROVE  t[i] = s[i + k]
  <2>1. i \in 1..(Len(s) - (k + 1) + 1) /\ (k + 1) + i - 1 = i + k
    BY <1>0
  <2> QED
    BY <1>2, <2>1
<1> QED
  BY <1>2, <1>3, <1>4, <1>5 DEF t

(* A set of numbers has a least one. *)
LEMMA LeastNumber ==
  ASSUME NEW T, T \subseteq Nat, T # {}
  PROVE  \E x \in T : \A y \in T : x <= y
<1> DEFINE R == OpToRel(<, Nat)
<1>1. IsWellFoundedOn(R, Nat)
  BY NatLessThanWellFounded, Zenon
<1>2. \A x, y \in Nat : y < x => <<y, x>> \in R
  BY Zenon DEF OpToRel
<1> HIDE DEF R
<1>3. \E x \in T : \A y \in T : ~(<<y, x>> \in R)
  BY <1>1, WFMin, Zenon
<1>4. \E x \in T : \A y \in T : ~(y < x)
  BY <1>2, <1>3, Zenon
<1> QED
  BY <1>4, SMT

(* And a bounded one a greatest. *)
LEMMA GreatestNumber ==
  ASSUME NEW bound \in Nat, NEW S, S \subseteq 0..bound, S # {}
  PROVE  \E m \in S : \A k \in S : m >= k
<1> DEFINE Rests == {bound - k : k \in S}
<1>1. Rests \subseteq Nat /\ Rests # {}
  <2>1. \A k \in S : bound - k \in Nat
    OBVIOUS
  <2> QED
    BY <2>1
<1>2. PICK r \in Rests : \A y \in Rests : r <= y
  <2> HIDE DEF Rests
  <2> QED
    BY <1>1, LeastNumber
<1>3. PICK m \in S : r = bound - m
  BY <1>2
<1>4. \A k \in S : bound - m <= bound - k
  BY <1>2, <1>3
<1> QED
  BY <1>4
===========================================================================

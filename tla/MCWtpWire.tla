----------------------------- MODULE MCWtpWire -----------------------------
(***************************************************************************)
(* WtpWire on files of every byte, and of every length up to just over two *)
(* chunks.                                                                 *)
(***************************************************************************)
EXTENDS WtpWireRefinement

Blank == {}
Full == 0..7
Letter == {0, 5, 6}

OneByte == {<<b>> : b \in Byte}
ShortFiles == UNION {[1..n -> {Blank, Full, Letter}] : n \in 0..3}
LongFiles ==
  {[i \in 1..n |-> IF i % 2 = 0 THEN Letter ELSE b] :
     n \in 4..(2 * CHUNK_SIZE + 1), b \in {Blank, Full}}
AllContents == OneByte \cup ShortFiles \cup LongFiles

(* Two chunks and one byte. *)
TwoAndMore == [i \in 1..(2 * CHUNK_SIZE + 1) |-> IF i % 2 = 0 THEN Letter ELSE Full]

(* START numbers: one, the largest, and one above the range of an int. *)
SomeNumbers == {{20}, 0..31, {3, 9, 31}}

BlankOrFull == {Blank, Full}

(* Bits to flip, none further from another than 32 bits. *)
SomeBursts ==
  {{0}, {7}, {0, 7}, {0, 8}, {3, 12, 20}, {31}, {0, 31}, {8, 20, 39}, 8..39}
===========================================================================

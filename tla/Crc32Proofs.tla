---------------------------- MODULE Crc32Proofs ----------------------------
(***************************************************************************)
(* Theorems about the checksum of data of any length: it is the remainder  *)
(* of the division that defines it, and it changes with every burst of 32  *)
(* bits.                                                                   *)
(***************************************************************************)
EXTENDS CrcDivision, Integers, SequenceTheorems, WellFoundedInduction, TLAPS

---------------------------------------------------------------------------
(* Sets of bits. *)

(* What holds of 0, and of n + 1 if of n, holds of every number: here of   *)
(* the numbers up to a bound.                                              *)
LEMMA UpTo ==
  ASSUME NEW N \in Nat, NEW T, 0 \in T,
         \A n \in 0..(N - 1) : n \in T => n + 1 \in T
  PROVE  0..N \subseteq T
<1> SUFFICES ASSUME ~(0..N \subseteq T) PROVE FALSE
  OBVIOUS
<1> DEFINE R == OpToRel(<, Nat)
           S == (0..N) \ T
<1>1. IsWellFoundedOn(R, Nat)
  BY NatLessThanWellFounded, Zenon
<1>2. \A x, y \in Nat : y < x => <<y, x>> \in R
  BY Zenon DEF OpToRel
<1>3. S \subseteq Nat /\ S # {}
  OBVIOUS
<1> HIDE DEF R, S
<1>4. PICK x \in S : \A y \in S : ~(<<y, x>> \in R)
  BY <1>1, <1>3, WFMin, Zenon
<1>5. \A y \in S : ~(y < x)
  BY <1>2, <1>3, <1>4, Zenon
<1>6. x \in 1..N /\ x - 1 \in 0..(N - 1)
  BY <1>3 DEF S
<1>7. x - 1 \in T
  BY <1>5, <1>6 DEF S
<1>8. x - 1 + 1 = x
  BY <1>6
<1> QED
  BY <1>6, <1>7, <1>8 DEF S

(* A function that is defined from its value one before: there is one.     *)
Iterates(n, S, a, G) ==
  {f \in [0..n -> S] : f[0] = a /\ \A m \in 1..n : f[m] = G[m][f[m - 1]]}

LEMMA Recursion ==
  ASSUME NEW N \in Nat, NEW S, NEW a \in S, NEW G \in [1..N -> [S -> S]]
  PROVE  Iterates(N, S, a, G) # {}
<1> DEFINE Up(f, n) == f[0] = a /\ \A m \in 1..n : f[m] = G[m][f[m - 1]]
           T == {n \in Nat : \E f \in [0..n -> S] : Up(f, n)}
<1>1. 0 \in T
  <2> DEFINE f == [m \in 0..0 |-> a]
  <2>1. f \in [0..0 -> S] /\ Up(f, 0)
    OBVIOUS
  <2> HIDE DEF f, Up
  <2> QED
    BY <2>1
<1>2. ASSUME NEW n \in 0..(N - 1), n \in T
      PROVE  n + 1 \in T
  <2>1. PICK f \in [0..n -> S] : Up(f, n)
    BY <1>2
  <2> DEFINE g == [m \in 0..(n + 1) |-> IF m = n + 1 THEN G[n + 1][f[n]] ELSE f[m]]
  <2>2. G[n + 1][f[n]] \in S
    <3>1. n + 1 \in 1..N /\ f[n] \in S
      OBVIOUS
    <3> QED
      BY <3>1
  <2>3. g \in [0..(n + 1) -> S]
    BY <2>2
  <2>4. g[n + 1] = G[n + 1][f[n]] /\ \A m \in 0..n : g[m] = f[m]
    OBVIOUS
  <2> HIDE DEF g
  <2>5. ASSUME NEW m \in 1..(n + 1)
        PROVE  g[m] = G[m][g[m - 1]]
    <3>1. m - 1 \in 0..n /\ g[m - 1] = f[m - 1]
      BY <2>4
    <3>2. CASE m = n + 1
      BY <2>4, <3>1, <3>2
    <3>3. CASE m # n + 1
      BY <2>1, <2>4, <3>1, <3>3
    <3> QED
      BY <3>2, <3>3
  <2>6. g[0] = a
    BY <2>1, <2>4
  <2>7. Up(g, n + 1)
    BY <2>5, <2>6
  <2>8. n + 1 \in Nat
    OBVIOUS
  <2> HIDE DEF Up
  <2> QED
    BY <2>3, <2>7, <2>8
<1> HIDE DEF T
<1>3. 0..N \subseteq T
  BY <1>1, <1>2, UpTo
<1>4. \E f \in [0..N -> S] : Up(f, N)
  BY <1>3 DEF T
<1> QED
  BY <1>4 DEF Iterates

(* Exclusive or. *)
LEMMA XorMember == \A a, b, i : i \in a ^^ b <=> ((i \in a) # (i \in b))
BY DEF ^^

LEMMA XorNothing == \A a : a ^^ {} = a /\ {} ^^ a = a /\ a ^^ a = {}
BY DEF ^^

LEMMA XorDiffers ==
  ASSUME NEW a, NEW b, NEW c, a # b
  PROVE  a ^^ b # {} /\ a ^^ c # b ^^ c
BY DEF ^^

LEMMA ShiftRightXor ==
  ASSUME NEW a \in SUBSET Nat, NEW b \in SUBSET Nat, NEW n \in Nat
  PROVE  /\ ShiftRight(a ^^ b, n) = ShiftRight(a, n) ^^ ShiftRight(b, n)
         /\ ShiftRight(a, n) \in SUBSET Nat
         /\ a ^^ b \in SUBSET Nat
BY DEF ^^, ShiftRight

LEMMA ShiftRightStays ==
  ASSUME NEW a \in SUBSET Nat
  PROVE  \A n \in Nat : ShiftRight(a, n) \in SUBSET Nat
BY DEF ShiftRight

(* A register shifted respects exclusive or, *)
LEMMA ShiftXor ==
  ASSUME NEW a \in SUBSET Nat, NEW b \in SUBSET Nat
  PROVE  Shift(a ^^ b) = Shift(a) ^^ Shift(b) /\ Shift(a) \in SUBSET Nat
<1> DEFINE F(w) == IF 0 \in w THEN Feedback ELSE {}
<1>1. F(a ^^ b) = F(a) ^^ F(b)
  BY DEF ^^
<1>2. F(a) \in SUBSET Nat
  BY DEF Feedback
<1>3. /\ ShiftRight(a ^^ b, 1) = ShiftRight(a, 1) ^^ ShiftRight(b, 1)
      /\ ShiftRight(a, 1) \in SUBSET Nat
  BY ShiftRightXor
<1> HIDE DEF F
<1>4. Shift(a ^^ b) = ShiftRight(a ^^ b, 1) ^^ F(a ^^ b)
      /\ Shift(a) = ShiftRight(a, 1) ^^ F(a)
      /\ Shift(b) = ShiftRight(b, 1) ^^ F(b)
  BY DEF Shift, F
<1>5. Shift(a) \in SUBSET Nat
  BY <1>2, <1>3, <1>4 DEF ^^
<1>6. \A u, v, x, y : (u ^^ v) ^^ (x ^^ y) = (u ^^ x) ^^ (v ^^ y)
  BY DEF ^^
<1>7. Shift(a ^^ b) = Shift(a) ^^ Shift(b)
  <2> DEFINE u == ShiftRight(a, 1)
             v == ShiftRight(b, 1)
             x == F(a)
             y == F(b)
  <2>1. /\ Shift(a ^^ b) = (u ^^ v) ^^ (x ^^ y)
        /\ Shift(a) = u ^^ x /\ Shift(b) = v ^^ y
    BY <1>1, <1>3, <1>4
  <2> HIDE DEF u, v, x, y
  <2> QED
    BY <1>6, <2>1
<1> QED
  BY <1>5, <1>7

(* and so does one shifted eight times. *)
LEMMA EightShiftsXor ==
  ASSUME NEW a \in SUBSET Nat, NEW b \in SUBSET Nat
  PROVE  /\ EightShifts(a ^^ b) = EightShifts(a) ^^ EightShifts(b)
         /\ EightShifts(a) \in SUBSET Nat
<1>1. \A v, w \in SUBSET Nat :
        Shift(v ^^ w) = Shift(v) ^^ Shift(w) /\ Shift(v) \in SUBSET Nat
  BY ShiftXor
<1> QED
  BY <1>1 DEF EightShifts

(* Without a one bit among the last eight there is no feedback. *)
LEMMA EightShiftsOfHigh ==
  ASSUME NEW w \in SUBSET Nat, \A i \in w : i >= 8
  PROVE  EightShifts(w) = ShiftRight(w, 8)
<1> DEFINE S(n) == ShiftRight(w, n)
<1>1. ASSUME NEW n \in 0..7
      PROVE  Shift(S(n)) = S(n + 1)
  <2>1. 0 \notin S(n)
    BY DEF ShiftRight
  <2>2. ShiftRight(S(n), 1) = S(n + 1)
    <3>1. ASSUME NEW i \in S(n + 1)
          PROVE  i \in ShiftRight(S(n), 1)
      <4>1. PICK j \in w : j >= n + 1 /\ i = j - (n + 1)
        BY DEF ShiftRight
      <4>2. j - n \in S(n) /\ j - n >= 1 /\ i = (j - n) - 1
        BY <4>1 DEF ShiftRight
      <4> QED
        BY <4>2 DEF ShiftRight
    <3>2. ASSUME NEW i \in ShiftRight(S(n), 1)
          PROVE  i \in S(n + 1)
      <4>1. PICK k \in S(n) : k >= 1 /\ i = k - 1
        BY DEF ShiftRight
      <4>2. PICK j \in w : j >= n /\ k = j - n
        BY DEF ShiftRight
      <4> QED
        BY <4>1, <4>2 DEF ShiftRight
    <3> QED
      BY <3>1, <3>2
  <2>3. Shift(S(n)) = ShiftRight(S(n), 1) ^^ {}
    BY <2>1 DEF Shift
  <2> QED
    BY <2>2, <2>3, XorNothing
<1>2. S(0) = w
  <2>1. \A i \in w : i >= 0 /\ i - 0 = i
    OBVIOUS
  <2> QED
    BY <2>1 DEF ShiftRight
<1> HIDE DEF S
<1>3. /\ Shift(S(0)) = S(1) /\ Shift(S(1)) = S(2) /\ Shift(S(2)) = S(3)
      /\ Shift(S(3)) = S(4) /\ Shift(S(4)) = S(5) /\ Shift(S(5)) = S(6)
      /\ Shift(S(6)) = S(7) /\ Shift(S(7)) = S(8)
  BY <1>1
<1>4. EightShifts(w) = S(8)
  BY <1>2, <1>3 DEF EightShifts
<1> QED
  BY <1>4 DEF S

(* What the loop of crc32 does with its table: the last eight bits are     *)
(* looked up, the others shifted.                                          *)
LEMMA EightShiftsSplit ==
  ASSUME NEW w \in SUBSET Nat
  PROVE  EightShifts(w) = EightShifts(w \cap (0..7)) ^^ ShiftRight(w, 8)
<1> DEFINE low == w \cap (0..7)
           high == w \ (0..7)
<1>1. w = low ^^ high /\ low \in SUBSET Nat /\ high \in SUBSET Nat
  BY DEF ^^
<1>2. \A i \in high : i >= 8
  OBVIOUS
<1>3. ShiftRight(high, 8) = ShiftRight(w, 8)
  BY DEF ShiftRight
<1> HIDE DEF low, high
<1>4. EightShifts(w) = EightShifts(low) ^^ EightShifts(high)
  BY <1>1, EightShiftsXor
<1>5. EightShifts(high) = ShiftRight(high, 8)
  BY <1>1, <1>2, EightShiftsOfHigh
<1> QED
  BY <1>3, <1>4, <1>5 DEF low

---------------------------------------------------------------------------
(* A register that is not 0 and has its one bits within 32 remains so when *)
(* it is shifted: the feedback has bit 31, where nothing else comes to be. *)

Narrow(w) ==
  /\ w \in SUBSET Nat /\ w # {}
  /\ \A i, j \in w : i - j <= 31

LEMMA ShiftStaysNarrow ==
  ASSUME NEW w, Narrow(w)
  PROVE  Narrow(Shift(w))
<1>0. w \in SUBSET Nat /\ w # {} /\ \A i, j \in w : i - j <= 31
  BY DEF Narrow
<1>1. CASE 0 \in w
  <2>1. Shift(w) = ShiftRight(w, 1) ^^ Feedback
    BY <1>1 DEF Shift
  <2>2. \A i \in w : i \in 0..31
    BY <1>0, <1>1
  <2>3. \A i \in ShiftRight(w, 1) : i \in 0..30
    BY <2>2 DEF ShiftRight
  <2>4. 31 \in Feedback /\ \A i \in Feedback : i \in 0..31
    BY DEF Feedback
  <2>5. 31 \in Shift(w) /\ \A i \in Shift(w) : i \in 0..31
    BY <2>1, <2>3, <2>4 DEF ^^
  <2>6. Shift(w) \in SUBSET Nat /\ \A i, j \in Shift(w) : i - j <= 31
    BY <2>5
  <2> QED
    BY <2>5, <2>6 DEF Narrow
<1>2. CASE 0 \notin w
  <2>1. Shift(w) = ShiftRight(w, 1)
    BY <1>2, XorNothing DEF Shift
  <2>2. \A i \in w : i >= 1
    BY <1>0, <1>2
  <2>3. ShiftRight(w, 1) = {i - 1 : i \in w}
    BY <2>2 DEF ShiftRight
  <2>4. Shift(w) \in SUBSET Nat /\ Shift(w) # {}
    <3>1. \A i \in w : i - 1 \in Nat /\ i - 1 \in Shift(w)
      BY <1>0, <2>1, <2>2, <2>3
    <3>2. \A k \in Shift(w) : \E i \in w : k = i - 1
      BY <2>1, <2>3
    <3> QED
      BY <1>0, <3>1, <3>2
  <2>5. ASSUME NEW i \in Shift(w), NEW j \in Shift(w)
        PROVE  i - j <= 31
    <3>1. PICK m \in w : i = m - 1
      BY <2>1, <2>3
    <3>2. PICK n \in w : j = n - 1
      BY <2>1, <2>3
    <3> QED
      BY <1>0, <3>1, <3>2
  <2> QED
    BY <2>4, <2>5 DEF Narrow
<1> QED
  BY <1>1, <1>2

LEMMA EightShiftsStayNarrow ==
  ASSUME NEW w, Narrow(w)
  PROVE  Narrow(EightShifts(w))
<1>1. \A v : Narrow(v) => Narrow(Shift(v))
  BY ShiftStaysNarrow
<1> QED
  BY <1>1 DEF EightShifts

---------------------------------------------------------------------------
(* The loop of crc32. *)

(* What the register of the loop is at each of its turns. *)
Turns(buf, r) ==
  /\ r[0] = 0..31
  /\ \A n \in 0..(Len(buf) - 1) : r[n + 1] = Enter(r[n], buf[n + 1])
  /\ Register(buf) = r[Len(buf)]

LEMMA BitsOfWords ==
  /\ \A w \in Word : w \in SUBSET Nat
  /\ \A p \in Byte : p \in SUBSET Nat
  /\ \A w \in Word, p \in Byte : w ^^ p \in Word
  /\ \A v, w \in Word : v ^^ w \in Word
  /\ \A v, w \in SUBSET Nat : v ^^ w \in SUBSET Nat
BY DEF Word, Byte, ^^

(* A turn of the loop is eight shifts of the register the byte has         *)
(* entered: the table holds what eight shifts make of a byte.              *)
LEMMA EnterShifts ==
  ASSUME NEW crc \in SUBSET Nat, NEW p \in Byte
  PROVE  Enter(crc, p) = EightShifts(crc ^^ p)
<1>1. p \in SUBSET Nat /\ crc ^^ p \in SUBSET Nat
  BY DEF Byte, ^^
<1>2. (crc ^^ p) \cap (0..7) \in Byte
  BY DEF Byte
<1>3. crc32_tab[(crc ^^ p) \cap (0..7)] = EightShifts((crc ^^ p) \cap (0..7))
  BY <1>2, TableIsEightShifts
<1>4. ShiftRight(p, 8) = {}
  BY DEF Byte, ShiftRight
<1>5. ShiftRight(crc ^^ p, 8) = ShiftRight(crc, 8)
  <2>1. ShiftRight(crc ^^ p, 8) = ShiftRight(crc, 8) ^^ ShiftRight(p, 8)
    BY <1>1, ShiftRightXor
  <2> QED
    BY <1>4, <2>1, XorNothing
<1> QED
  BY <1>1, <1>3, <1>5, EightShiftsSplit DEF Enter

(* The register has 32 bits. *)
LEMMA RegisterIsWord ==
  ASSUME NEW w \in Word
  PROVE  EightShifts(w) \in Word
<1>1. ASSUME NEW v \in Word
      PROVE  Shift(v) \in Word
  <2>1. ShiftRight(v, 1) \in Word
    BY DEF ShiftRight, Word
  <2>2. Feedback \in Word
    BY DEF Feedback, Word
  <2> QED
    BY <2>1, <2>2 DEF Shift, ^^, Word
<1> QED
  BY <1>1 DEF EightShifts

(* There is such a register, for Register is defined, and it is a word.    *)
LEMMA RegisterTurns ==
  ASSUME NEW buf \in Seq(Byte)
  PROVE  \E r : Turns(buf, r) /\ \A n \in 0..Len(buf) : r[n] \in Word
<1> DEFINE N == Len(buf)
           Loop(f) == f = [m \in 0..N |-> IF m = 0 THEN 0..31 ELSE Enter(f[m - 1], buf[m])]
           G == [m \in 1..N |-> [w \in Word |-> Enter(w, buf[m])]]
<1>0. N \in Nat /\ 0..31 \in Word
  BY LenProperties DEF Word
<1>1. ASSUME NEW m \in 1..N, NEW w \in Word
      PROVE  Enter(w, buf[m]) \in Word
  <2>1. buf[m] \in Byte /\ w \in SUBSET Nat
    BY <1>0, ElementOfSeq, BitsOfWords
  <2> QED
    BY <2>1, EnterShifts, BitsOfWords, RegisterIsWord
<1>2. G \in [1..N -> [Word -> Word]]
  BY <1>1
<1>3. \A m \in 1..N, w \in Word : G[m][w] = Enter(w, buf[m])
  OBVIOUS
<1> HIDE DEF G
<1>4. PICK f \in [0..N -> Word] : f[0] = 0..31 /\ \A m \in 1..N : f[m] = G[m][f[m - 1]]
  <2> DEFINE a == 0..31
  <2>1. a \in Word
    BY <1>0
  <2> HIDE DEF a, N
  <2>2. Iterates(N, Word, a, G) # {}
    BY <1>0, <1>2, <2>1, Recursion
  <2> QED
    BY <2>2 DEF Iterates, a
<1>5. ASSUME NEW m \in 1..N
      PROVE  f[m] = Enter(f[m - 1], buf[m])
  <2>1. f[m - 1] \in Word
    BY <1>0
  <2> QED
    BY <1>3, <1>4, <2>1
<1>6. Loop(f)
  <2> DEFINE H(m) == IF m = 0 THEN 0..31 ELSE Enter(f[m - 1], buf[m])
  <2>1. \A m \in 0..N : f[m] = H(m)
    <3>1. \A m \in 0..N : m = 0 \/ (m \in 1..N /\ m # 0)
      BY <1>0
    <3> QED
      BY <1>4, <1>5, <3>1
  <2> HIDE DEF H
  <2>2. f = [m \in 0..N |-> H(m)]
    BY <2>1, Zenon
  <2> QED
    BY <2>2 DEF H
<1> DEFINE r == CHOOSE g : Loop(g)
<1>7. Loop(r)
  BY <1>6, Zenon
<1>8. Register(buf) = r[N]
  BY DEF Register
<1> HIDE DEF r
<1>9. r[0] = 0..31 /\ \A m \in 1..N : r[m] = Enter(r[m - 1], buf[m])
  <2>1. \A m \in 0..N : r[m] = IF m = 0 THEN 0..31 ELSE Enter(r[m - 1], buf[m])
    BY <1>7, Zenon
  <2>2. 0 \in 0..N /\ \A m \in 1..N : m \in 0..N /\ m # 0
    BY <1>0
  <2> QED
    BY <2>1, <2>2
<1>10. ASSUME NEW n \in 0..(N - 1)
       PROVE  r[n + 1] = Enter(r[n], buf[n + 1])
  <2>1. n + 1 \in 1..N /\ (n + 1) - 1 = n
    BY <1>0
  <2> QED
    BY <1>9, <2>1
<1> DEFINE T == {n \in Nat : r[n] \in Word}
<1>11. 0 \in T
  BY <1>0, <1>9
<1>12. ASSUME NEW n \in 0..(N - 1), n \in T
       PROVE  n + 1 \in T
  <2>1. n + 1 \in 1..N
    BY <1>0
  <2> QED
    BY <1>1, <1>10, <1>12, <2>1
<1> HIDE DEF T
<1>13. 0..N \subseteq T
  BY <1>0, <1>11, <1>12, UpTo
<1>14. \A n \in 0..N : r[n] \in Word
  BY <1>13 DEF T
<1> QED
  BY <1>8, <1>9, <1>10, <1>14 DEF Turns

LEMMA ChecksumIsWord ==
  ASSUME NEW buf \in Seq(Byte)
  PROVE  crc32(buf) \in Word
<1>0. Len(buf) \in Nat /\ Len(buf) \in 0..Len(buf)
  BY LenProperties
<1>1. PICK r : Turns(buf, r) /\ \A n \in 0..Len(buf) : r[n] \in Word
  BY RegisterTurns
<1>2. Register(buf) \in Word
  BY <1>0, <1>1 DEF Turns
<1> QED
  BY <1>2 DEF crc32, ^^, Word

---------------------------------------------------------------------------
(* The bits of a sequence of bytes in the order in which they enter the    *)
(* register.                                                               *)
Stream(buf) == {k \in 0..(8 * Len(buf) - 1) : k % 8 \in buf[k \div 8 + 1]}

(* The register after n bytes, and the bits to come shifted to where they  *)
(* enter it.                                                               *)
Ahead(buf, r, n) == r[n] ^^ ShiftRight(Stream(buf), 8 * n)

(* It is the whole stream at first, is shifted eight times at each turn,   *)
(* and is the register at the end.                                         *)
LEMMA StreamTurns ==
  ASSUME NEW buf \in Seq(Byte), NEW r, Turns(buf, r),
         \A n \in 0..Len(buf) : r[n] \in Word
  PROVE  /\ Ahead(buf, r, 0) = (0..31) ^^ Stream(buf)
         /\ \A n \in 0..Len(buf) : Ahead(buf, r, n) \in SUBSET Nat
         /\ \A n \in 0..(Len(buf) - 1) :
              Ahead(buf, r, n + 1) = EightShifts(Ahead(buf, r, n))
         /\ Ahead(buf, r, Len(buf)) = Register(buf)
<1> DEFINE D == Stream(buf)
           N == Len(buf)
<1>0. N \in Nat
  BY LenProperties
<1>1. \A i \in 1..N : buf[i] \in Byte
  BY <1>0, ElementOfSeq
<1>2. \A n \in 0..N : r[n] \in Word /\ r[n] \in SUBSET Nat
  BY BitsOfWords
<1>3. D \in SUBSET Nat
  BY DEF Stream
<1>4. ASSUME NEW n \in 0..(N - 1), NEW j \in 0..7
      PROVE  8 * n + j \in D <=> j \in buf[n + 1]
  <2>1. /\ 8 * n + j \in 0..(8 * N - 1) /\ (8 * n + j) % 8 = j
        /\ (8 * n + j) \div 8 = n
    BY <1>0
  <2> QED
    BY <2>1 DEF Stream
<1>5. ShiftRight(D, 8 * 0) = D
  <2>1. \A i \in D : i >= 8 * 0 /\ i - 8 * 0 = i
    BY <1>3
  <2> QED
    BY <2>1 DEF ShiftRight
<1>6. ShiftRight(D, 8 * N) = {}
  <2>1. \A i \in D : i \in Int /\ ~(i >= 8 * N)
    BY <1>0 DEF Stream
  <2> QED
    BY <2>1 DEF ShiftRight
<1> HIDE DEF D
<1>7. ASSUME NEW n \in 0..(N - 1)
      PROVE  Ahead(buf, r, n + 1) = EightShifts(Ahead(buf, r, n))
  <2> DEFINE p == buf[n + 1]
             S == ShiftRight(D, 8 * n)
             rest == S ^^ p
  <2>0. n \in Nat /\ n + 1 \in 1..N /\ n \in 0..N
    BY <1>0
  <2>1. p \in Byte /\ p \in SUBSET Nat
    BY <1>1, <2>0, BitsOfWords
  <2>2. r[n] \in SUBSET Nat
    BY <1>2, <2>0
  <2>3. r[n + 1] = EightShifts(r[n] ^^ p)
    <3>1. r[n + 1] = Enter(r[n], p)
      BY <1>0 DEF Turns
    <3> QED
      BY <2>1, <2>2, <3>1, EnterShifts
  <2>4. \A j \in 0..7 : j \in S <=> j \in p
    <3>1. ASSUME NEW j \in 0..7
          PROVE  j \in S <=> 8 * n + j \in D
      BY <1>3, <2>0 DEF ShiftRight
    <3> QED
      BY <1>4, <3>1
  <2>5. S \in SUBSET Nat
    <3>1. 8 * n \in Nat
      BY <2>0
    <3>2. \A k \in Nat : ShiftRight(D, k) \in SUBSET Nat
      BY <1>3, ShiftRightStays
    <3> QED
      BY <3>1, <3>2
  <2>6. rest = S \ (0..7)
    <3> HIDE DEF S
    <3> QED
      BY <2>1, <2>4 DEF ^^, Byte
  <2>7. rest \in SUBSET Nat /\ \A i \in rest : i >= 8
    <3> HIDE DEF S, rest
    <3> QED
      BY <2>5, <2>6
  <2>8. ShiftRight(rest, 8) = ShiftRight(D, 8 * (n + 1))
    <3>1. ASSUME NEW i \in ShiftRight(rest, 8)
          PROVE  i \in ShiftRight(D, 8 * (n + 1))
      <4>1. PICK k \in S : k >= 8 /\ i = k - 8
        BY <2>6 DEF ShiftRight
      <4>2. PICK m \in D : m >= 8 * n /\ k = m - 8 * n
        BY DEF ShiftRight
      <4>3. m >= 8 * (n + 1) /\ i = m - 8 * (n + 1)
        BY <1>3, <2>0, <4>1, <4>2
      <4> QED
        BY <4>3 DEF ShiftRight
    <3>2. ASSUME NEW i \in ShiftRight(D, 8 * (n + 1))
          PROVE  i \in ShiftRight(rest, 8)
      <4>1. PICK m \in D : m >= 8 * (n + 1) /\ i = m - 8 * (n + 1)
        BY DEF ShiftRight
      <4>2. m \in Nat /\ m >= 8 * n /\ m - 8 * n >= 8 /\ i = (m - 8 * n) - 8
        BY <1>3, <2>0, <4>1
      <4>3. m - 8 * n \in S
        BY <4>2 DEF ShiftRight
      <4>4. m - 8 * n \in rest
        BY <2>6, <4>2, <4>3
      <4> HIDE DEF rest
      <4> QED
        BY <4>2, <4>4 DEF ShiftRight
    <3> QED
      BY <3>1, <3>2
  <2>9. Ahead(buf, r, n) = (r[n] ^^ p) ^^ rest
    <3>1. \A u, v, x : u ^^ v = (u ^^ x) ^^ (v ^^ x)
      BY DEF ^^
    <3> QED
      BY <3>1 DEF Ahead, D
  <2>10. EightShifts(Ahead(buf, r, n)) = r[n + 1] ^^ EightShifts(rest)
    <3> DEFINE x == r[n] ^^ p
    <3>1. x \in SUBSET Nat
      BY <2>1, <2>2, BitsOfWords
    <3> HIDE DEF x, rest
    <3>2. EightShifts(x ^^ rest) = EightShifts(x) ^^ EightShifts(rest)
      BY <2>7, <3>1, EightShiftsXor
    <3> QED
      BY <2>3, <2>9, <3>2 DEF x
  <2>11. EightShifts(rest) = ShiftRight(D, 8 * (n + 1))
    BY <2>7, <2>8, EightShiftsOfHigh
  <2> QED
    BY <2>10, <2>11 DEF Ahead, D
<1>8. ASSUME NEW n \in 0..N
      PROVE  Ahead(buf, r, n) \in SUBSET Nat
  <2>1. 8 * n \in Nat
    BY <1>0
  <2>2. ShiftRight(D, 8 * n) \in SUBSET Nat
    <3>1. \A k \in Nat : ShiftRight(D, k) \in SUBSET Nat
      BY <1>3, ShiftRightStays
    <3> QED
      BY <2>1, <3>1
  <2> QED
    BY <1>2, <2>2, BitsOfWords DEF Ahead, D
<1>9. Ahead(buf, r, 0) = (0..31) ^^ D
  BY <1>5 DEF Ahead, D, Turns
<1>10. Ahead(buf, r, N) = Register(buf)
  BY <1>6, XorNothing DEF Ahead, D, Turns
<1> QED
  BY <1>7, <1>8, <1>9, <1>10 DEF D

---------------------------------------------------------------------------
(* Damage. *)

(* The bits in which two sequences of bytes differ.                        *)
Difference(a, b) ==
  {k \in 0..(8 * Len(a) - 1) : k % 8 \in a[k \div 8 + 1] ^^ b[k \div 8 + 1]}

(* Two data sections of the same length that differ in some bits, none     *)
(* more than 31 from another, have different checksums (Crc32.hpp): what   *)
(* is ahead of one and of the other differs in one narrow word, shifted    *)
(* eight times at each turn.                                               *)
THEOREM BurstChangesChecksum ==
  ASSUME NEW a \in Seq(Byte), NEW b \in Seq(Byte), Len(a) = Len(b),
         Narrow(Difference(a, b))
  PROVE  crc32(a) # crc32(b)
<1> DEFINE N == Len(a)
<1>0. N \in Nat
  BY LenProperties
<1>1. PICK r : Turns(a, r) /\ \A n \in 0..N : r[n] \in Word
  BY RegisterTurns
<1>2. PICK s : Turns(b, s) /\ \A n \in 0..N : s[n] \in Word
  BY RegisterTurns
<1> DEFINE V(n) == Ahead(a, r, n)
           W(n) == Ahead(b, s, n)
           T == {n \in Nat : Narrow(V(n) ^^ W(n))}
<1>3. /\ V(0) = (0..31) ^^ Stream(a) /\ W(0) = (0..31) ^^ Stream(b)
      /\ \A n \in 0..N : V(n) \in SUBSET Nat /\ W(n) \in SUBSET Nat
      /\ \A n \in 0..(N - 1) : /\ V(n + 1) = EightShifts(V(n))
                               /\ W(n + 1) = EightShifts(W(n))
      /\ V(N) = Register(a) /\ W(N) = Register(b)
  BY <1>1, <1>2, StreamTurns
<1> HIDE DEF V, W
<1>4. V(0) ^^ W(0) = Difference(a, b)
  <2>1. Stream(a) ^^ Stream(b) = Difference(a, b)
    BY DEF Stream, Difference, ^^
  <2>2. \A u, v, x : (x ^^ u) ^^ (x ^^ v) = u ^^ v
    BY DEF ^^
  <2> QED
    BY <1>3, <2>1, <2>2
<1>5. 0 \in T
  BY <1>4
<1>6. ASSUME NEW n \in 0..(N - 1), n \in T
      PROVE  n + 1 \in T
  <2>1. V(n) \in SUBSET Nat /\ W(n) \in SUBSET Nat
    BY <1>0, <1>3
  <2>2. V(n + 1) ^^ W(n + 1) = EightShifts(V(n) ^^ W(n))
    BY <1>3, <2>1, EightShiftsXor
  <2> QED
    BY <1>6, <2>2, EightShiftsStayNarrow
<1> HIDE DEF T
<1>7. 0..N \subseteq T
  BY <1>0, <1>5, <1>6, UpTo
<1>8. Narrow(V(N) ^^ W(N))
  BY <1>0, <1>7 DEF T
<1>9. Register(a) # Register(b)
  BY <1>3, <1>8, XorNothing DEF Narrow
<1> QED
  BY <1>9, XorDiffers DEF crc32

---------------------------------------------------------------------------
(* Division.  A polynomial whose exponents are at most d, and the register *)
(* that holds it: X^d is bit 0.                                            *)

Mirrored(poly, d) == {d - e : e \in poly}

LEMMA MirroredMember ==
  ASSUME NEW d \in Nat, NEW poly \in SUBSET (0..d), NEW i \in Int
  PROVE  i \in Mirrored(poly, d) <=> d - i \in poly
<1>1. ASSUME NEW e \in poly, i = d - e
      PROVE  d - i = e
  BY <1>1
<1>2. d - (d - i) = i
  OBVIOUS
<1> QED
  BY <1>1, <1>2 DEF Mirrored

(* To cancel the highest term is to shift the register.                    *)
LEMMA CancelledIsShifted ==
  ASSUME NEW d \in Nat, d >= 32, NEW poly \in SUBSET (0..d)
  PROVE  /\ Cancelled(poly, d) \in SUBSET (0..(d - 1))
         /\ Mirrored(Cancelled(poly, d), d - 1) = Shift(Mirrored(poly, d))
<1> DEFINE G == {g + d - 32 : g \in Generator}
           P == Cancelled(poly, d)
           M == Mirrored(poly, d)
<1>1. Generator \in SUBSET (0..32) /\ 32 \in Generator
  BY DEF Generator
<1>2. G \in SUBSET (0..d) /\ d \in G
  BY <1>1
<1>3. P \in SUBSET (0..(d - 1))
  <2>1. d \notin P
    BY <1>2 DEF Cancelled, ^^
  <2>2. P \in SUBSET (0..d)
    BY <1>2 DEF Cancelled, ^^
  <2> HIDE DEF P
  <2> QED
    BY <2>1, <2>2
<1>4. \A i \in 0..31 : i \in Feedback <=> 31 - i \in Generator
  BY DEF Feedback, Generator
<1>5. M \in SUBSET Nat /\ (0 \in M <=> d \in poly)
  <2>1. M \in SUBSET Nat
    BY DEF Mirrored
  <2> QED
    BY <2>1, MirroredMember
<1>6. ASSUME NEW i \in 0..(d - 1)
      PROVE  i \in Mirrored(P, d - 1) <=> i \in Shift(M)
  <2>1. i \in Mirrored(P, d - 1) <=> d - 1 - i \in P
    BY <1>3, MirroredMember
  <2>2. d - 1 - i \in G <=> i \in Feedback
    <3>1. d - 1 - i \in G <=> 31 - i \in Generator
      <4>1. ASSUME NEW g \in Generator, d - 1 - i = g + d - 32
            PROVE  31 - i = g
        BY <1>1, <4>1
      <4>2. d - 1 - i = (31 - i) + d - 32
        OBVIOUS
      <4> QED
        BY <4>1, <4>2
    <3>2. 31 - i \in Generator => i \in 0..31
      BY <1>1
    <3>3. i \in Feedback => i \in 0..31
      BY DEF Feedback
    <3> QED
      BY <1>4, <3>1, <3>2, <3>3
  <2>3. i \in ShiftRight(M, 1) <=> d - 1 - i \in poly
    <3>1. i \in ShiftRight(M, 1) <=> i + 1 \in M
      BY <1>5 DEF ShiftRight
    <3>2. i + 1 \in M <=> d - (i + 1) \in poly
      BY MirroredMember
    <3>3. d - (i + 1) = d - 1 - i
      OBVIOUS
    <3> QED
      BY <3>1, <3>2, <3>3
  <2> HIDE DEF M, G
  <2>4. CASE d \in poly
    <3>1. P = poly ^^ G
      BY <2>4 DEF Cancelled, G
    <3>2. Shift(M) = ShiftRight(M, 1) ^^ Feedback
      BY <1>5, <2>4 DEF Shift
    <3> HIDE DEF P
    <3> QED
      BY <2>1, <2>2, <2>3, <3>1, <3>2, XorMember
  <2>5. CASE d \notin poly
    <3>1. P = poly
      BY <2>5 DEF Cancelled
    <3>2. Shift(M) = ShiftRight(M, 1)
      BY <1>5, <2>5, XorNothing DEF Shift
    <3> HIDE DEF P
    <3> QED
      BY <2>1, <2>3, <3>1, <3>2
  <2> QED
    BY <2>4, <2>5
<1>7. Mirrored(P, d - 1) \in SUBSET (0..(d - 1))
  <2> HIDE DEF P
  <2> QED
    BY <1>3 DEF Mirrored
<1>8. Shift(M) \in SUBSET (0..(d - 1))
  <2>1. M \in SUBSET (0..d)
    BY DEF Mirrored
  <2>2. ShiftRight(M, 1) \in SUBSET (0..(d - 1))
    BY <2>1 DEF ShiftRight
  <2>3. Feedback \in SUBSET (0..(d - 1))
    BY DEF Feedback
  <2> QED
    BY <2>2, <2>3 DEF Shift, ^^
<1> HIDE DEF P, M
<1> QED
  BY <1>3, <1>6, <1>7, <1>8 DEF P, M

(* What is left of a polynomial at each step of its division.              *)
Steps(poly, n, left) ==
  /\ left[0] = poly
  /\ \A k \in 0..(n - 1) : left[k + 1] = Cancelled(left[k], 31 + n - k)
  /\ Remainder(poly, n) = left[n]

LEMMA DivisionSteps ==
  ASSUME NEW n \in Nat, NEW poly \in SUBSET Int
  PROVE  \E left : Steps(poly, n, left)
<1> DEFINE Loop(f) ==
             f = [k \in 0..n |-> IF k = 0 THEN poly ELSE Cancelled(f[k - 1], 32 + n - k)]
           G == [k \in 1..n |-> [w \in SUBSET Int |-> Cancelled(w, 32 + n - k)]]
<1>1. ASSUME NEW k \in 1..n, NEW w \in SUBSET Int
      PROVE  Cancelled(w, 32 + n - k) \in SUBSET Int
  <2>1. \A g \in Generator : g + (32 + n - k) - 32 \in Int
    BY DEF Generator
  <2> QED
    BY <2>1 DEF Cancelled, ^^
<1>2. G \in [1..n -> [SUBSET Int -> SUBSET Int]]
  BY <1>1
<1>3. \A k \in 1..n, w \in SUBSET Int : G[k][w] = Cancelled(w, 32 + n - k)
  OBVIOUS
<1> HIDE DEF G
<1>4. PICK f \in [0..n -> SUBSET Int] :
        f[0] = poly /\ \A k \in 1..n : f[k] = G[k][f[k - 1]]
  <2>1. Iterates(n, SUBSET Int, poly, G) # {}
    BY <1>2, Recursion
  <2> QED
    BY <2>1 DEF Iterates
<1>5. ASSUME NEW k \in 1..n
      PROVE  f[k] = Cancelled(f[k - 1], 32 + n - k)
  <2>1. f[k - 1] \in SUBSET Int
    OBVIOUS
  <2> QED
    BY <1>3, <1>4, <2>1
<1>6. Loop(f)
  <2> DEFINE H(k) == IF k = 0 THEN poly ELSE Cancelled(f[k - 1], 32 + n - k)
  <2>1. \A k \in 0..n : f[k] = H(k)
    <3>1. \A k \in 0..n : k = 0 \/ (k \in 1..n /\ k # 0)
      OBVIOUS
    <3> QED
      BY <1>4, <1>5, <3>1
  <2> HIDE DEF H
  <2>2. f = [k \in 0..n |-> H(k)]
    BY <2>1, Zenon
  <2> QED
    BY <2>2 DEF H
<1> DEFINE left == CHOOSE g : Loop(g)
<1>7. Loop(left)
  BY <1>6, Zenon
<1>8. Remainder(poly, n) = left[n]
  BY DEF Remainder
<1> HIDE DEF left
<1>9. \A k \in 0..n :
        left[k] = IF k = 0 THEN poly ELSE Cancelled(left[k - 1], 32 + n - k)
  BY <1>7, Zenon
<1>10. left[0] = poly
  BY <1>9
<1>11. ASSUME NEW k \in 0..(n - 1)
       PROVE  left[k + 1] = Cancelled(left[k], 31 + n - k)
  <2>1. /\ k + 1 \in 0..n /\ k + 1 # 0 /\ (k + 1) - 1 = k
        /\ 32 + n - (k + 1) = 31 + n - k
    OBVIOUS
  <2> QED
    BY <1>9, <2>1
<1> QED
  BY <1>8, <1>10, <1>11 DEF Steps

(* Dividing shifts the register that holds the polynomial once a step.     *)
LEMMA DivisionShifts ==
  ASSUME NEW n \in Nat, NEW poly \in SUBSET (0..(31 + n)), NEW left, Steps(poly, n, left)
  PROVE  /\ \A k \in 0..n : left[k] \in SUBSET (0..(31 + n - k))
         /\ \A k \in 0..(n - 1) :
              Mirrored(left[k + 1], 30 + n - k) = Shift(Mirrored(left[k], 31 + n - k))
<1> DEFINE T == {k \in Nat : left[k] \in SUBSET (0..(31 + n - k))}
<1>1. 0 \in T
  BY DEF Steps
<1>2. ASSUME NEW k \in 0..(n - 1), left[k] \in SUBSET (0..(31 + n - k))
      PROVE  /\ left[k + 1] \in SUBSET (0..(31 + n - (k + 1)))
             /\ Mirrored(left[k + 1], 30 + n - k) = Shift(Mirrored(left[k], 31 + n - k))
  <2> DEFINE d == 31 + n - k
  <2>1. d \in Nat /\ d >= 32 /\ d - 1 = 30 + n - k /\ d - 1 = 31 + n - (k + 1)
    OBVIOUS
  <2>2. left[k + 1] = Cancelled(left[k], d)
    BY DEF Steps
  <2> HIDE DEF d
  <2>3. left[k] \in SUBSET (0..d)
    BY <1>2 DEF d
  <2> QED
    BY <2>1, <2>2, <2>3, CancelledIsShifted DEF d
<1>3. \A k \in 0..(n - 1) : k \in T => k + 1 \in T
  BY <1>2
<1> HIDE DEF T
<1>4. 0..n \subseteq T
  BY <1>1, <1>3, UpTo
<1>5. \A k \in 0..n : left[k] \in SUBSET (0..(31 + n - k))
  BY <1>4 DEF T
<1>6. \A k \in 0..(n - 1) : k \in 0..n
  OBVIOUS
<1> QED
  BY <1>2, <1>5, <1>6

(* The polynomial of some bytes has them in the order of the stream.       *)
LEMMA MessageIsStream ==
  ASSUME NEW buf \in Seq(Byte)
  PROVE  Message(buf) = {8 * Len(buf) - 1 - k : k \in Stream(buf)}
<1> DEFINE N == Len(buf)
<1>0. N \in Nat /\ DOMAIN buf = 1..N
  BY LenProperties
<1>1. ASSUME NEW i \in 1..N, NEW j \in buf[i]
      PROVE  \E k \in Stream(buf) : 8 * (N - i) + 7 - j = 8 * N - 1 - k
  <2> DEFINE k == 8 * (i - 1) + j
  <2>1. j \in 0..7
    <3>1. buf[i] \in Byte
      BY <1>0, ElementOfSeq
    <3> QED
      BY <3>1 DEF Byte
  <2>2. k \in 0..(8 * N - 1) /\ k % 8 = j /\ k \div 8 + 1 = i
    BY <1>0, <2>1
  <2>3. k \in Stream(buf)
    BY <2>2 DEF Stream
  <2>4. 8 * (N - i) + 7 - j = 8 * N - 1 - k
    <3>1. i \in Int /\ j \in Int /\ N \in Int
      BY <1>0, <2>1
    <3> HIDE DEF N
    <3> QED
      BY <3>1
  <2> QED
    BY <2>3, <2>4
<1>2. ASSUME NEW k \in Stream(buf)
      PROVE  \E i \in 1..N : \E j \in buf[i] : 8 * N - 1 - k = 8 * (N - i) + 7 - j
  <2> DEFINE i == k \div 8 + 1
             j == k % 8
  <2>1. k \in 0..(8 * N - 1) /\ j \in buf[i]
    BY DEF Stream
  <2>2. i \in 1..N /\ 8 * N - 1 - k = 8 * (N - i) + 7 - j
    BY <1>0, <2>1
  <2> QED
    BY <2>1, <2>2
<1>3. \A e : e \in Message(buf) <=> \E i \in 1..N : \E j \in buf[i] : e = 8 * (N - i) + 7 - j
  BY <1>0 DEF Message
<1> QED
  BY <1>1, <1>2, <1>3

(* The dividend is what is ahead of the register at first.                 *)
LEMMA DividendIsStream ==
  ASSUME NEW buf \in Seq(Byte)
  PROVE  LET N == Len(buf)
             dividend == {e + 32 : e \in Message(buf)} ^^ {8 * N + k : k \in 0..31}
         IN  /\ dividend \in SUBSET (0..(31 + 8 * N))
             /\ Mirrored(dividend, 31 + 8 * N) = (0..31) ^^ Stream(buf)
<1> DEFINE N == Len(buf)
           d == 31 + 8 * N
           A == {e + 32 : e \in Message(buf)}
           B == {8 * N + k : k \in 0..31}
           S == Stream(buf)
<1>0. N \in Nat /\ d \in Nat /\ d = 31 + 8 * N
  BY LenProperties
<1>1. S \in SUBSET (0..(8 * N - 1))
  BY DEF Stream
<1>2. A = {d - k : k \in S}
  <2>1. Message(buf) = {8 * N - 1 - k : k \in S}
    BY MessageIsStream
  <2>2. \A k \in S : 8 * N - 1 - k + 32 = d - k
    BY <1>0, <1>1
  <2> HIDE DEF N, d, S
  <2> QED
    BY <2>1, <2>2
<1>3. B = {d - k : k \in 0..31}
  <2>1. \A k \in 0..31 : 31 - k \in 0..31 /\ 8 * N + k = d - (31 - k)
    BY <1>0
  <2>2. \A k \in 0..31 : d - k = 8 * N + (31 - k)
    BY <1>0
  <2> HIDE DEF d, N
  <2> QED
    BY <2>1, <2>2
<1> HIDE DEF A, B, S, N, d
<1>4. A ^^ B \in SUBSET (0..d)
  <2>1. \A k \in S : d - k \in 0..d
    BY <1>0, <1>1
  <2>2. \A k \in 0..31 : d - k \in 0..d
    BY <1>0
  <2>3. A \in SUBSET (0..d) /\ B \in SUBSET (0..d)
    BY <1>2, <1>3, <2>1, <2>2
  <2> QED
    BY <2>3 DEF ^^
<1>5. ASSUME NEW i \in Int
      PROVE  /\ d - i \in A <=> i \in S
             /\ d - i \in B <=> i \in 0..31
  <2>1. \A k \in Int : d - i = d - k => i = k
    BY <1>0
  <2>2. S \in SUBSET Int /\ 0..31 \in SUBSET Int
    BY <1>1
  <2>3. d - i \in A <=> i \in S
    BY <1>2, <2>1, <2>2
  <2>4. d - i \in B <=> i \in 0..31
    BY <1>3, <2>1, <2>2
  <2> QED
    BY <2>3, <2>4
<1>6. ASSUME NEW i \in Int
      PROVE  i \in Mirrored(A ^^ B, d) <=> i \in (0..31) ^^ S
  <2>1. i \in Mirrored(A ^^ B, d) <=> d - i \in A ^^ B
    BY <1>0, <1>4, MirroredMember
  <2>2. \A u, v : (d - i \in A <=> i \in v) /\ (d - i \in B <=> i \in u)
                   => (d - i \in A ^^ B <=> i \in u ^^ v)
    BY DEF ^^
  <2>3. d - i \in A ^^ B <=> i \in (0..31) ^^ S
    BY <1>5, <2>2
  <2> QED
    BY <2>1, <2>3
<1>7. Mirrored(A ^^ B, d) \in SUBSET Int /\ (0..31) ^^ S \in SUBSET Int
  BY <1>0, <1>1, <1>4 DEF Mirrored, ^^
<1>8. Mirrored(A ^^ B, d) = (0..31) ^^ S
  BY <1>6, <1>7
<1> QED
  BY <1>4, <1>8 DEF A, B, S, N, d

(* The checksum that the program computes byte by byte with its table is   *)
(* the CRC of the polynomial that Crc32.hpp names, for data of any length: *)
(* the remainder of a division, its bits mirrored.                         *)
THEOREM ChecksumIsRemainder ==
  ASSUME NEW buf \in Seq(Byte)
  PROVE  crc32(buf) = CrcOf(buf)
<1> DEFINE N == Len(buf)
           n == 8 * N
           dividend == {e + 32 : e \in Message(buf)} ^^ {8 * N + k : k \in 0..31}
<1>0. N \in Nat /\ n \in Nat /\ n = 8 * N
  BY LenProperties
<1>1. /\ dividend \in SUBSET (0..(31 + n)) /\ dividend \in SUBSET Int
      /\ Mirrored(dividend, 31 + n) = (0..31) ^^ Stream(buf)
  <2>1. /\ dividend \in SUBSET (0..(31 + n))
        /\ Mirrored(dividend, 31 + n) = (0..31) ^^ Stream(buf)
    BY DividendIsStream
  <2> HIDE DEF dividend, n
  <2> QED
    BY <1>0, <2>1
<1>2. CrcOf(buf) = {b \in 0..31 : 31 - b \notin Remainder(dividend, n)}
  BY DEF CrcOf
<1> HIDE DEF dividend
<1>3. PICK r : Turns(buf, r) /\ \A m \in 0..N : r[m] \in Word
  BY RegisterTurns
<1>4. PICK left : Steps(dividend, n, left)
  BY <1>0, <1>1, DivisionSteps
<1> DEFINE R(k) == Mirrored(left[k], 31 + n - k)
           V(m) == Ahead(buf, r, m)
           T == {m \in Nat : R(8 * m) = V(m)}
<1> HIDE DEF n
<1>5. /\ \A k \in 0..n : left[k] \in SUBSET (0..(31 + n - k))
      /\ \A k \in 0..(n - 1) : R(k + 1) = Shift(R(k))
  <2>1. /\ \A k \in 0..n : left[k] \in SUBSET (0..(31 + n - k))
        /\ \A k \in 0..(n - 1) :
             Mirrored(left[k + 1], 30 + n - k) = Shift(Mirrored(left[k], 31 + n - k))
    <3>1. n \in Nat /\ dividend \in SUBSET (0..(31 + n)) /\ Steps(dividend, n, left)
      BY <1>0, <1>1, <1>4
    <3> QED
      BY <3>1, DivisionShifts
  <2>2. \A k \in 0..(n - 1) : 31 + n - (k + 1) = 30 + n - k
    BY <1>0
  <2> QED
    BY <2>1, <2>2
<1>6. /\ V(0) = (0..31) ^^ Stream(buf)
      /\ \A m \in 0..(N - 1) : V(m + 1) = EightShifts(V(m))
      /\ V(N) = Register(buf)
  BY <1>3, StreamTurns
<1>7. R(0) = V(0)
  <2>1. left[0] = dividend /\ 31 + n - 0 = 31 + n
    BY <1>0, <1>4 DEF Steps
  <2> QED
    BY <1>1, <1>6, <2>1
<1> HIDE DEF R, V
<1>8. 0 \in T
  <2>1. 8 * 0 = 0
    OBVIOUS
  <2> QED
    BY <1>7, <2>1
<1>9. ASSUME NEW m \in 0..(N - 1), m \in T
      PROVE  m + 1 \in T
  <2> DEFINE k == 8 * m
  <2>1. /\ k \in 0..(n - 1) /\ k + 1 \in 0..(n - 1) /\ k + 2 \in 0..(n - 1)
        /\ k + 3 \in 0..(n - 1) /\ k + 4 \in 0..(n - 1) /\ k + 5 \in 0..(n - 1)
        /\ k + 6 \in 0..(n - 1) /\ k + 7 \in 0..(n - 1)
        /\ k + 1 + 1 = k + 2 /\ k + 2 + 1 = k + 3 /\ k + 3 + 1 = k + 4
        /\ k + 4 + 1 = k + 5 /\ k + 5 + 1 = k + 6 /\ k + 6 + 1 = k + 7
        /\ k + 7 + 1 = 8 * (m + 1) /\ m + 1 \in Nat
    BY <1>0
  <2> HIDE DEF k
  <2>2. R(8 * (m + 1)) = EightShifts(R(k))
    <3>1. R(k + 1) = Shift(R(k)) /\ R(k + 2) = Shift(R(k + 1))
      BY <1>5, <2>1
    <3>2. R(k + 3) = Shift(R(k + 2)) /\ R(k + 4) = Shift(R(k + 3))
      BY <1>5, <2>1
    <3>3. R(k + 5) = Shift(R(k + 4)) /\ R(k + 6) = Shift(R(k + 5))
      BY <1>5, <2>1
    <3>4. R(k + 7) = Shift(R(k + 6)) /\ R(8 * (m + 1)) = Shift(R(k + 7))
      BY <1>5, <2>1
    <3> QED
      BY <3>1, <3>2, <3>3, <3>4 DEF EightShifts
  <2> QED
    BY <1>6, <1>9, <2>1, <2>2 DEF k
<1> HIDE DEF T
<1>10. 0..N \subseteq T
  BY <1>0, <1>8, <1>9, UpTo
<1>11. R(n) = Register(buf)
  BY <1>0, <1>6, <1>10 DEF T
<1>12. left[n] \in SUBSET (0..31) /\ 31 + n - n = 31
  <2>1. 31 + n - n = 31 /\ n \in 0..n
    BY <1>0
  <2> QED
    BY <1>5, <2>1
<1>13. ASSUME NEW b \in 0..31
       PROVE  b \in Register(buf) <=> 31 - b \in left[n]
  <2>1. Register(buf) = Mirrored(left[n], 31)
    BY <1>11, <1>12 DEF R
  <2> DEFINE rest == left[n]
  <2>2. rest \in SUBSET (0..31)
    BY <1>12
  <2> HIDE DEF rest
  <2>3. b \in Mirrored(rest, 31) <=> 31 - b \in rest
    BY <2>2, MirroredMember
  <2> QED
    BY <2>1, <2>3 DEF rest
<1>14. Register(buf) \in SUBSET (0..31)
  <2>1. N \in 0..N /\ Register(buf) = r[N]
    BY <1>0, <1>3 DEF Turns
  <2> QED
    BY <1>3, <2>1 DEF Word
<1>15. Remainder(dividend, n) = left[n]
  BY <1>4 DEF Steps
<1> QED
  BY <1>2, <1>13, <1>14, <1>15 DEF crc32, ^^
===========================================================================

--------------------------- MODULE WtpWireProofs ---------------------------
(***************************************************************************)
(* Theorems about the bytes of a transfer, whatever the file, the size of  *)
(* a chunk and the damage: the checksum detects every burst of 32 bits,    *)
(* and so the bytes written are those of the file.                         *)
(***************************************************************************)
EXTENDS WtpWire, Crc32Proofs

---------------------------------------------------------------------------
(* Words and packets in memory order. *)

LEMMA FunctionIsSequence ==
  ASSUME NEW S, NEW n \in Nat, NEW f \in [1..n -> S]
  PROVE  f \in Seq(S) /\ Len(f) = n
OBVIOUS

(* The bytes u are s followed by t. *)
Joins(u, s, t) ==
  /\ u \in Seq(Byte) /\ Len(u) = Len(s) + Len(t)
  /\ \A i \in 1..Len(s) : u[i] = s[i]
  /\ \A i \in 1..Len(t) : u[Len(s) + i] = t[i]

LEMMA Joined ==
  ASSUME NEW s \in Seq(Byte), NEW t \in Seq(Byte)
  PROVE  Joins(s \o t, s, t)
<1>1. Len(s) \in Nat /\ Len(t) \in Nat
  BY LenProperties
<1>2. /\ s \o t \in Seq(Byte) /\ Len(s \o t) = Len(s) + Len(t)
      /\ \A i \in 1..(Len(s) + Len(t)) :
            (s \o t)[i] = IF i <= Len(s) THEN s[i] ELSE t[i - Len(s)]
  BY ConcatProperties
<1>3. ASSUME NEW i \in 1..Len(t)
      PROVE  (s \o t)[Len(s) + i] = t[i]
  <2>1. /\ Len(s) + i \in 1..(Len(s) + Len(t)) /\ ~(Len(s) + i <= Len(s))
        /\ Len(s) + i - Len(s) = i
    BY <1>1
  <2> QED
    BY <1>2, <2>1
<1> QED
  BY <1>1, <1>2, <1>3 DEF Joins

(* The word w stands at the bytes m + 1 .. m + 4 of t. *)
At(t, m, w) == \A k \in 1..4 : t[m + k] = htonl(w)[k]

LEMMA NetworkOrder ==
  ASSUME NEW w \in Word
  PROVE  htonl(w) \in Seq(Byte) /\ Len(htonl(w)) = 4
<1> DEFINE B(k) == {i \in 0..7 : 8 * (4 - k) + i \in w}
<1>1. htonl(w) = [k \in 1..4 |-> B(k)]
  BY DEF htonl
<1>2. \A k \in 1..4 : B(k) \in Byte
  BY DEF Byte
<1> HIDE DEF B
<1>3. htonl(w) \in [1..4 -> Byte]
  BY <1>1, <1>2
<1>4. 4 \in Nat
  OBVIOUS
<1> QED
  BY <1>3, <1>4, FunctionIsSequence

(* What was written in network order is read back. *)
LEMMA HostOrder ==
  ASSUME NEW w \in Word, NEW t \in Seq(Byte), NEW m \in Nat, m + 4 <= Len(t),
         At(t, m, w)
  PROVE  ntohl(SubSeq(t, m + 1, m + 4)) = w
<1> DEFINE b == SubSeq(t, m + 1, m + 4)
<1>1. \A k \in 1..4 : b[k] = t[m + k]
  <2>1. Len(t) \in Nat
    BY LenProperties
  <2>2. \A i \in (m + 1)..(m + 4) : t[i] \in Byte
    BY <2>1, ElementOfSeq
  <2>3. m + 1 \in Int /\ m + 4 \in Int
    OBVIOUS
  <2>4. \A i \in 1..((m + 4) - (m + 1) + 1) : b[i] = t[(m + 1) + i - 1]
    BY <2>2, <2>3, SubSeqProperties
  <2> HIDE DEF b
  <2>5. \A k \in 1..4 : k \in 1..((m + 4) - (m + 1) + 1) /\ (m + 1) + k - 1 = m + k
    OBVIOUS
  <2> QED
    BY <2>4, <2>5
<1>2. \A k \in 1..4 : b[k] = {i \in 0..7 : 8 * (4 - k) + i \in w}
  BY <1>1 DEF At, htonl
<1> HIDE DEF b
<1>3. ASSUME NEW j \in ntohl(b)
      PROVE  j \in w
  <2>1. PICK k \in 1..4 : j \in {8 * (4 - k) + i : i \in b[k]}
    BY DEF ntohl
  <2> QED
    BY <1>2, <2>1
<1>4. ASSUME NEW j \in w
      PROVE  j \in ntohl(b)
  <2>1. j \in 0..31
    BY DEF Word
  <2>2. PICK k \in 1..4 : 8 * (4 - k) <= j /\ j < 8 * (4 - k) + 8
    <3>1. CASE j \in 0..7
      BY <3>1
    <3>2. CASE j \in 8..15
      BY <3>2
    <3>3. CASE j \in 16..23
      BY <3>3
    <3>4. CASE j \in 24..31
      BY <3>4
    <3> QED
      BY <2>1, <3>1, <3>2, <3>3, <3>4
  <2>3. j - 8 * (4 - k) \in 0..7 /\ j = 8 * (4 - k) + (j - 8 * (4 - k))
    BY <2>1, <2>2
  <2>4. j - 8 * (4 - k) \in b[k]
    BY <1>2, <2>3
  <2> QED
    BY <2>3, <2>4 DEF ntohl
<1> QED
  BY <1>3, <1>4 DEF b

WirePacket ==
  [type : Word, seqNum : Word, length : Word, checksum : Word, data : Seq(Byte)]

(* The bytes of a datagram. *)
LEMMA DatagramBytes ==
  ASSUME NEW p \in WirePacket
  PROVE  LET t == Datagram(p) IN
         /\ t \in Seq(Byte) /\ Len(t) = 16 + Len(p.data) /\ Len(p.data) \in Nat
         /\ At(t, 0, p.type) /\ At(t, 4, p.seqNum)
         /\ At(t, 8, p.length) /\ At(t, 12, p.checksum)
         /\ \A i \in 1..Len(p.data) : t[16 + i] = p.data[i]
<1> DEFINE a == htonl(p.type)
           b == htonl(p.seqNum)
           c == htonl(p.length)
           d == htonl(p.checksum)
           x == p.data
<1>1. /\ a \in Seq(Byte) /\ b \in Seq(Byte) /\ c \in Seq(Byte) /\ d \in Seq(Byte)
      /\ Len(a) = 4 /\ Len(b) = 4 /\ Len(c) = 4 /\ Len(d) = 4
  BY NetworkOrder DEF WirePacket
<1>2. x \in Seq(Byte) /\ Len(x) \in Nat
  BY LenProperties DEF WirePacket
<1>3. Datagram(p) = (((a \o b) \o c) \o d) \o x
  BY DEF Datagram, getNetworkOrderHeader
<1>4. /\ \A k \in 1..4 : a[k] = htonl(p.type)[k]
      /\ \A k \in 1..4 : b[k] = htonl(p.seqNum)[k]
      /\ \A k \in 1..4 : c[k] = htonl(p.length)[k]
      /\ \A k \in 1..4 : d[k] = htonl(p.checksum)[k]
  OBVIOUS
<1> DEFINE ab == a \o b
           abc == ab \o c
           abcd == abc \o d
           t == abcd \o x
<1> HIDE DEF a, b, c, d, x
<1>5. /\ ab \in Seq(Byte) /\ Len(ab) = 8
      /\ \A k \in 1..4 : ab[k] = a[k] /\ ab[4 + k] = b[k]
  <2>1. Joins(ab, a, b)
    BY <1>1, Joined
  <2> HIDE DEF ab
  <2> QED
    BY <1>1, <2>1 DEF Joins
<1> HIDE DEF ab
<1>6. /\ abc \in Seq(Byte) /\ Len(abc) = 12
      /\ \A k \in 1..4 : abc[k] = a[k] /\ abc[4 + k] = b[k] /\ abc[8 + k] = c[k]
  <2>1. Joins(abc, ab, c)
    BY <1>1, <1>5, Joined
  <2> HIDE DEF abc
  <2> QED
    BY <1>1, <1>5, <2>1 DEF Joins
<1> HIDE DEF abc
<1>7. /\ abcd \in Seq(Byte) /\ Len(abcd) = 16
      /\ \A k \in 1..4 : /\ abcd[k] = a[k] /\ abcd[4 + k] = b[k]
                         /\ abcd[8 + k] = c[k] /\ abcd[12 + k] = d[k]
  <2>1. Joins(abcd, abc, d)
    BY <1>1, <1>6, Joined
  <2> HIDE DEF abcd
  <2> QED
    BY <1>1, <1>6, <2>1 DEF Joins
<1> HIDE DEF abcd
<1>8. /\ t \in Seq(Byte) /\ Len(t) = 16 + Len(x)
      /\ \A k \in 1..4 : /\ t[0 + k] = a[k] /\ t[4 + k] = b[k]
                         /\ t[8 + k] = c[k] /\ t[12 + k] = d[k]
      /\ \A i \in 1..Len(x) : t[16 + i] = x[i]
  <2>1. Joins(t, abcd, x)
    BY <1>2, <1>7, Joined
  <2> HIDE DEF t
  <2>2. t \in Seq(Byte) /\ Len(t) = 16 + Len(x)
    BY <1>7, <2>1 DEF Joins
  <2>3. \A i \in 1..16 : t[i] = abcd[i]
    BY <1>7, <2>1 DEF Joins
  <2>4. \A i \in 1..Len(x) : t[16 + i] = x[i]
    BY <1>7, <2>1 DEF Joins
  <2>5. \A k \in 1..4 : /\ t[0 + k] = abcd[k] /\ t[4 + k] = abcd[4 + k]
                        /\ t[8 + k] = abcd[8 + k] /\ t[12 + k] = abcd[12 + k]
    BY <2>3
  <2> QED
    BY <1>7, <2>2, <2>4, <2>5
<1>9. Datagram(p) = t
  BY <1>3 DEF ab, abc, abcd
<1> HIDE DEF t
<1> QED
  BY <1>2, <1>4, <1>8, <1>9 DEF At, x

(* The fields of a packet are read from where they stand. *)
LEMMA FieldsRead ==
  ASSUME NEW t \in Seq(Byte), Len(t) >= 16, NEW data,
         NEW a \in Word, NEW b \in Word, NEW c \in Word, NEW d \in Word,
         At(t, 0, a), At(t, 4, b), At(t, 8, c), At(t, 12, d)
  PROVE  Parsed(t, data) = [type |-> a, seqNum |-> b, length |-> c,
                            checksum |-> d, data |-> data]
<1>0. Len(t) \in Nat
  BY LenProperties
<1>1. ASSUME NEW m \in {0, 4, 8, 12}, NEW w \in Word, At(t, m, w)
      PROVE  ntohl(SubSeq(t, m + 1, m + 4)) = w
  <2>1. m \in Nat /\ m + 4 <= Len(t)
    BY <1>0
  <2> QED
    BY <1>1, <2>1, HostOrder
<1>2. /\ ntohl(SubSeq(t, 0 + 1, 0 + 4)) = a /\ ntohl(SubSeq(t, 4 + 1, 4 + 4)) = b
      /\ ntohl(SubSeq(t, 8 + 1, 8 + 4)) = c /\ ntohl(SubSeq(t, 12 + 1, 12 + 4)) = d
  BY <1>1
<1>3. /\ 0 + 1 = 1 /\ 0 + 4 = 4 /\ 4 + 1 = 5 /\ 4 + 4 = 8
      /\ 8 + 1 = 9 /\ 8 + 4 = 12 /\ 12 + 1 = 13 /\ 12 + 4 = 16
  OBVIOUS
<1>4. /\ ntohl(SubSeq(t, 1, 4)) = a /\ ntohl(SubSeq(t, 5, 8)) = b
      /\ ntohl(SubSeq(t, 9, 12)) = c /\ ntohl(SubSeq(t, 13, 16)) = d
  BY <1>2, <1>3
<1> QED
  BY <1>4 DEF Parsed

LEMMA LeastOfTwo ==
  ASSUME NEW m \in Nat, NEW n \in Nat
  PROVE  Min({m, n}) = IF m <= n THEN m ELSE n
<1> DEFINE k == IF m <= n THEN m ELSE n
<1>1. k \in {m, n} /\ \A y \in {m, n} : k <= y
  OBVIOUS
<1>2. \A x \in {m, n} : (\A y \in {m, n} : x <= y) => x = k
  BY <1>1
<1> HIDE DEF k
<1>3. Min({m, n}) = k
  BY <1>1, <1>2 DEF Min
<1> QED
  BY <1>3 DEF k

(* The receiver reads the packet that was sent, if its data is a chunk. *)
LEMMA ReceiverReads ==
  ASSUME NEW p \in WirePacket, Len(p.data) <= CHUNK_SIZE
  PROVE  Packet1(Datagram(p)) = p
<1> DEFINE t == Datagram(p)
           n == Len(p.data)
<1>1. /\ t \in Seq(Byte) /\ Len(t) = 16 + n /\ n \in Nat
      /\ At(t, 0, p.type) /\ At(t, 4, p.seqNum)
      /\ At(t, 8, p.length) /\ At(t, 12, p.checksum)
      /\ \A i \in 1..n : t[16 + i] = p.data[i]
  BY DatagramBytes
<1>2. p.type \in Word /\ p.seqNum \in Word /\ p.length \in Word /\ p.checksum \in Word
      /\ p.data \in Seq(Byte)
      /\ p = [type |-> p.type, seqNum |-> p.seqNum, length |-> p.length,
              checksum |-> p.checksum, data |-> p.data]
  BY DEF WirePacket
<1> DEFINE data == SubSeq(t, 17, 16 + n)
<1>3. Packet1(t) = Parsed(t, data)
  <2>1. BufferSize \in Nat /\ 16 + n \in Nat /\ ~(BufferSize < 16 + n)
    BY <1>1, WireAssumption
  <2>2. Min({BufferSize, 16 + n}) = 16 + n
    BY <2>1, LeastOfTwo
  <2> HIDE DEF t
  <2> QED
    BY <1>1, <2>2 DEF Packet1
<1> HIDE DEF t
<1>4. data = p.data
  <2>1. \A i \in 17..(16 + n) : t[i] \in Byte
    BY <1>1, ElementOfSeq
  <2>2. 17 \in Int /\ 16 + n \in Int
    BY <1>1
  <2>3. /\ data \in Seq(Byte)
        /\ Len(data) = IF 17 <= 16 + n THEN (16 + n) - 17 + 1 ELSE 0
        /\ \A i \in 1..((16 + n) - 17 + 1) : data[i] = t[17 + i - 1]
    BY <2>1, <2>2, SubSeqProperties
  <2> HIDE DEF data
  <2>4. Len(data) = n
    BY <1>1, <2>3
  <2>5. ASSUME NEW i \in 1..Len(data)
        PROVE  data[i] = p.data[i]
    <3>1. i \in 1..((16 + n) - 17 + 1) /\ 17 + i - 1 = 16 + i /\ i \in 1..n
      BY <1>1, <2>4
    <3> QED
      BY <1>1, <2>3, <3>1
  <2> QED
    BY <1>2, <2>3, <2>4, <2>5, SeqEqual
<1> HIDE DEF data
<1>5. Len(t) >= 16
  BY <1>1
<1> QED
  BY <1>1, <1>2, <1>3, <1>4, <1>5, FieldsRead DEF t

---------------------------------------------------------------------------
(* Damage. *)

(* Data and a packet of which some data bits are flipped. *)
Flip(data, bits) ==
  [i \in 1..Len(data) |-> data[i] ^^ {b \in 0..7 : 8 * (i - 1) + b \in bits}]
Spoiled(p, bits) == [p EXCEPT !.data = Flip(p.data, bits)]

LEMMA FlippedData ==
  ASSUME NEW data \in Seq(Byte), NEW bits
  PROVE  Flip(data, bits) \in Seq(Byte) /\ Len(Flip(data, bits)) = Len(data)
<1>1. Len(data) \in Nat
  BY LenProperties
<1>2. \A i \in 1..Len(data) :
        data[i] ^^ {b \in 0..7 : 8 * (i - 1) + b \in bits} \in Byte
  <2>1. ASSUME NEW x \in Byte, NEW y \in SUBSET (0..7)
        PROVE  x ^^ y \in Byte
    BY DEF Byte, ^^
  <2>2. \A i \in 1..Len(data) : data[i] \in Byte
    BY <1>1, ElementOfSeq
  <2> QED
    BY <2>1, <2>2
<1>3. Flip(data, bits) \in [1..Len(data) -> Byte]
  BY <1>2 DEF Flip
<1> QED
  BY <1>1, <1>3, FunctionIsSequence

LEMMA SpoiledPacket ==
  ASSUME NEW p \in WirePacket, NEW bits
  PROVE  /\ Spoiled(p, bits) \in WirePacket
         /\ Spoiled(p, bits).type = p.type /\ Spoiled(p, bits).seqNum = p.seqNum
         /\ Spoiled(p, bits).length = p.length
         /\ Spoiled(p, bits).checksum = p.checksum
         /\ Spoiled(p, bits).data = Flip(p.data, bits)
<1>1. p.data \in Seq(Byte)
  BY DEF WirePacket
<1>2. Flip(p.data, bits) \in Seq(Byte)
  BY <1>1, FlippedData
<1> QED
  BY <1>2 DEF Spoiled, WirePacket

(* Without damage nothing changes. *)
LEMMA NotSpoiled ==
  ASSUME NEW p \in WirePacket
  PROVE  Spoiled(p, {}) = p
<1>1. p.data \in Seq(Byte) /\ p = [p EXCEPT !.data = p.data]
  BY DEF WirePacket
<1>2. Flip(p.data, {}) = p.data
  <2>1. /\ Flip(p.data, {}) \in Seq(Byte) /\ Len(Flip(p.data, {})) = Len(p.data)
    BY <1>1, FlippedData
  <2>2. ASSUME NEW i \in 1..Len(p.data)
        PROVE  Flip(p.data, {})[i] = p.data[i]
    <3>1. Flip(p.data, {})[i] = p.data[i] ^^ {}
      BY DEF Flip
    <3> QED
      BY <3>1, XorNothing
  <2> QED
    BY <1>1, <2>1, <2>2, SeqEqual
<1> QED
  BY <1>1, <1>2 DEF Spoiled

(* Flipping bits of the data in a datagram is flipping those of a packet. *)
LEMMA FlippedDatagram ==
  ASSUME NEW p \in WirePacket, NEW bits
  PROVE  Flipped(Datagram(p), bits) = Datagram(Spoiled(p, bits))
<1> DEFINE t == Datagram(p)
           q == Spoiled(p, bits)
           u == Datagram(q)
           n == Len(p.data)
           F(i) == {b \in 0..7 : i > 16 /\ 8 * (i - 17) + b \in bits}
           f == [i \in DOMAIN t |-> t[i] ^^ F(i)]
<1>1. /\ t \in Seq(Byte) /\ Len(t) = 16 + n /\ n \in Nat
      /\ At(t, 0, p.type) /\ At(t, 4, p.seqNum)
      /\ At(t, 8, p.length) /\ At(t, 12, p.checksum)
      /\ \A i \in 1..n : t[16 + i] = p.data[i]
  BY DatagramBytes
<1>2. /\ q \in WirePacket
      /\ q.type = p.type /\ q.seqNum = p.seqNum
      /\ q.length = p.length /\ q.checksum = p.checksum
      /\ q.data = Flip(p.data, bits) /\ Len(q.data) = n
  BY SpoiledPacket, FlippedData DEF WirePacket
<1>3. /\ u \in Seq(Byte) /\ Len(u) = 16 + n
      /\ At(u, 0, p.type) /\ At(u, 4, p.seqNum)
      /\ At(u, 8, p.length) /\ At(u, 12, p.checksum)
      /\ \A i \in 1..n : u[16 + i] = q.data[i]
  BY <1>2, DatagramBytes
<1>4. \A i \in 1..n : q.data[i] = p.data[i] ^^ {b \in 0..7 : 8 * (i - 1) + b \in bits}
  BY <1>2 DEF Flip
<1>5. Flipped(t, bits) = f
  BY DEF Flipped
<1>6. DOMAIN t = 1..(16 + n) /\ DOMAIN u = 1..(16 + n)
  BY <1>1, <1>3, LenProperties
<1> HIDE DEF t, u, q
<1>7. ASSUME NEW i \in 1..(16 + n)
      PROVE  t[i] ^^ F(i) = u[i]
  <2>1. CASE i <= 16
    <3>1. PICK m \in {0, 4, 8, 12}, k \in 1..4 : i = m + k
      <4>1. i \in 1..4 \/ i - 4 \in 1..4 \/ i - 8 \in 1..4 \/ i - 12 \in 1..4
        BY <1>1, <2>1
      <4>2. i = 0 + i /\ i = 4 + (i - 4) /\ i = 8 + (i - 8) /\ i = 12 + (i - 12)
        BY <1>1
      <4> QED
        BY <4>1, <4>2
    <3>2. t[m + k] = u[m + k]
      <4>1. \A w : At(t, m, w) /\ At(u, m, w) => t[m + k] = u[m + k]
        BY Zenon DEF At
      <4>2. \E w : At(t, m, w) /\ At(u, m, w)
        BY <1>1, <1>3
      <4> QED
        BY <4>1, <4>2
    <3>3. F(i) = {}
      BY <1>1, <2>1
    <3> QED
      BY <3>1, <3>2, <3>3, XorNothing
  <2>2. CASE i > 16
    <3>1. i - 16 \in 1..n /\ i = 16 + (i - 16)
      BY <1>1, <2>2
    <3>2. t[i] = p.data[i - 16] /\ u[i] = q.data[i - 16]
      BY <1>1, <1>3, <3>1
    <3>3. F(i) = {b \in 0..7 : 8 * ((i - 16) - 1) + b \in bits}
      <4>1. (i - 16) - 1 = i - 17
        BY <1>1
      <4> QED
        BY <2>2, <4>1
    <3> QED
      BY <1>4, <3>1, <3>2, <3>3
  <2> QED
    BY <1>1, <2>1, <2>2
<1> HIDE DEF F
<1>8. u = [i \in 1..(16 + n) |-> u[i]]
  BY <1>3, <1>6, LenProperties
<1>9. f = u
  BY <1>6, <1>7, <1>8
<1> QED
  BY <1>5, <1>9 DEF t, u, q

(* The bits flipped are those in which the data differ. *)
LEMMA FlippedDifference ==
  ASSUME NEW data \in Seq(Byte), NEW bits, bits \subseteq 0..(8 * Len(data) - 1)
  PROVE  Difference(data, Flip(data, bits)) = bits
<1>0. Len(data) \in Nat
  BY LenProperties
<1>1. ASSUME NEW k \in 0..(8 * Len(data) - 1)
      PROVE  k \in Difference(data, Flip(data, bits)) <=> k \in bits
  <2> DEFINE i == k \div 8 + 1
             j == k % 8
  <2>1. i \in 1..Len(data) /\ j \in 0..7 /\ 8 * (i - 1) + j = k
    BY <1>0
  <2> HIDE DEF i, j
  <2>2. Flip(data, bits)[i] = data[i] ^^ {b \in 0..7 : 8 * (i - 1) + b \in bits}
    BY <2>1 DEF Flip
  <2>3. data[i] ^^ Flip(data, bits)[i] = {b \in 0..7 : 8 * (i - 1) + b \in bits}
    <3>1. \A x, y : x ^^ (x ^^ y) = y
      BY DEF ^^
    <3> QED
      BY <2>2, <3>1
  <2>4. j \in data[i] ^^ Flip(data, bits)[i] <=> k \in bits
    BY <2>1, <2>3
  <2> QED
    BY <2>4 DEF Difference, i, j
<1>2. Difference(data, Flip(data, bits)) \subseteq 0..(8 * Len(data) - 1)
  BY DEF Difference
<1> QED
  BY <1>1, <1>2

---------------------------------------------------------------------------
(* ACKs. *)

LEMMA ZerosAreBytes ==
  ASSUME NEW n \in Nat
  PROVE  /\ Zeros(n) \in Seq(Byte) /\ Len(Zeros(n)) = n
         /\ \A i \in 1..n : Zeros(n)[i] = {}
<1>1. Zeros(n) \in [1..n -> Byte]
  BY DEF Zeros, Byte
<1>2. \A i \in 1..n : Zeros(n)[i] = {}
  BY DEF Zeros
<1> QED
  BY <1>1, <1>2, FunctionIsSequence

LEMMA ZeroWord == {} \in Word /\ \A k \in 1..4 : htonl({})[k] = {}
<1>1. \A k \in 1..4 : htonl({})[k] = {i \in 0..7 : 8 * (4 - k) + i \in {}}
  BY DEF htonl
<1>2. \A k \in 1..4 : htonl({})[k] = {}
  BY <1>1
<1> QED
  BY <1>2 DEF Word

LEMMA BufferBytes ==
  ASSUME NEW w \in Word, NEW rest \in Byte
  PROVE  LET t == toBuffer(w, rest) IN
         /\ t \in Seq(Byte) /\ Len(t) = BufferSize
         /\ At(t, 0, ACK) /\ At(t, 4, w) /\ At(t, 8, {}) /\ At(t, 12, {})
<1> DEFINE a == htonl(ACK)
           b == htonl(w)
           z == Zeros(8)
           n == BufferSize - 16
           x == [i \in 1..n |-> rest]
           ab == a \o b
           abz == ab \o z
           t == abz \o x
<1>0. n \in Nat /\ 16 + n = BufferSize
  BY WireAssumption
<1>1. /\ a \in Seq(Byte) /\ b \in Seq(Byte) /\ z \in Seq(Byte) /\ x \in Seq(Byte)
      /\ Len(a) = 4 /\ Len(b) = 4 /\ Len(z) = 8 /\ Len(x) = n
  <2>1. ACK \in Word
    BY DEF ACK, Word
  <2>2. x \in [1..n -> Byte]
    OBVIOUS
  <2>3. 8 \in Nat
    OBVIOUS
  <2> HIDE DEF x, n
  <2>4. x \in Seq(Byte) /\ Len(x) = n
    BY <1>0, <2>2, FunctionIsSequence
  <2> QED
    BY <2>1, <2>3, <2>4, NetworkOrder, ZerosAreBytes
<1>2. \A i \in 1..8 : z[i] = {}
  BY ZerosAreBytes
<1>3. toBuffer(w, rest) = t
  BY DEF toBuffer
<1>4. /\ \A k \in 1..4 : a[k] = htonl(ACK)[k]
      /\ \A k \in 1..4 : b[k] = htonl(w)[k]
  OBVIOUS
<1> HIDE DEF a, b, z, n, x
<1>5. /\ ab \in Seq(Byte) /\ Len(ab) = 8
      /\ \A k \in 1..4 : ab[k] = a[k] /\ ab[4 + k] = b[k]
  <2>1. Joins(ab, a, b)
    BY <1>1, Joined
  <2> HIDE DEF ab
  <2> QED
    BY <1>1, <2>1 DEF Joins
<1> HIDE DEF ab
<1>6. /\ abz \in Seq(Byte) /\ Len(abz) = 16
      /\ \A k \in 1..4 : /\ abz[k] = a[k] /\ abz[4 + k] = b[k]
                         /\ abz[8 + k] = {} /\ abz[12 + k] = {}
  <2>1. Joins(abz, ab, z)
    BY <1>1, <1>5, Joined
  <2> HIDE DEF abz
  <2>2. abz \in Seq(Byte) /\ Len(abz) = 16
    BY <1>1, <1>5, <2>1 DEF Joins
  <2>3. \A i \in 1..8 : abz[i] = ab[i]
    BY <1>1, <1>5, <2>1 DEF Joins
  <2>4. \A i \in 1..8 : abz[8 + i] = {}
    BY <1>1, <1>2, <1>5, <2>1 DEF Joins
  <2>5. \A k \in 1..4 : abz[8 + k] = {} /\ abz[12 + k] = {}
    <3>1. \A k \in 1..4 : k \in 1..8 /\ 4 + k \in 1..8 /\ 8 + (4 + k) = 12 + k
      OBVIOUS
    <3> QED
      BY <2>4, <3>1
  <2>6. \A k \in 1..4 : k \in 1..8 /\ 4 + k \in 1..8
    OBVIOUS
  <2> QED
    BY <1>5, <2>2, <2>3, <2>5, <2>6
<1> HIDE DEF abz
<1>7. /\ t \in Seq(Byte) /\ Len(t) = BufferSize
      /\ \A k \in 1..4 : /\ t[0 + k] = a[k] /\ t[4 + k] = b[k]
                         /\ t[8 + k] = {} /\ t[12 + k] = {}
  <2>1. Joins(t, abz, x)
    BY <1>1, <1>6, Joined
  <2> HIDE DEF t
  <2>2. t \in Seq(Byte) /\ Len(t) = BufferSize
    BY <1>0, <1>1, <1>6, <2>1 DEF Joins
  <2>3. \A i \in 1..16 : t[i] = abz[i]
    BY <1>6, <2>1 DEF Joins
  <2>4. \A k \in 1..4 : /\ t[0 + k] = abz[k] /\ t[4 + k] = abz[4 + k]
                        /\ t[8 + k] = abz[8 + k] /\ t[12 + k] = abz[12 + k]
    BY <2>3
  <2> QED
    BY <1>6, <2>2, <2>4
<1> HIDE DEF t
<1> QED
  BY <1>3, <1>4, <1>7, ZeroWord DEF At

(* The checksum of no data is 0. *)
LEMMA ChecksumOfNothing == crc32(<<>>) = {}
<1> DEFINE none == <<>>
<1>1. none \in Seq(Byte) /\ Len(none) = 0
  BY EmptySeq
<1> HIDE DEF none
<1>2. PICK r : Turns(none, r)
  BY <1>1, RegisterTurns
<1>3. Register(none) = 0..31
  BY <1>1, <1>2 DEF Turns
<1>4. crc32(none) = {}
  BY <1>3, XorNothing DEF crc32
<1> QED
  BY <1>4 DEF none

(* What the sender reads of an ACK, whatever the end of its buffer is.     *)
LEMMA SenderReads ==
  ASSUME NEW w \in Word, NEW rest \in Byte
  PROVE  /\ receiveAck(toBuffer(w, rest)) =
              [type |-> ACK, seqNum |-> w, length |-> {}, checksum |-> {}, data |-> <<>>]
         /\ isAckValid(receiveAck(toBuffer(w, rest)))
<1> DEFINE t == toBuffer(w, rest)
           m == 16 + CHUNK_SIZE
           z == Zeros(m)
           tz == t \o z
           u == SubSeq(tz, 1, m)
<1>0. m \in Nat /\ m >= 16 /\ BufferSize \in Nat /\ m <= BufferSize
  BY WireAssumption
<1>1. /\ t \in Seq(Byte) /\ Len(t) = BufferSize
      /\ At(t, 0, ACK) /\ At(t, 4, w) /\ At(t, 8, {}) /\ At(t, 12, {})
  BY BufferBytes
<1>2. ACK \in Word /\ {} \in Word
  BY DEF ACK, Word
<1>3. z \in Seq(Byte) /\ Len(z) = m
  BY <1>0, ZerosAreBytes
<1>4. receiveAck(t) =
        Parsed(u, IF ntohl(SubSeq(u, 9, 12)) = {} THEN <<>>
                  ELSE SubSeq(u, 17, 16 + SumSet({2^i : i \in ntohl(SubSeq(u, 9, 12))})))
  BY DEF receiveAck
<1> HIDE DEF t, m, z
<1>5. \A i \in 1..BufferSize : tz[i] = t[i]
  <2>1. Joins(tz, t, z)
    BY <1>1, <1>3, Joined
  <2> HIDE DEF tz
  <2> QED
    BY <1>1, <2>1 DEF Joins
<1> HIDE DEF tz
<1>6. u \in Seq(Byte) /\ Len(u) = m /\ \A i \in 1..m : u[i] = t[i]
  <2>1. \A i \in 1..m : i \in 1..BufferSize /\ tz[i] \in Byte
    BY <1>0, <1>1, <1>5, ElementOfSeq
  <2>2. /\ u \in Seq(Byte) /\ Len(u) = IF 1 <= m THEN m - 1 + 1 ELSE 0
        /\ \A i \in 1..(m - 1 + 1) : u[i] = tz[1 + i - 1]
    BY <1>0, <2>1, SubSeqProperties
  <2> HIDE DEF u
  <2>3. Len(u) = m /\ m - 1 + 1 = m
    BY <1>0, <2>2
  <2>4. ASSUME NEW i \in 1..m
        PROVE  u[i] = t[i]
    <3>1. 1 + i - 1 = i
      OBVIOUS
    <3> QED
      BY <1>5, <2>1, <2>2, <2>3, <3>1
  <2> QED
    BY <2>2, <2>3, <2>4
<1> HIDE DEF u
<1>7. At(u, 0, ACK) /\ At(u, 4, w) /\ At(u, 8, {}) /\ At(u, 12, {})
  <2>1. \A k \in 1..4 : /\ 0 + k \in 1..m /\ 4 + k \in 1..m
                        /\ 8 + k \in 1..m /\ 12 + k \in 1..m
    BY <1>0
  <2>2. \A k \in 1..4 : /\ u[0 + k] = t[0 + k] /\ u[4 + k] = t[4 + k]
                        /\ u[8 + k] = t[8 + k] /\ u[12 + k] = t[12 + k]
    BY <1>6, <2>1
  <2> QED
    BY <1>1, <2>2, Zenon DEF At
<1>8. ntohl(SubSeq(u, 9, 12)) = {}
  <2>1. 8 \in Nat /\ 8 + 4 <= Len(u) /\ 8 + 1 = 9 /\ 8 + 4 = 12
    BY <1>0, <1>6
  <2> QED
    BY <1>2, <1>6, <1>7, <2>1, HostOrder
<1>9. receiveAck(t) = Parsed(u, <<>>)
  BY <1>4, <1>8
<1>10. Parsed(u, <<>>) = [type |-> ACK, seqNum |-> w, length |-> {},
                          checksum |-> {}, data |-> <<>>]
  BY <1>0, <1>2, <1>6, <1>7, FieldsRead
<1>11. isAckValid(receiveAck(t))
  <2>1. receiveAck(t).checksum = {} /\ receiveAck(t).data = <<>>
    BY <1>9, <1>10
  <2> QED
    BY <2>1, ChecksumOfNothing DEF isAckValid, calculateCheckSum
<1> QED
  BY <1>9, <1>10, <1>11 DEF t

---------------------------------------------------------------------------
(* The transfer.  What is under way, and what was written, in each phase   *)
(* of the sender.                                                          *)

(* No two bits that are flipped at once are further apart than 31.         *)
Bursts == \A bits \in Damages : \A i, j \in bits : i - j <= 31

Silent == toReceiver = <<>> /\ toSender = <<>>

(* The answer with the number w is under way. *)
Acked(w) ==
  toReceiver = <<>> /\ \E rest \in Garbage : toSender = toBuffer(w, rest)

Idle ==
  /\ output = <<>> /\ offset = 0 /\ dataSeqNum = 0
  /\ window = <<>> /\ Silent

Starting ==
  /\ output = <<>> /\ offset = 0 /\ dataSeqNum = 0
  /\ window = <<Packet(START, <<>>, randSeqNum)>>
  /\ \/ toReceiver = Datagram(Packet(START, <<>>, randSeqNum)) /\ toSender = <<>>
     \/ Acked(randSeqNum) /\ startACK = randSeqNum /\ next_seq = 0

Opened ==
  /\ output = <<>> /\ offset = 0 /\ dataSeqNum = 0
  /\ window = <<>> /\ Silent
  /\ startACK = randSeqNum /\ next_seq = 0

(* All that was sent is written. *)
UpToDate ==
  /\ Len(output) = offset /\ dataSeqNum = next_seq
  /\ \/ window = <<>> /\ Silent
     \/ window # <<>> /\ Acked(Bits(next_seq))

(* A chunk is sent, or damaged, or damaged and dropped.                    *)
ChunkSent(c) ==
  /\ Len(output) <= offset /\ c = SubSeq(file, Len(output) + 1, offset)
  /\ Len(c) <= CHUNK_SIZE
  /\ dataSeqNum = next_seq + 1
  /\ window = <<Packet(DATA, c, Bits(next_seq))>>
  /\ toSender = <<>>
  /\ \/ toReceiver = <<>>
     \/ \E bits \in Damages \cup {{}} :
          /\ bits \subseteq 0..(8 * Len(c) - 1)
          /\ toReceiver = Datagram(Spoiled(Packet(DATA, c, Bits(next_seq)), bits))

Transferring ==
  /\ startACK = randSeqNum
  /\ UpToDate \/ \E c \in Seq(Byte) : ChunkSent(c)

Ending ==
  /\ Len(output) = Len(file) /\ startACK = randSeqNum
  /\ \/ /\ window = <<Packet(END, <<>>, randSeqNum)>>
        /\ toReceiver = Datagram(Packet(END, <<>>, randSeqNum)) /\ toSender = <<>>
     \/ Acked(randSeqNum)

Done == Len(output) = Len(file) /\ Silent

WireTypeOK ==
  /\ file \in Seq(Byte) /\ output \in Seq(Byte)
  /\ offset \in 0..Len(file) /\ dataSeqNum \in Nat /\ next_seq \in Nat
  /\ randSeqNum \in Word /\ startACK \in Word
  /\ phase \in {"idle", "start", "open", "data", "end", "done"}

WireInv ==
  /\ WireTypeOK
  /\ Bursts => output = SubSeq(file, 1, Len(output))
  /\ phase = "idle" => Idle
  /\ phase = "start" => Starting
  /\ phase = "open" => Opened
  /\ phase = "data" => Transferring
  /\ phase = "end" => Ending
  /\ phase = "done" => Done

LEMMA ThreeTypes == /\ START # END /\ START # DATA /\ END # DATA
                    /\ START \in Word /\ END \in Word /\ DATA \in Word
<1>1. 0 \in END /\ 0 \notin DATA /\ 1 \in DATA /\ \A i : i \notin START
  BY DEF START, END, DATA
<1>2. START \in Word /\ END \in Word /\ DATA \in Word
  BY DEF START, END, DATA, Word
<1> QED
  BY <1>1, <1>2

LEMMA BitsAreWord == \A n : Bits(n) \in Word
BY DEF Bits, Word

(* The packets that the sender builds, and what is in them. *)
LEMMA BuiltPacket ==
  ASSUME NEW type \in {START, END, DATA}, NEW data \in Seq(Byte), NEW w \in Word
  PROVE  LET p == Packet(type, data, w) IN
         /\ p \in WirePacket /\ p.type = type /\ p.seqNum = w /\ p.data = data
         /\ p.checksum = crc32(data)
<1>1. type \in Word /\ Bits(Len(data)) \in Word /\ crc32(data) \in Word
  BY ThreeTypes, BitsAreWord, ChecksumIsWord
<1> QED
  BY <1>1 DEF Packet, WirePacket, calculateCheckSum

LEMMA EmptyPacket ==
  ASSUME NEW type \in {START, END, DATA}, NEW w \in Word
  PROVE  LET p == Packet(type, <<>>, w) IN
         p \in WirePacket /\ p.data = <<>> /\ p.type = type /\ p.seqNum = w
<1> DEFINE none == <<>>
<1>1. none \in Seq(Byte)
  BY EmptySeq
<1> HIDE DEF none
<1>2. LET p == Packet(type, none, w) IN
      p \in WirePacket /\ p.data = none /\ p.type = type /\ p.seqNum = w
  BY <1>1, BuiltPacket
<1> QED
  BY <1>2 DEF none

LEMMA DatagramsAreNotEmpty ==
  ASSUME NEW p \in WirePacket
  PROVE  Datagram(p) # <<>>
<1>1. Len(Datagram(p)) = 16 + Len(p.data) /\ Len(p.data) \in Nat
  BY DatagramBytes
<1>2. Len(<<>>) = 0
  OBVIOUS
<1> QED
  BY <1>1, <1>2

(* What the receiver does is what it does with the packet sent. *)
LEMMA ReceivesPacket ==
  ASSUME NEW p \in WirePacket, Len(p.data) <= CHUNK_SIZE,
         toReceiver = Datagram(p), Receive
  PROVE  /\ StartReceived(p) \/ EndReceived(p) \/ DataReceived(p)
         /\ toReceiver' = <<>>
         /\ UNCHANGED senderVars
<1>1. Packet1(toReceiver) = p
  BY ReceiverReads
<1> QED
  BY <1>1 DEF Receive

(* Damage within 32 bits does not fit the checksum in the header. *)
LEMMA SpoiledIsDetected ==
  ASSUME NEW c \in Seq(Byte), NEW bits \in Damages, bits # {},
         bits \subseteq 0..(8 * Len(c) - 1), Bursts
  PROVE  crc32(c) # crc32(Flip(c, bits))
<1>1. Flip(c, bits) \in Seq(Byte) /\ Len(c) = Len(Flip(c, bits))
  BY FlippedData
<1>2. Difference(c, Flip(c, bits)) = bits
  BY FlippedDifference
<1>3. Narrow(bits)
  BY WireAssumption DEF Narrow, Bursts
<1> QED
  BY <1>1, <1>2, <1>3, BurstChangesChecksum

LEMMA BuffersAreNotEmpty ==
  ASSUME NEW w \in Word, Acked(w)
  PROVE  toReceiver = <<>> /\ toSender # <<>>
<1>1. PICK rest \in Garbage : toSender = toBuffer(w, rest)
  BY DEF Acked
<1>2. rest \in Byte
  BY WireAssumption
<1>3. Len(toSender) = BufferSize
  BY <1>1, <1>2, BufferBytes
<1>4. BufferSize # 0 /\ Len(<<>>) = 0
  BY WireAssumption
<1> QED
  BY <1>3, <1>4 DEF Acked

LEMMA WireInit == Init => WireInv
<1> SUFFICES ASSUME Init PROVE WireInv
  OBVIOUS
<1>1. file \in Seq(Byte) /\ Len(file) \in Nat
  BY WireAssumption, LenProperties DEF Init
<1>2. output = <<>> /\ output \in Seq(Byte) /\ Len(output) = 0 /\ offset = 0
  BY EmptySeq DEF Init
<1>3. SubSeq(file, 1, Len(output)) = <<>>
  BY <1>2, SubSeqEmpty
<1>4. WireTypeOK
  BY <1>1, <1>2 DEF Init, WireTypeOK, Word
<1>5. Idle
  BY <1>2 DEF Init, Idle, Silent
<1>6. phase = "idle"
  BY DEF Init
<1> QED
  BY <1>2, <1>3, <1>4, <1>5, <1>6 DEF WireInv

LEMMA LaunchStep ==
  ASSUME WireInv, Launch
  PROVE  WireInv'
<1>1. Idle
  BY DEF WireInv, Launch
<1>2. PICK r \in StartSeqs : randSeqNum' = r /\ sendPacket(Packet(START, <<>>, r))
  BY DEF Launch
<1>3. r \in Word
  BY WireAssumption
<1>4. phase' = "start" /\ UNCHANGED <<file, output, offset, dataSeqNum, next_seq, startACK, toSender>>
  BY DEF Launch, receiverVars
<1>5. Starting'
  BY <1>1, <1>2, <1>4 DEF Starting, Idle, Silent, sendPacket
<1>6. WireTypeOK'
  BY <1>2, <1>3, <1>4 DEF WireTypeOK, WireInv
<1>7. (Bursts => output = SubSeq(file, 1, Len(output)))'
  BY <1>4 DEF WireInv, Bursts
<1> QED
  BY <1>4, <1>5, <1>6, <1>7 DEF WireInv

LEMMA OpenFileStep ==
  ASSUME WireInv, OpenFile
  PROVE  WireInv'
<1>1. Opened
  BY DEF WireInv, OpenFile
<1>2. phase' = "data"
      /\ UNCHANGED <<file, window, randSeqNum, output, offset, dataSeqNum, next_seq,
                     startACK, toReceiver, toSender>>
  BY DEF OpenFile, receiverVars
<1>3. UpToDate /\ startACK = randSeqNum
  BY <1>1 DEF Opened, UpToDate
<1>4. Transferring'
  BY <1>2, <1>3 DEF Transferring, UpToDate, Silent, Acked
<1>5. WireTypeOK'
  BY <1>2 DEF WireTypeOK, WireInv
<1>6. (Bursts => output = SubSeq(file, 1, Len(output)))'
  BY <1>2 DEF WireInv, Bursts
<1> QED
  BY <1>2, <1>4, <1>5, <1>6 DEF WireInv

LEMMA SendDataStep ==
  ASSUME WireInv, SendData
  PROVE  WireInv'
<1>1. Transferring /\ WireTypeOK
  BY DEF WireInv, SendData
<1>2. /\ phase = "data" /\ window = <<>> /\ offset < Len(file)
      /\ sendPacket(Packet(DATA, chunk, Bits(dataSeqNum)))
      /\ offset' = offset + Len(chunk)
      /\ dataSeqNum' = dataSeqNum + 1
      /\ UNCHANGED <<file, phase, randSeqNum, startACK, next_seq, output, toSender>>
  BY DEF SendData, receiverVars
<1>3. UpToDate /\ Silent
  <2>1. \A c : ~ChunkSent(c)
    BY <1>2 DEF ChunkSent
  <2> QED
    BY <1>1, <1>2, <2>1 DEF Transferring, UpToDate
<1>4. Len(file) \in Nat /\ offset \in Nat /\ CHUNK_SIZE \in Nat \ {0}
  BY <1>1, WireAssumption, LenProperties DEF WireTypeOK
<1> DEFINE n == Min({CHUNK_SIZE, Len(file) - offset})
<1>5. n \in 1..CHUNK_SIZE /\ offset + n <= Len(file)
  <2>1. Len(file) - offset \in Nat
    BY <1>2, <1>4
  <2>2. n = IF CHUNK_SIZE <= Len(file) - offset THEN CHUNK_SIZE ELSE Len(file) - offset
    BY <1>4, <2>1, LeastOfTwo
  <2> QED
    BY <1>2, <1>4, <2>2
<1>6. chunk = SubSeq(file, offset + 1, offset + n)
  BY DEF chunk
<1> HIDE DEF n
<1>7. chunk \in Seq(Byte) /\ Len(chunk) = n
  <2>1. \A i \in (offset + 1)..(offset + n) : file[i] \in Byte
    <3>1. \A i \in (offset + 1)..(offset + n) : i \in 1..Len(file)
      BY <1>4, <1>5
    <3> QED
      BY <1>1, <3>1, ElementOfSeq DEF WireTypeOK
  <2>2. offset + 1 \in Int /\ offset + n \in Int
    BY <1>4, <1>5
  <2>3. /\ chunk \in Seq(Byte)
        /\ Len(chunk) = IF offset + 1 <= offset + n THEN (offset + n) - (offset + 1) + 1
                        ELSE 0
    BY <1>6, <2>1, <2>2, SubSeqProperties
  <2> QED
    BY <1>4, <1>5, <2>3
<1>8. (\E c \in Seq(Byte) : ChunkSent(c))'
  <2> DEFINE c == chunk
             p == Packet(DATA, c, Bits(next_seq))
  <2>1. Len(output') = offset /\ offset' = offset + n /\ Len(c) = n
    BY <1>2, <1>3, <1>7 DEF UpToDate
  <2>2. Len(output') <= offset' /\ c = SubSeq(file', Len(output') + 1, offset')
    BY <1>2, <1>4, <1>5, <1>6, <2>1
  <2>3. dataSeqNum' = next_seq' + 1
    BY <1>2, <1>3 DEF UpToDate
  <2>4. window' = <<p>> /\ toReceiver' = Datagram(p) /\ toSender' = <<>>
    BY <1>2, <1>3 DEF UpToDate, Silent, sendPacket
  <2>5. p \in WirePacket
    BY <1>7, BuiltPacket, BitsAreWord
  <2>6. Datagram(p) = Datagram(Spoiled(p, {}))
    BY <2>5, NotSpoiled
  <2>7. p = Packet(DATA, c, Bits(next_seq'))
    BY <1>2
  <2>8. c \in Seq(Byte) /\ Len(c) <= CHUNK_SIZE
    BY <1>4, <1>5, <1>7
  <2>9. {} \in Damages \cup {{}} /\ {} \subseteq 0..(8 * Len(c) - 1)
    OBVIOUS
  <2> HIDE DEF c, p
  <2>10. \E d \in Seq(Byte) :
           /\ Len(output') <= offset' /\ d = SubSeq(file', Len(output') + 1, offset')
           /\ Len(d) <= CHUNK_SIZE
           /\ dataSeqNum' = next_seq' + 1
           /\ window' = <<Packet(DATA, d, Bits(next_seq'))>>
           /\ toSender' = <<>>
           /\ \/ toReceiver' = <<>>
              \/ \E bits \in Damages \cup {{}} :
                   /\ bits \subseteq 0..(8 * Len(d) - 1)
                   /\ toReceiver' = Datagram(Spoiled(Packet(DATA, d, Bits(next_seq')), bits))
    BY <2>2, <2>3, <2>4, <2>6, <2>7, <2>8, <2>9
  <2> QED
    BY <2>10 DEF ChunkSent
<1>9. Transferring'
  BY <1>1, <1>2, <1>8 DEF Transferring
<1>10. WireTypeOK'
  BY <1>1, <1>2, <1>4, <1>5, <1>7 DEF WireTypeOK
<1>11. (Bursts => output = SubSeq(file, 1, Len(output)))'
  BY <1>2 DEF WireInv, Bursts
<1> QED
  BY <1>2, <1>9, <1>10, <1>11 DEF WireInv

LEMMA EndConnectionStep ==
  ASSUME WireInv, EndConnection
  PROVE  WireInv'
<1>1. Transferring /\ WireTypeOK
  BY DEF WireInv, EndConnection
<1>2. /\ phase = "data" /\ window = <<>> /\ offset >= Len(file) /\ phase' = "end"
      /\ sendPacket(Packet(END, <<>>, randSeqNum))
      /\ UNCHANGED <<file, randSeqNum, offset, dataSeqNum, startACK, next_seq, output, toSender>>
  BY DEF EndConnection, receiverVars
<1>3. UpToDate /\ Silent
  <2>1. \A c : ~ChunkSent(c)
    BY <1>2 DEF ChunkSent
  <2> QED
    BY <1>1, <1>2, <2>1 DEF Transferring, UpToDate
<1>4. Len(output) = Len(file)
  <2>1. Len(file) \in Nat
    BY <1>1, LenProperties DEF WireTypeOK
  <2> QED
    BY <1>1, <1>2, <1>3, <2>1 DEF UpToDate, WireTypeOK
<1>5. Ending'
  BY <1>1, <1>2, <1>3, <1>4 DEF Ending, Transferring, Silent, sendPacket
<1>6. WireTypeOK'
  BY <1>1, <1>2 DEF WireTypeOK
<1>7. (Bursts => output = SubSeq(file, 1, Len(output)))'
  BY <1>2 DEF WireInv, Bursts
<1> QED
  BY <1>2, <1>5, <1>6, <1>7 DEF WireInv

LEMMA RetransmitStep ==
  ASSUME WireInv, Retransmit
  PROVE  WireInv'
<1>1. Transferring /\ WireTypeOK
  BY DEF WireInv, Retransmit
<1>2. /\ phase = "data" /\ window # <<>> /\ toReceiver = <<>> /\ toSender = <<>>
      /\ toReceiver' = Datagram(Head(window))
      /\ UNCHANGED <<file, phase, window, randSeqNum, offset, dataSeqNum,
                     startACK, next_seq, output, toSender>>
  BY DEF Retransmit, receiverVars, senderVars
<1>3. ~UpToDate
  <2>1. Bits(next_seq) \in Word
    BY BitsAreWord
  <2> QED
    BY <1>2, <2>1, BuffersAreNotEmpty DEF UpToDate
<1>4. PICK c \in Seq(Byte) : ChunkSent(c)
  BY <1>1, <1>3 DEF Transferring
<1> DEFINE p == Packet(DATA, c, Bits(next_seq))
<1>5. p \in WirePacket /\ Head(window) = p
  <2>1. p \in WirePacket
    BY BuiltPacket, BitsAreWord
  <2>2. window = <<p>>
    BY <1>4 DEF ChunkSent
  <2> HIDE DEF p
  <2> QED
    BY <2>1, <2>2
<1>6. toReceiver' = Datagram(Spoiled(p, {}))
  BY <1>2, <1>5, NotSpoiled
<1> HIDE DEF p
<1>7. ChunkSent(c)'
  <2>1. {} \in Damages \cup {{}} /\ {} \subseteq 0..(8 * Len(c) - 1)
    OBVIOUS
  <2>2. toReceiver' = Datagram(Spoiled(Packet(DATA, c, Bits(next_seq')), {}))
    BY <1>2, <1>6 DEF p
  <2>3. \E bits \in Damages \cup {{}} :
          /\ bits \subseteq 0..(8 * Len(c) - 1)
          /\ toReceiver' = Datagram(Spoiled(Packet(DATA, c, Bits(next_seq')), bits))
    BY <2>1, <2>2
  <2>4. /\ Len(output') <= offset' /\ c = SubSeq(file', Len(output') + 1, offset')
        /\ Len(c) <= CHUNK_SIZE /\ dataSeqNum' = next_seq' + 1
        /\ window' = <<Packet(DATA, c, Bits(next_seq'))>> /\ toSender' = <<>>
    BY <1>2, <1>4 DEF ChunkSent
  <2> QED
    BY <2>3, <2>4 DEF ChunkSent
<1>8. Transferring'
  <2>1. \E d \in Seq(Byte) : ChunkSent(d)'
    BY <1>7
  <2> QED
    BY <1>1, <1>2, <2>1 DEF Transferring
<1>9. WireTypeOK'
  BY <1>1, <1>2 DEF WireTypeOK
<1>10. (Bursts => output = SubSeq(file, 1, Len(output)))'
  BY <1>2 DEF WireInv, Bursts
<1> QED
  BY <1>2, <1>8, <1>9, <1>10 DEF WireInv

(* An answer under way in a phase is one to what was sent in it.           *)
LEMMA AnsweredStep ==
  ASSUME WireInv, Answered
  PROVE  WireInv'
<1>1. /\ toSender # <<>> /\ toSender' = <<>>
      /\ \/ phase = "start" /\ phase' = "open"
         \/ phase = "data" /\ phase' = "data"
         \/ phase = "end" /\ phase' = "done"
      /\ window' = IF phase = "end" THEN window ELSE <<>>
      /\ UNCHANGED <<file, randSeqNum, offset, dataSeqNum, startACK, next_seq, output, toReceiver>>
  BY DEF Answered, receiverVars
<1>2. WireTypeOK
  BY DEF WireInv
<1>3. WireTypeOK'
  BY <1>1, <1>2 DEF WireTypeOK
<1>4. (Bursts => output = SubSeq(file, 1, Len(output)))'
  BY <1>1 DEF WireInv, Bursts
<1>5. CASE phase = "start"
  <2>1. Starting
    BY <1>5 DEF WireInv
  <2>2. Acked(randSeqNum) /\ startACK = randSeqNum /\ next_seq = 0
    BY <1>1, <2>1 DEF Starting
  <2>3. Opened'
    BY <1>1, <1>5, <2>1, <2>2 DEF Opened, Starting, Silent, Acked
  <2> QED
    BY <1>1, <1>3, <1>4, <1>5, <2>3 DEF WireInv
<1>6. CASE phase = "data"
  <2>1. Transferring
    BY <1>6 DEF WireInv
  <2>2. UpToDate /\ toReceiver = <<>>
    BY <1>1, <2>1 DEF Transferring, ChunkSent, UpToDate, Silent, Acked
  <2>3. UpToDate'
    BY <1>1, <1>6, <2>2 DEF UpToDate, Silent
  <2>4. Transferring'
    BY <1>1, <2>1, <2>3 DEF Transferring
  <2> QED
    BY <1>1, <1>3, <1>4, <1>6, <2>4 DEF WireInv
<1>7. CASE phase = "end"
  <2>1. Ending
    BY <1>7 DEF WireInv
  <2>2. Done'
    BY <1>1, <2>1 DEF Ending, Done, Silent, Acked
  <2> QED
    BY <1>1, <1>3, <1>4, <1>7, <2>2 DEF WireInv
<1> QED
  BY <1>1, <1>5, <1>6, <1>7

LEMMA StutterStep ==
  ASSUME WireInv, UNCHANGED vars
  PROVE  WireInv'
BY DEF vars, senderVars, receiverVars, WireInv, WireTypeOK, Bursts, Idle, Starting,
       Opened, Transferring, Ending, Done, UpToDate, ChunkSent, Acked, Silent

(* Only a chunk on its way can be damaged.                                 *)
ChunkDamaged(c, bits) ==
  LET p == Packet(DATA, c, Bits(next_seq)) IN
  /\ bits \subseteq 0..(8 * Len(c) - 1)
  /\ toReceiver = Datagram(p) /\ toReceiver' = Datagram(Spoiled(p, bits))

LEMMA DamageCases ==
  ASSUME WireInv, Damage
  PROVE  /\ UNCHANGED <<senderVars, receiverVars, toSender>>
         /\ \/ UNCHANGED toReceiver
            \/ /\ phase = "data"
               /\ \E c \in Seq(Byte), bits \in Damages : ChunkSent(c) /\ ChunkDamaged(c, bits)
<1>1. PICK bits \in Damages :
        /\ bits \subseteq 0..(8 * (Len(toReceiver) - 16) - 1)
        /\ toReceiver = Datagram(Head(window))
        /\ toReceiver' = Flipped(toReceiver, bits)
  BY DEF Damage
<1>2. UNCHANGED <<senderVars, receiverVars, toSender>>
  BY DEF Damage
<1>3. WireTypeOK
  BY DEF WireInv
<1>4. ASSUME toReceiver = <<>>
      PROVE  toReceiver' = toReceiver
  <2>1. Flipped(<<>>, bits) = <<>>
    BY DEF Flipped
  <2> QED
    BY <1>1, <1>4, <2>1
<1>5. ASSUME NEW p \in WirePacket, toReceiver = Datagram(p), p.data = <<>>
      PROVE  toReceiver' = toReceiver
  <2>1. Len(toReceiver) = 16 + 0
    BY <1>5, DatagramBytes
  <2>2. bits = {}
    <3>1. \A n : n = 16 + 0 => 8 * (n - 16) - 1 = -1
      OBVIOUS
    <3>2. bits \subseteq 0..(-1)
      BY <1>1, <2>1, <3>1
    <3> QED
      BY <3>2
  <2>3. Flipped(Datagram(p), {}) = Datagram(p)
    BY FlippedDatagram, NotSpoiled
  <2> QED
    BY <1>1, <1>5, <2>2, <2>3
<1>6. ASSUME NEW type \in {START, END, DATA}, NEW w \in Word
      PROVE  Packet(type, <<>>, w) \in WirePacket /\ Packet(type, <<>>, w).data = <<>>
  BY EmptyPacket
<1>7. CASE phase # "data"
  <2>1. \/ toReceiver = <<>>
        \/ \E type \in {START, END, DATA} :
              toReceiver = Datagram(Packet(type, <<>>, randSeqNum))
    BY <1>3, <1>7 DEF WireInv, WireTypeOK, Idle, Starting, Opened, Ending, Done,
                      Silent, Acked
  <2>2. randSeqNum \in Word
    BY <1>3 DEF WireTypeOK
  <2>3. toReceiver' = toReceiver
    BY <1>4, <1>5, <1>6, <2>1, <2>2
  <2> QED
    BY <1>2, <2>3
<1>8. CASE phase = "data" /\ toReceiver # <<>>
  <2>1. PICK c \in Seq(Byte) : ChunkSent(c)
    BY <1>8, BuffersAreNotEmpty, BitsAreWord
       DEF WireInv, Transferring, UpToDate, Silent, Acked
  <2> DEFINE p == Packet(DATA, c, Bits(next_seq))
  <2>2. p \in WirePacket /\ p.data = c
    BY BuiltPacket, BitsAreWord
  <2>3. window = <<p>>
    BY <2>1 DEF ChunkSent
  <2> HIDE DEF p
  <2>4. toReceiver = Datagram(p)
    BY <1>1, <2>3
  <2>5. Len(toReceiver) = 16 + Len(c) /\ Len(c) \in Nat
    BY <2>2, <2>4, DatagramBytes
  <2>6. bits \subseteq 0..(8 * Len(c) - 1)
    <3>1. \A n : n = 16 + Len(c) => 8 * (n - 16) - 1 = 8 * Len(c) - 1
      BY <2>5
    <3> QED
      BY <1>1, <2>5, <3>1
  <2>7. toReceiver' = Datagram(Spoiled(p, bits))
    BY <1>1, <2>2, <2>4, FlippedDatagram
  <2>8. ChunkDamaged(c, bits)
    BY <2>4, <2>6, <2>7 DEF ChunkDamaged, p
  <2> QED
    BY <1>2, <1>8, <2>1, <2>8
<1>9. CASE phase = "data" /\ toReceiver = <<>>
  BY <1>2, <1>4, <1>9
<1> QED
  BY <1>7, <1>8, <1>9

LEMMA DamageStep ==
  ASSUME WireInv, Damage
  PROVE  WireInv'
<1>1. UNCHANGED <<senderVars, receiverVars, toSender>>
  BY DamageCases
<1>2. CASE UNCHANGED toReceiver
  BY <1>1, <1>2, StutterStep DEF vars
<1>3. CASE /\ phase = "data"
           /\ \E c \in Seq(Byte), bits \in Damages : ChunkSent(c) /\ ChunkDamaged(c, bits)
  <2>1. PICK c \in Seq(Byte), bits \in Damages : ChunkSent(c) /\ ChunkDamaged(c, bits)
    BY <1>3
  <2>2. UNCHANGED <<file, phase, window, randSeqNum, offset, dataSeqNum,
                    connection, startACK, next_seq, output, toSender>>
    BY <1>1 DEF senderVars, receiverVars
  <2>3. ChunkSent(c)'
    <3>1. \E b \in Damages \cup {{}} :
            /\ b \subseteq 0..(8 * Len(c) - 1)
            /\ toReceiver' = Datagram(Spoiled(Packet(DATA, c, Bits(next_seq')), b))
      BY <2>1, <2>2 DEF ChunkDamaged
    <3>2. /\ Len(output') <= offset' /\ c = SubSeq(file', Len(output') + 1, offset')
          /\ Len(c) <= CHUNK_SIZE /\ dataSeqNum' = next_seq' + 1
          /\ window' = <<Packet(DATA, c, Bits(next_seq'))>> /\ toSender' = <<>>
      BY <2>1, <2>2 DEF ChunkSent
    <3> QED
      BY <3>1, <3>2 DEF ChunkSent
  <2>4. Transferring'
    <3>1. \E d \in Seq(Byte) : ChunkSent(d)'
      BY <2>3
    <3>2. startACK' = randSeqNum'
      BY <1>3, <2>2 DEF WireInv, Transferring
    <3> QED
      BY <3>1, <3>2 DEF Transferring
  <2>5. WireTypeOK'
    BY <2>2 DEF WireInv, WireTypeOK
  <2>6. (Bursts => output = SubSeq(file, 1, Len(output)))'
    BY <2>2 DEF WireInv, Bursts
  <2> QED
    BY <1>3, <2>2, <2>4, <2>5, <2>6 DEF WireInv
<1> QED
  BY <1>2, <1>3, DamageCases

(* What the receiver does with the packet that is under way: a START, an   *)
(* END, a chunk as it was sent, or a damaged one.                          *)
Answering(w) == \E rest \in Garbage : toSender' = toBuffer(w, rest)

StartArrives ==
  /\ toReceiver = Datagram(Packet(START, <<>>, randSeqNum))
  /\ connection' = TRUE /\ startACK' = randSeqNum /\ next_seq' = 0
  /\ Answering(randSeqNum) /\ UNCHANGED output

EndArrives ==
  /\ toReceiver = Datagram(Packet(END, <<>>, randSeqNum))
  /\ connection' = FALSE /\ startACK = randSeqNum
  /\ Answering(randSeqNum) /\ UNCHANGED <<startACK, next_seq, output>>

ChunkArrives(c, q) ==
  /\ \E bits \in Damages \cup {{}} :
       /\ bits \subseteq 0..(8 * Len(c) - 1)
       /\ q = Spoiled(Packet(DATA, c, Bits(next_seq)), bits)
       /\ Bursts /\ q.checksum = crc32(q.data) => bits = {}
  /\ toReceiver = Datagram(q)
  /\ IF q.checksum = crc32(q.data)
       THEN /\ output' = output \o q.data /\ next_seq' = next_seq + 1
            /\ Answering(Bits(next_seq + 1))
       ELSE UNCHANGED <<output, next_seq, toSender>>
  /\ UNCHANGED <<connection, startACK>>

LEMMA ReceiveCases ==
  ASSUME WireInv, Receive
  PROVE  /\ toReceiver # <<>> /\ toReceiver' = <<>> /\ UNCHANGED senderVars
         /\ toSender = <<>>
         /\ \/ phase = "start" /\ StartArrives
            \/ phase = "end" /\ EndArrives
            \/ /\ phase = "data"
               /\ \E c \in Seq(Byte), q \in WirePacket : ChunkSent(c) /\ ChunkArrives(c, q)
<1>1. /\ WireTypeOK /\ toReceiver # <<>> /\ toReceiver' = <<>> /\ UNCHANGED senderVars
  BY DEF WireInv, Receive
<1>2. ASSUME NEW w \in Word, sendAck(w)
      PROVE  Answering(w)
  BY <1>2 DEF sendAck, Answering
<1>3. CASE phase \in {"start", "end"}
  <2>1. PICK type \in {START, END} :
          /\ toReceiver = Datagram(Packet(type, <<>>, randSeqNum)) /\ toSender = <<>>
          /\ type = IF phase = "start" THEN START ELSE END
    BY <1>1, <1>3 DEF WireInv, Starting, Ending, Acked
  <2> DEFINE p == Packet(type, <<>>, randSeqNum)
  <2>2. p \in WirePacket /\ p.type = type /\ p.seqNum = randSeqNum /\ p.data = <<>>
    BY <1>1, <2>1, EmptyPacket DEF WireTypeOK
  <2> HIDE DEF p
  <2>3. Len(p.data) <= CHUNK_SIZE
    <3>1. Len(<<>>) = 0
      OBVIOUS
    <3> QED
      BY <2>2, <3>1, WireAssumption
  <2>4. StartReceived(p) \/ EndReceived(p) \/ DataReceived(p)
    BY <2>1, <2>2, <2>3, ReceivesPacket DEF p
  <2>5. CASE phase = "start"
    <3>1. StartReceived(p)
      BY <2>1, <2>2, <2>4, <2>5, ThreeTypes DEF EndReceived, DataReceived
    <3>2. StartArrives
      BY <1>1, <1>2, <2>1, <2>2, <2>5, <3>1 DEF StartReceived, StartArrives, WireTypeOK
    <3> QED
      BY <1>1, <2>1, <2>5, <3>2
  <2>6. CASE phase = "end"
    <3>1. EndReceived(p)
      BY <2>1, <2>2, <2>4, <2>6, ThreeTypes DEF StartReceived, DataReceived
    <3>2. startACK = randSeqNum
      BY <2>6 DEF WireInv, Ending
    <3>3. EndArrives
      BY <1>1, <1>2, <2>1, <2>6, <3>1, <3>2 DEF EndReceived, EndArrives, WireTypeOK
    <3> QED
      BY <1>1, <2>1, <2>6, <3>3
  <2> QED
    BY <1>3, <2>5, <2>6
<1>4. CASE phase = "data"
  <2>1. PICK c \in Seq(Byte) : ChunkSent(c)
    BY <1>1, <1>4, BuffersAreNotEmpty, BitsAreWord
       DEF WireInv, Transferring, UpToDate, Silent, Acked
  <2> DEFINE p == Packet(DATA, c, Bits(next_seq))
  <2>2. PICK bits \in Damages \cup {{}} :
          /\ bits \subseteq 0..(8 * Len(c) - 1)
          /\ toReceiver = Datagram(Spoiled(p, bits))
    BY <1>1, <2>1 DEF ChunkSent
  <2> DEFINE q == Spoiled(p, bits)
  <2>3. /\ p \in WirePacket /\ p.type = DATA /\ p.seqNum = Bits(next_seq) /\ p.data = c
        /\ p.checksum = crc32(c)
    BY BuiltPacket, BitsAreWord
  <2>4. q = Spoiled(Packet(DATA, c, Bits(next_seq)), bits)
    OBVIOUS
  <2> HIDE DEF p
  <2>5. /\ q \in WirePacket /\ q.type = DATA /\ q.seqNum = Bits(next_seq)
        /\ q.checksum = crc32(c) /\ q.data = Flip(c, bits)
    BY <2>3, SpoiledPacket
  <2>6. Len(q.data) <= CHUNK_SIZE /\ toReceiver = Datagram(q)
    BY <2>1, <2>2, <2>5, FlippedData DEF ChunkSent
  <2> HIDE DEF q
  <2>7. StartReceived(q) \/ EndReceived(q) \/ DataReceived(q)
    BY <2>5, <2>6, ReceivesPacket
  <2>8. DataReceived(q)
    BY <2>5, <2>7, ThreeTypes DEF StartReceived, EndReceived
  <2>9. Bursts /\ q.checksum = crc32(q.data) => bits = {}
    BY <2>2, <2>5, SpoiledIsDetected
  <2>10. IF q.checksum = crc32(q.data)
           THEN /\ output' = output \o q.data /\ next_seq' = next_seq + 1
                /\ Answering(Bits(next_seq + 1))
           ELSE UNCHANGED <<output, next_seq, toSender>>
    BY <1>2, <2>5, <2>8, BitsAreWord DEF DataReceived
  <2>11. ChunkArrives(c, q)
    BY <2>2, <2>4, <2>6, <2>8, <2>9, <2>10 DEF ChunkArrives, DataReceived
  <2>12. toSender = <<>>
    BY <2>1 DEF ChunkSent
  <2> QED
    BY <1>1, <1>4, <2>1, <2>5, <2>11, <2>12
<1>5. CASE phase \in {"idle", "open", "done"}
  BY <1>1, <1>5 DEF WireInv, Idle, Opened, Done, Silent
<1> QED
  BY <1>1, <1>3, <1>4, <1>5 DEF WireTypeOK

(* A chunk that passes is the next of the file. *)
LEMMA ReceiveStep ==
  ASSUME WireInv, Receive
  PROVE  WireInv'
<1>1. WireTypeOK /\ Len(file) \in Nat
  BY LenProperties DEF WireInv, WireTypeOK
<1>2. toReceiver' = <<>> /\ UNCHANGED senderVars
  BY ReceiveCases
<1>3. CASE phase = "start" /\ StartArrives
  <2>1. Starting'
    BY <1>2, <1>3 DEF WireInv, Starting, Acked, senderVars, StartArrives, Answering
  <2>2. WireTypeOK'
    BY <1>1, <1>2, <1>3 DEF WireTypeOK, senderVars, StartArrives
  <2>3. (Bursts => output = SubSeq(file, 1, Len(output)))'
    BY <1>2, <1>3 DEF WireInv, Bursts, senderVars, StartArrives
  <2> QED
    BY <1>2, <1>3, <2>1, <2>2, <2>3 DEF WireInv, senderVars
<1>4. CASE phase = "end" /\ EndArrives
  <2>1. Ending'
    BY <1>2, <1>4 DEF WireInv, Ending, Acked, senderVars, EndArrives, Answering
  <2>2. WireTypeOK'
    BY <1>1, <1>2, <1>4 DEF WireTypeOK, senderVars, EndArrives
  <2>3. (Bursts => output = SubSeq(file, 1, Len(output)))'
    BY <1>2, <1>4 DEF WireInv, Bursts, senderVars, EndArrives
  <2> QED
    BY <1>2, <1>4, <2>1, <2>2, <2>3 DEF WireInv, senderVars
<1>5. CASE /\ phase = "data"
           /\ \E c \in Seq(Byte), q \in WirePacket : ChunkSent(c) /\ ChunkArrives(c, q)
  <2>1. PICK c \in Seq(Byte), q \in WirePacket : ChunkSent(c) /\ ChunkArrives(c, q)
    BY <1>5
  <2>2. startACK' = randSeqNum'
    BY <1>2, <1>5, <2>1 DEF WireInv, Transferring, ChunkArrives, senderVars
  <2>3. CASE q.checksum # crc32(q.data)
    <3>1. UNCHANGED <<output, next_seq, toSender>>
      BY <2>1, <2>3 DEF ChunkArrives
    <3>2. ChunkSent(c)'
      BY <1>2, <2>1, <3>1 DEF ChunkSent, senderVars
    <3>3. Transferring'
      <4>1. \E d \in Seq(Byte) : ChunkSent(d)'
        BY <3>2
      <4> QED
        BY <2>2, <4>1 DEF Transferring
    <3>4. WireTypeOK'
      BY <1>1, <1>2, <2>1, <3>1 DEF WireTypeOK, senderVars, ChunkArrives
    <3>5. (Bursts => output = SubSeq(file, 1, Len(output)))'
      BY <1>2, <3>1 DEF WireInv, Bursts, senderVars
    <3> QED
      BY <1>2, <1>5, <3>3, <3>4, <3>5 DEF WireInv, senderVars
  <2>4. CASE q.checksum = crc32(q.data)
    <3>0. /\ output' = output \o q.data /\ next_seq' = next_seq + 1
          /\ Answering(Bits(next_seq + 1)) /\ startACK' = startACK
      BY <2>1, <2>4 DEF ChunkArrives
    <3>1. PICK bits \in Damages \cup {{}} :
            /\ q = Spoiled(Packet(DATA, c, Bits(next_seq)), bits)
            /\ Bursts => bits = {}
      BY <2>1, <2>4 DEF ChunkArrives
    <3>2. /\ output \in Seq(Byte) /\ Len(output) \in Nat /\ Len(output) <= offset
          /\ offset \in 0..Len(file) /\ c = SubSeq(file, Len(output) + 1, offset)
          /\ dataSeqNum = next_seq + 1 /\ window # <<>>
      BY <1>1, <2>1, LenProperties DEF WireTypeOK, ChunkSent
    <3>3. Len(c) = offset - Len(output)
      <4> DEFINE m == Len(output)
      <4>1. m \in Nat /\ offset \in Nat /\ m <= offset
        BY <1>1, <3>2
      <4>2. \A i \in (m + 1)..offset : file[i] \in Byte
        <5>1. \A i \in (m + 1)..offset : i \in 1..Len(file)
          BY <1>1, <3>2
        <5> QED
          BY <1>1, <5>1, ElementOfSeq DEF WireTypeOK
      <4> HIDE DEF m
      <4>3. m + 1 \in Int /\ offset \in Int
        BY <4>1
      <4>4. Len(c) = IF m + 1 <= offset THEN offset - (m + 1) + 1 ELSE 0
        BY <3>2, <4>2, <4>3, SubSeqProperties DEF m
      <4>5. Len(c) = offset - m
        BY <4>1, <4>4
      <4> QED
        BY <4>5 DEF m
    <3>4. /\ q.data = Flip(c, bits) /\ q.data \in Seq(Byte) /\ Len(q.data) = Len(c)
          /\ Bursts => q.data = c
      <4> DEFINE p == Packet(DATA, c, Bits(next_seq))
      <4>1. p \in WirePacket /\ p.data = c
        BY BuiltPacket, BitsAreWord
      <4>2. q = Spoiled(p, bits)
        BY <3>1
      <4> HIDE DEF p
      <4>3. q.data = Flip(c, bits)
        BY <4>1, <4>2, SpoiledPacket
      <4>4. q.data \in Seq(Byte) /\ Len(q.data) = Len(c)
        BY <4>3, FlippedData
      <4>5. Bursts => q.data = c
        BY <3>1, <4>1, <4>2, NotSpoiled
      <4> QED
        BY <4>3, <4>4, <4>5
    <3>5. output' \in Seq(Byte) /\ Len(output') = offset
      <4>1. output' \in Seq(Byte) /\ Len(output') = Len(output) + Len(q.data)
        BY <3>0, <3>2, <3>4, ConcatProperties
      <4>2. offset \in Nat
        BY <1>1, <3>2
      <4>3. \A m, n \in Nat : m + (n - m) = n
        OBVIOUS
      <4>4. Len(output) + (offset - Len(output)) = offset
        BY <3>2, <4>2, <4>3
      <4> QED
        BY <3>3, <3>4, <4>1, <4>4
    <3>6. Transferring'
      <4>1. UpToDate'
        BY <1>2, <3>0, <3>2, <3>5 DEF UpToDate, Acked, Answering, senderVars
      <4> QED
        BY <2>2, <4>1 DEF Transferring
    <3>7. WireTypeOK'
      BY <1>1, <1>2, <3>0, <3>5 DEF WireTypeOK, senderVars
    <3>8. ASSUME Bursts
          PROVE  output' = SubSeq(file, 1, offset)
      <4>1. output = SubSeq(file, 1, Len(output))
        BY <3>8 DEF WireInv
      <4>2. /\ 1 \in 1..(Len(file) + 1) /\ Len(output) \in (1 - 1)..Len(file)
            /\ offset \in Len(output)..Len(file)
        BY <1>1, <3>2
      <4>3. SubSeq(file, 1, Len(output)) \o SubSeq(file, Len(output) + 1, offset)
              = SubSeq(file, 1, offset)
        BY <1>1, <4>2, ConcatAdjacentSubSeq DEF WireTypeOK
      <4> QED
        BY <3>0, <3>2, <3>4, <3>8, <4>1, <4>3
    <3>9. (Bursts => output = SubSeq(file, 1, Len(output)))'
      BY <1>2, <3>5, <3>8 DEF Bursts, senderVars
    <3> QED
      BY <1>2, <1>5, <3>6, <3>7, <3>9 DEF WireInv, senderVars
  <2> QED
    BY <2>3, <2>4
<1> QED
  BY <1>3, <1>4, <1>5, ReceiveCases

LEMMA WireStep == WireInv /\ [Next]_vars => WireInv'
<1> SUFFICES ASSUME WireInv, [Next]_vars PROVE WireInv'
  OBVIOUS
<1>1. CASE Launch
  BY <1>1, LaunchStep
<1>2. CASE OpenFile
  BY <1>2, OpenFileStep
<1>3. CASE SendData
  BY <1>3, SendDataStep
<1>4. CASE EndConnection
  BY <1>4, EndConnectionStep
<1>5. CASE Retransmit
  BY <1>5, RetransmitStep
<1>6. CASE Answered
  BY <1>6, AnsweredStep
<1>7. CASE Damage
  BY <1>7, DamageStep
<1>8. CASE Receive
  BY <1>8, ReceiveStep
<1>9. CASE UNCHANGED vars
  BY <1>9, StutterStep
<1> QED
  BY <1>1, <1>2, <1>3, <1>4, <1>5, <1>6, <1>7, <1>8, <1>9 DEF Next

LEMMA WireInvariant == Spec => []WireInv
BY WireInit, WireStep, PTL DEF Spec

(* Whatever bytes the file has and however many, for any size of a chunk   *)
(* and any damage of DATA within 32 bits, what the receiver writes is the  *)
(* beginning of the file, and the file when END is sent.                   *)
THEOREM OutputStaysTheFile ==
  ASSUME Bursts
  PROVE  Spec => []OutputIsTheFile
<1>1. WireInv => OutputIsTheFile
  <2> SUFFICES ASSUME WireInv PROVE OutputIsTheFile
    OBVIOUS
  <2>1. output \in Seq(Byte) /\ file \in Seq(Byte) /\ Len(file) \in Nat
        /\ offset \in 0..Len(file)
    BY LenProperties DEF WireInv, WireTypeOK
  <2>2. output = SubSeq(file, 1, Len(output))
    BY DEF WireInv
  <2>3. Len(output) <= Len(file)
    <3>1. phase \in {"idle", "start", "open"} => output = <<>>
      BY DEF WireInv, Idle, Starting, Opened
    <3>2. phase = "data" => Len(output) <= offset
      <4> SUFFICES ASSUME phase = "data" PROVE Len(output) <= offset
        OBVIOUS
      <4>1. Len(output) \in Nat /\ offset \in Nat
        BY <2>1, LenProperties
      <4>2. UpToDate \/ \E c \in Seq(Byte) : ChunkSent(c)
        BY DEF WireInv, Transferring
      <4>3. CASE UpToDate
        BY <4>1, <4>3 DEF UpToDate
      <4>4. CASE \E c \in Seq(Byte) : ChunkSent(c)
        BY <4>1, <4>4 DEF ChunkSent
      <4> QED
        BY <4>2, <4>3, <4>4
    <3>3. phase \in {"end", "done"} => Len(output) = Len(file)
      BY DEF WireInv, Ending, Done
    <3>4. Len(<<>>) = 0
      OBVIOUS
    <3> QED
      BY <2>1, <3>1, <3>2, <3>3, <3>4 DEF WireInv, WireTypeOK
  <2>4. SubSeq(output, 1, Len(output)) = output /\ SubSeq(file, 1, Len(file)) = file
    BY <2>1, SubSeqFull
  <2>5. phase \in {"end", "done"} => output = file
    BY <2>2, <2>4 DEF WireInv, Ending, Done
  <2> QED
    BY <2>2, <2>3, <2>4, <2>5 DEF OutputIsTheFile, IsPrefix
<1> QED
  BY <1>1, WireInvariant, PTL

(* And no DATA packet damaged within 32 bits passes the receiver's test.   *)
THEOREM DamageIsAlwaysDetected ==
  ASSUME Bursts
  PROVE  Spec => []DamageIsDetected
<1>1. WireInv => DamageIsDetected
  <2> SUFFICES ASSUME WireInv, toReceiver # <<>>, toReceiver # Datagram(Head(window))
               PROVE  LET p == Packet1(toReceiver) IN p.checksum # crc32(p.data)
    BY DEF DamageIsDetected
  <2>1. phase = "data"
    <3>1. \A p : window = <<p>> => Head(window) = p
      OBVIOUS
    <3> QED
      BY <3>1 DEF WireInv, WireTypeOK, Idle, Starting, Opened, Ending, Done, Silent, Acked
  <2>2. PICK c \in Seq(Byte) : ChunkSent(c)
    BY <2>1, BuffersAreNotEmpty, BitsAreWord
       DEF WireInv, Transferring, UpToDate, Silent, Acked
  <2> DEFINE p == Packet(DATA, c, Bits(next_seq))
  <2>3. PICK bits \in Damages \cup {{}} :
          /\ bits \subseteq 0..(8 * Len(c) - 1)
          /\ toReceiver = Datagram(Spoiled(p, bits))
    BY <2>2 DEF ChunkSent
  <2>4. p \in WirePacket /\ p.data = c /\ p.checksum = crc32(c)
    BY BuiltPacket, BitsAreWord
  <2>5. window = <<p>>
    BY <2>2 DEF ChunkSent
  <2> HIDE DEF p
  <2>6. bits # {}
    <3>1. Head(window) = p
      BY <2>5
    <3> QED
      BY <2>3, <2>4, <3>1, NotSpoiled
  <2> DEFINE q == Spoiled(p, bits)
  <2>7. q \in WirePacket /\ q.checksum = crc32(c) /\ q.data = Flip(c, bits)
    BY <2>4, SpoiledPacket
  <2>8. Len(q.data) <= CHUNK_SIZE
    BY <2>2, <2>7, FlippedData DEF ChunkSent
  <2>9. crc32(c) # crc32(Flip(c, bits))
    BY <2>3, <2>6, SpoiledIsDetected
  <2>10. toReceiver = Datagram(q)
    BY <2>3
  <2> HIDE DEF q
  <2>11. Packet1(toReceiver) = q
    BY <2>7, <2>8, <2>10, ReceiverReads
  <2> QED
    BY <2>7, <2>9, <2>11
<1> QED
  BY <1>1, WireInvariant, PTL

(* Every ACK, though a buffer with an uninitialised end that is cut down   *)
(* to a shorter one, is read as a valid ACK of the number that was meant,  *)
(* whatever the damage to DATA.                                            *)
THEOREM AcksAlwaysReadBack == Spec => []AckReadsBack
<1>1. WireInv => AckReadsBack
  <2> SUFFICES ASSUME WireInv, toSender # <<>>
               PROVE  LET p == receiveAck(toSender) IN
                      /\ p.type = ACK /\ isAckValid(p)
                      /\ p.seqNum = IF phase = "data" THEN Bits(next_seq) ELSE randSeqNum
    BY DEF AckReadsBack
  <2> DEFINE w == IF phase = "data" THEN Bits(next_seq) ELSE randSeqNum
  <2>1. Acked(w)
    BY DEF WireInv, WireTypeOK, Idle, Starting, Opened, Transferring, UpToDate,
           ChunkSent, Ending, Done, Silent
  <2>2. w \in Word
    BY BitsAreWord DEF WireInv, WireTypeOK
  <2>3. PICK rest \in Garbage : toSender = toBuffer(w, rest)
    BY <2>1 DEF Acked
  <2>4. rest \in Byte
    BY WireAssumption
  <2> HIDE DEF w
  <2>5. receiveAck(toSender).type = ACK /\ receiveAck(toSender).seqNum = w
        /\ isAckValid(receiveAck(toSender))
    BY <2>2, <2>3, <2>4, SenderReads
  <2> QED
    BY <2>5 DEF w
<1> QED
  BY <1>1, WireInvariant, PTL

(* The datagrams the sender and the network make carry a data section of   *)
(* bytes that the receiver reads whole.                                    *)
LEMMA ReceiverReadsBytes ==
  ASSUME WireInv, toReceiver # <<>>
  PROVE  Packet1(toReceiver).data \in Seq(Byte)
<1>1. ASSUME NEW q \in WirePacket, toReceiver = Datagram(q), Len(q.data) <= CHUNK_SIZE
      PROVE  Packet1(toReceiver).data \in Seq(Byte)
  BY <1>1, ReceiverReads DEF WirePacket
<1>2. CASE phase \in {"start", "end"}
  <2>1. PICK type \in {START, END} :
          toReceiver = Datagram(Packet(type, <<>>, randSeqNum))
    BY <1>2 DEF WireInv, Starting, Ending, Acked
  <2>2. LET p == Packet(type, <<>>, randSeqNum) IN p \in WirePacket /\ p.data = <<>>
    BY EmptyPacket DEF WireInv, WireTypeOK
  <2>3. Len(<<>>) <= CHUNK_SIZE
    <3>1. Len(<<>>) = 0
      OBVIOUS
    <3> QED
      BY <3>1, WireAssumption
  <2> QED
    BY <1>1, <2>1, <2>2, <2>3
<1>3. CASE phase = "data"
  <2>1. PICK c \in Seq(Byte) : ChunkSent(c)
    BY <1>3, BuffersAreNotEmpty, BitsAreWord
       DEF WireInv, Transferring, UpToDate, Silent, Acked
  <2> DEFINE p == Packet(DATA, c, Bits(next_seq))
  <2>2. PICK bits \in Damages \cup {{}} :
          /\ bits \subseteq 0..(8 * Len(c) - 1)
          /\ toReceiver = Datagram(Spoiled(p, bits))
    BY <2>1 DEF ChunkSent
  <2> DEFINE q == Spoiled(p, bits)
  <2>3. p \in WirePacket /\ p.data = c
    BY BuiltPacket, BitsAreWord
  <2> HIDE DEF p
  <2>4. q \in WirePacket /\ q.data = Flip(c, bits)
    BY <2>3, SpoiledPacket
  <2>5. toReceiver = Datagram(q) /\ Len(q.data) <= CHUNK_SIZE
    BY <2>1, <2>2, <2>4, FlippedData DEF ChunkSent
  <2> QED
    BY <1>1, <2>4, <2>5
<1>4. CASE phase \in {"idle", "open", "done"}
  BY <1>4 DEF WireInv, Idle, Opened, Done, Silent
<1> QED
  BY <1>2, <1>3, <1>4 DEF WireInv, WireTypeOK

(* The receiver's checksum, table and all, is the CRC-32 of every data     *)
(* section that reaches it, damaged in whatever way or not at all.         *)
THEOREM ChecksumsAreCrcs == Spec => []ChecksumIsCrc
<1>1. WireInv => ChecksumIsCrc
  BY ReceiverReadsBytes, ChecksumIsRemainder DEF ChecksumIsCrc
<1> QED
  BY <1>1, WireInvariant, PTL
===========================================================================

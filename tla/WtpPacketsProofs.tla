------------------------- MODULE WtpPacketsProofs -------------------------
(***************************************************************************)
(* The transfer on the wire implements BaseTransfer, whatever the file,    *)
(* its length and the size of a chunk.                                     *)
(*                                                                         *)
(* A number on the wire tells which chunk is meant (BitsTell), and the     *)
(* bytes behind it are that chunk because what was sent and what was       *)
(* written are always whole chunks of the file, but for its end (Cut).     *)
(* Each step of sender, network and receiver is then shown to be the step  *)
(* of the same name.                                                       *)
(***************************************************************************)
EXTENDS WtpWireRefinement, WtpWireProofs

---------------------------------------------------------------------------
(* Numbers and their bits. *)

LEMMA Doubles == \A i \in 0..30 : 2^i \in Nat \ {0} /\ 2^(i + 1) = 2 * 2^i
<1> DEFINE D(i) == 2^i \in Nat \ {0} /\ 2^(i + 1) = 2 * 2^i
<1>1. /\ D(0) /\ D(1) /\ D(2) /\ D(3) /\ D(4) /\ D(5) /\ D(6) /\ D(7)
      /\ D(8) /\ D(9) /\ D(10) /\ D(11) /\ D(12) /\ D(13) /\ D(14) /\ D(15)
  OBVIOUS
<1>2. /\ D(16) /\ D(17) /\ D(18) /\ D(19) /\ D(20) /\ D(21) /\ D(22) /\ D(23)
      /\ D(24) /\ D(25) /\ D(26) /\ D(27) /\ D(28) /\ D(29) /\ D(30)
  OBVIOUS
<1> HIDE DEF D
<1>3. \A i \in 0..30 : D(i)
  BY <1>1, <1>2
<1> QED
  BY <1>3 DEF D

LEMMA Halves ==
  ASSUME NEW b \in Nat \ {0}, NEW a \in Nat
  PROVE  a \div b \in Nat /\ (a \div b) \div 2 = a \div (2 * b)
OBVIOUS

LEMMA BitsTell ==
  ASSUME NEW m \in Nat, NEW n \in Nat, m < 2^30, n < 2^30, Bits(m) = Bits(n)
  PROVE  m = n
<1> DEFINE T == {k \in Nat : m \div 2^(30 - k) = n \div 2^(30 - k)}
<1>1. 0 \in T
  <2>1. 30 - 0 = 30 /\ 2^30 = 1073741824
    OBVIOUS
  <2>2. m \div 1073741824 = 0 /\ n \div 1073741824 = 0
    BY <2>1
  <2> QED
    BY <2>1, <2>2
<1>2. ASSUME NEW k \in 0..29, k \in T
      PROVE  k + 1 \in T
  <2> DEFINE i == 30 - (k + 1)
  <2>1. i \in 0..30 /\ i + 1 = 30 - k
    OBVIOUS
  <2>2. (m \div 2^i) % 2 = 1 <=> (n \div 2^i) % 2 = 1
    BY <2>1 DEF Bits
  <2> HIDE DEF i
  <2>3. 2^i \in Nat \ {0} /\ 2^(30 - k) = 2 * 2^i
    BY <2>1, Doubles
  <2>4. m \div (2 * 2^i) = n \div (2 * 2^i)
    BY <1>2, <2>3
  <2> DEFINE x == m \div 2^i
             y == n \div 2^i
  <2>5. x \in Nat /\ y \in Nat /\ x \div 2 = y \div 2
    BY <2>3, <2>4, Halves
  <2>6. x % 2 = 1 <=> y % 2 = 1
    BY <2>2
  <2> HIDE DEF x, y
  <2>7. x = y
    BY <2>5, <2>6
  <2> QED
    BY <2>7 DEF i, x, y
<1> HIDE DEF T
<1>3. 30 \in Nat /\ 30 - 1 = 29
  OBVIOUS
<1>4. 30 \in T
  BY <1>1, <1>2, <1>3, UpTo
<1>5. 30 - 30 = 0 /\ 2^0 = 1 /\ m \div 1 = m /\ n \div 1 = n
  OBVIOUS
<1> QED
  BY <1>4, <1>5 DEF T

LEMMA ChunkCount == Chunks(Sent) \in Nat
<1>1. Len(Sent) \in Nat /\ CHUNK_SIZE \in Nat \ {0}
  BY SentAssumption, WireAssumption, LenProperties
<1>2. \A m \in Nat, k \in Nat \ {0} : (m + k - 1) \div k \in Nat
  OBVIOUS
<1> QED
  BY <1>1, <1>2 DEF Chunks

LEMMA NumbersOfPackets ==
  ASSUME NEW r \in StartSeqs, NEW n \in 0..Chunks(Sent)
  PROVE  /\ Chunks(Sent) \in Nat
         /\ SeqNumber(r, r) = StartNumber /\ SeqNumber(r, Bits(n)) = n
         /\ Bits(n) # r /\ r # {}
<1>1. Chunks(Sent) \in Nat /\ Chunks(Sent) < 2^30
  BY ChunkCount, SentAssumption
<1>2. \A m \in 0..Chunks(Sent) : Bits(m) = Bits(n) => m = n
  <2>1. \A m \in 0..Chunks(Sent) : m \in Nat /\ m < 2^30
    BY <1>1
  <2> QED
    BY <1>1, <2>1, BitsTell
<1>3. Bits(n) # r /\ Bits(0) # r
  BY <1>1, SentAssumption
<1>4. Bits(0) = {}
  <2>1. ASSUME NEW i \in Bits(0)
        PROVE  FALSE
    <3> DEFINE b == 2^i
    <3>1. i \in 0..30 /\ (0 \div b) % 2 = 1
      BY <2>1 DEF Bits
    <3>2. b \in Nat \ {0}
      BY <3>1, Doubles
    <3> HIDE DEF b
    <3>3. 0 \div b = 0
      BY <3>2
    <3> QED
      BY <3>1, <3>3
  <2> QED
    BY <2>1
<1>5. (CHOOSE m \in 0..Chunks(Sent) : Bits(m) = Bits(n)) = n
  BY <1>2
<1> QED
  BY <1>1, <1>3, <1>4, <1>5 DEF SeqNumber

---------------------------------------------------------------------------
(* The file in chunks.  The first `len' of l bytes are n chunks.           *)
Cut(l, len, n) ==
  /\ len <= n * CHUNK_SIZE
  /\ len = n * CHUNK_SIZE \/ len = l
  /\ n = 0 \/ (n - 1) * CHUNK_SIZE < len

LEMMA CutNumbers ==
  ASSUME NEW l \in Nat, NEW len \in 0..l, NEW n \in Nat, Cut(l, len, n)
  PROVE  LET m == (l + CHUNK_SIZE - 1) \div CHUNK_SIZE IN
         /\ (len + CHUNK_SIZE - 1) \div CHUNK_SIZE = n
         /\ n \in 0..m
         /\ IF len < l THEN len = n * CHUNK_SIZE /\ n < m ELSE n = m
<1>0. CHUNK_SIZE \in Nat \ {0}
  BY WireAssumption
<1> DEFINE c == CHUNK_SIZE
           d == n * c - len
<1>1. n * c \in Nat /\ len <= n * c /\ (len = n * c \/ len = l)
      /\ (n = 0 \/ (n - 1) * c < len)
  BY <1>0 DEF Cut
<1>2. d \in 0..(c - 1)
  <2>1. CASE n = 0
    BY <1>0, <1>1, <2>1
  <2>2. CASE n # 0
    <3>1. (n - 1) * c = n * c - c
      BY <1>0
    <3> QED
      BY <1>0, <1>1, <2>2, <3>1
  <2> QED
    BY <2>1, <2>2
<1>3. \A q \in Nat, r \in 0..(c - 1) : (c * q + r) \div c = q
  BY <1>0
<1>4. (len + c - 1) \div c = n
  <2>1. len + c - 1 = c * n + (c - 1 - d) /\ c - 1 - d \in 0..(c - 1)
    <3>1. c * n = n * c
      BY <1>0
    <3> QED
      BY <1>0, <1>1, <1>2, <3>1
  <2> QED
    BY <1>3, <2>1
<1>5. CASE len = l
  BY <1>4, <1>5
<1>6. CASE len < l
  <2> DEFINE m == (l + c - 1) \div c
  <2>1. len = n * c
    BY <1>1, <1>6
  <2>2. m \in Nat /\ l <= m * c
    BY <1>0
  <2> HIDE DEF m
  <2>3. n < m
    <3>1. SUFFICES ASSUME m <= n PROVE FALSE
      BY <2>2
    <3>2. m * c <= n * c
      BY <1>0, <2>2, <3>1
    <3>3. m * c \in Nat
      BY <1>0, <2>2
    <3> QED
      BY <1>0, <1>1, <1>6, <2>1, <2>2, <3>2, <3>3
  <2> QED
    BY <1>4, <1>6, <2>1, <2>2, <2>3 DEF m
<1> QED
  BY <1>4, <1>5, <1>6

(* One chunk more. *)
LEMMA CutNext ==
  ASSUME NEW l \in Nat, NEW len \in 0..l, NEW n \in Nat, Cut(l, len, n), len < l,
         NEW size, size = IF CHUNK_SIZE <= l - len THEN CHUNK_SIZE ELSE l - len
  PROVE  Cut(l, len + size, n + 1)
<1>0. CHUNK_SIZE \in Nat \ {0}
  BY WireAssumption
<1>1. len = n * CHUNK_SIZE /\ n * CHUNK_SIZE \in Nat
  BY <1>0 DEF Cut
<1>2. (n + 1) * CHUNK_SIZE = n * CHUNK_SIZE + CHUNK_SIZE /\ n + 1 - 1 = n
  BY <1>0
<1> QED
  BY <1>0, <1>1, <1>2 DEF Cut

(* What the sender cuts off is the next chunk. *)
LEMMA NextChunk ==
  ASSUME NEW f \in Seq(Byte), NEW n \in Nat, n * CHUNK_SIZE < Len(f),
         NEW size, size = IF CHUNK_SIZE <= Len(f) - n * CHUNK_SIZE
                            THEN CHUNK_SIZE ELSE Len(f) - n * CHUNK_SIZE
  PROVE  ChunkOf(f, n) = SubSeq(f, n * CHUNK_SIZE + 1, n * CHUNK_SIZE + size)
<1> DEFINE a == n * CHUNK_SIZE
<1>0. CHUNK_SIZE \in Nat \ {0} /\ Len(f) \in Nat /\ a \in Nat
  BY WireAssumption, LenProperties
<1>1. (n + 1) * CHUNK_SIZE = a + CHUNK_SIZE
  BY <1>0
<1>2. size = IF CHUNK_SIZE <= Len(f) - a THEN CHUNK_SIZE ELSE Len(f) - a
  OBVIOUS
<1> HIDE DEF a
<1>3. Min({a + CHUNK_SIZE, Len(f)}) = IF a + CHUNK_SIZE <= Len(f) THEN a + CHUNK_SIZE
                                      ELSE Len(f)
  BY <1>0, LeastOfTwo
<1>4. Min({a + CHUNK_SIZE, Len(f)}) = a + size
  BY <1>0, <1>2, <1>3
<1> QED
  BY <1>1, <1>4 DEF ChunkOf, a

(* What is cut from the beginning of a sequence is cut from it. *)
LEMMA CutOfBeginning ==
  ASSUME NEW s \in Seq(Byte), NEW j \in 1..Len(s), NEW m \in 1..j, NEW n \in 1..j
  PROVE  SubSeq(SubSeq(s, 1, j), m, n) = SubSeq(s, m, n)
<1>1. m \in 1..(j - 1 + 1) /\ n \in 1..(j - 1 + 1) /\ 1 \in 1..Len(s)
  BY LenProperties
<1>2. SubSeq(SubSeq(s, 1, j), m, n) = SubSeq(s, 1 + m - 1, 1 + n - 1)
  BY <1>1, SubSeqOfSubSeq
<1>3. 1 + m - 1 = m /\ 1 + n - 1 = n
  OBVIOUS
<1> QED
  BY <1>2, <1>3

(* The first n chunks of the file are those of its first bytes. *)
LEMMA ChunksOfBeginning ==
  ASSUME Sent \in Seq(Byte), NEW len \in 0..Len(Sent), NEW n \in Nat,
         Cut(Len(Sent), len, n)
  PROVE  AsChunks(SubSeq(Sent, 1, len)) =
           [k \in 1..n |-> [of |-> Sent, idx |-> k - 1]]
<1> DEFINE c == CHUNK_SIZE
           l == Len(Sent)
           b == SubSeq(Sent, 1, len)
<1>0. c \in Nat \ {0} /\ l \in Nat /\ len \in Nat /\ len <= l
  BY WireAssumption, LenProperties
<1>1. b \in Seq(Byte) /\ Len(b) = len
  <2>1. \A i \in 1..len : Sent[i] \in Byte
    BY <1>0, ElementOfSeq
  <2>2. /\ b \in Seq(Byte) /\ Len(b) = IF 1 <= len THEN len - 1 + 1 ELSE 0
    BY <1>0, <2>1, SubSeqProperties
  <2> QED
    BY <1>0, <2>2
<1> HIDE DEF b
<1>2. Chunks(b) = n
  BY <1>0, <1>1, CutNumbers DEF Chunks
<1>3. ASSUME NEW k \in 1..n
      PROVE  ChunkOf(b, k - 1) = ChunkOf(Sent, k - 1)
  <2> DEFINE s == (k - 1) * c
             e == k * c
  <2>1. s \in Nat /\ e \in Nat /\ e = s + c /\ (k - 1) + 1 = k
    BY <1>0
  <2>2. s < len /\ (e <= len \/ len = l)
    <3>1. n * c \in Nat /\ (len = n * c \/ len = l) /\ (n - 1) * c < len
      BY <1>0 DEF Cut
    <3>2. k - 1 <= n - 1 /\ k <= n
      OBVIOUS
    <3>3. s <= (n - 1) * c /\ e <= n * c
      BY <1>0, <3>2
    <3>4. (n - 1) * c \in Nat
      BY <1>0
    <3> QED
      BY <1>0, <2>1, <3>1, <3>3, <3>4
  <2> HIDE DEF s, e
  <2>3. Min({e, len}) = Min({e, l}) /\ Min({e, l}) \in (s + 1)..len
    <3>1. Min({e, len}) = IF e <= len THEN e ELSE len
      BY <1>0, <2>1, LeastOfTwo
    <3>2. Min({e, l}) = IF e <= l THEN e ELSE l
      BY <1>0, <2>1, LeastOfTwo
    <3> QED
      BY <1>0, <2>1, <2>2, <3>1, <3>2
  <2> DEFINE h == Min({e, l})
  <2>4. SubSeq(b, s + 1, h) = SubSeq(Sent, s + 1, h)
    <3>1. /\ 1 \in 1..l /\ len \in 1..l /\ s + 1 \in 1..(len - 1 + 1)
          /\ h \in 1..(len - 1 + 1)
      BY <1>0, <2>1, <2>2, <2>3
    <3> HIDE DEF h
    <3>2. s + 1 \in 1..len /\ h \in 1..len
      BY <1>0, <3>1
    <3> QED
      BY <3>1, <3>2, CutOfBeginning DEF b
  <2>5. /\ ChunkOf(b, k - 1) = SubSeq(b, s + 1, Min({e, len}))
        /\ ChunkOf(Sent, k - 1) = SubSeq(Sent, s + 1, Min({e, l}))
    BY <1>1, <2>1 DEF ChunkOf, s, e
  <2> QED
    BY <2>3, <2>4, <2>5
<1> QED
  BY <1>2, <1>3 DEF AsChunks, b

---------------------------------------------------------------------------
(* Datagrams as packets. *)

LEMMA DifferentTypes ==
  START # END /\ START # DATA /\ START # ACK /\ END # DATA /\ END # ACK /\ DATA # ACK
<1>1. /\ 0 \in END /\ 0 \notin DATA /\ 1 \in DATA /\ 0 \in ACK /\ 1 \in ACK
      /\ 1 \notin END /\ \A i : i \notin START
  BY DEF START, END, DATA, ACK
<1> QED
  BY <1>1

LEMMA AsPacketOf ==
  ASSUME NEW r, NEW p
  PROVE  LET n == SeqNumber(r, p.seqNum) IN
         /\ p.type = START => AsPacket(r, p) = [type |-> "START", seq |-> n, intact |-> TRUE]
         /\ p.type = END => AsPacket(r, p) = [type |-> "END", seq |-> n, intact |-> TRUE]
         /\ p.type = ACK =>
              AsPacket(r, p) = [type |-> "ACK", seq |-> n, intact |-> isAckValid(p)]
         /\ p.type = DATA =>
              AsPacket(r, p) = [type |-> "DATA", seq |-> n,
                                data |-> [of |-> Sent, idx |-> n],
                                intact |-> p.data = ChunkOf(Sent, n)]
BY DifferentTypes DEF AsPacket

(* START and END, sent or in the window. *)
LEMMA AsControl ==
  ASSUME NEW r \in StartSeqs, NEW type \in {START, END}
  PROVE  LET p == Packet(type, <<>>, r)
             a == [type |-> IF type = START THEN "START" ELSE "END",
                   seq |-> StartNumber, intact |-> TRUE]
         IN  /\ AsPacket(r, p) = a /\ AsWindow(r, <<p>>) = <<a>>
             /\ Datagram(p) # <<>> /\ Received(r, Datagram(p)) = {a}
             /\ Packet1(Datagram(p)) = p
<1> DEFINE p == Packet(type, <<>>, r)
           a == [type |-> IF type = START THEN "START" ELSE "END",
                 seq |-> StartNumber, intact |-> TRUE]
<1>1. p \in WirePacket /\ p.data = <<>> /\ p.type = type /\ p.seqNum = r
  <2>1. r \in Word
    BY WireAssumption
  <2> QED
    BY <2>1, EmptyPacket
<1>2. SeqNumber(r, r) = StartNumber
  BY DEF SeqNumber
<1> HIDE DEF p
<1>3. AsPacket(r, p) = a
  BY <1>1, <1>2, AsPacketOf, DifferentTypes
<1>4. Packet1(Datagram(p)) = p
  <2>1. Len(<<>>) <= CHUNK_SIZE
    <3>1. Len(<<>>) = 0
      OBVIOUS
    <3> QED
      BY <3>1, WireAssumption
  <2> QED
    BY <1>1, <2>1, ReceiverReads
<1>5. Datagram(p) # <<>>
  BY <1>1, DatagramsAreNotEmpty
<1> HIDE DEF a
<1>6. AsWindow(r, <<p>>) = <<a>>
  BY <1>3 DEF AsWindow
<1> QED
  BY <1>3, <1>4, <1>5, <1>6 DEF p, a, Received

DataAs(n, intact) ==
  [type |-> "DATA", seq |-> n, data |-> [of |-> Sent, idx |-> n], intact |-> intact]

(* DATA, as it is sent or damaged. *)
LEMMA AsData ==
  ASSUME NEW r \in StartSeqs, NEW n \in 0..Chunks(Sent), NEW p \in WirePacket,
         p.type = DATA, p.seqNum = Bits(n), Len(p.data) <= CHUNK_SIZE
  PROVE  LET a == DataAs(n, p.data = ChunkOf(Sent, n)) IN
         /\ AsPacket(r, p) = a /\ AsWindow(r, <<p>>) = <<a>>
         /\ Received(r, Datagram(p)) = {a} /\ Packet1(Datagram(p)) = p
<1>1. AsPacket(r, p) = DataAs(n, p.data = ChunkOf(Sent, n))
  BY NumbersOfPackets, AsPacketOf DEF DataAs
<1>2. Packet1(Datagram(p)) = p /\ Datagram(p) # <<>>
  BY ReceiverReads, DatagramsAreNotEmpty
<1>3. AsWindow(r, <<p>>) = <<AsPacket(r, p)>>
  BY DEF AsWindow
<1> QED
  BY <1>1, <1>2, <1>3 DEF Received

(* The receiver's answers. *)
LEMMA AsAnswer ==
  ASSUME NEW r \in StartSeqs, NEW w \in Word, NEW rest \in Garbage
  PROVE  /\ toBuffer(w, rest) # <<>>
         /\ Answers(r, toBuffer(w, rest)) =
              {[type |-> "ACK", seq |-> SeqNumber(r, w), intact |-> TRUE]}
<1> DEFINE b == toBuffer(w, rest)
           p == receiveAck(b)
<1>0. rest \in Byte
  BY WireAssumption
<1>1. p.type = ACK /\ p.seqNum = w /\ isAckValid(p)
  BY <1>0, SenderReads
<1>2. b # <<>>
  <2>1. Len(b) = BufferSize /\ BufferSize # 0 /\ Len(<<>>) = 0
    BY <1>0, BufferBytes, WireAssumption
  <2> QED
    BY <2>1
<1> HIDE DEF b, p
<1>3. isAckValid(p) = TRUE
  BY <1>1 DEF isAckValid
<1>4. AsPacket(r, p) = [type |-> "ACK", seq |-> SeqNumber(r, w), intact |-> TRUE]
  BY <1>1, <1>3, AsPacketOf
<1> QED
  BY <1>2, <1>4 DEF Answers, b, p

---------------------------------------------------------------------------
(* The invariant: what was sent and what was written are whole chunks.     *)

(* The packet in the window is the one that was sent last. *)
LastInWindow ==
  /\ dataSeqNum \in Nat \ {0}
  /\ \E c \in Seq(Byte) : /\ Len(c) <= CHUNK_SIZE
                          /\ window = <<Packet(DATA, c, Bits(dataSeqNum - 1))>>

PacketsInv ==
  /\ phase # "idle" => randSeqNum \in StartSeqs
  /\ Cut(Len(file), offset, dataSeqNum) /\ Cut(Len(file), Len(output), next_seq)
  /\ phase = "data" /\ window # <<>> => LastInWindow
  /\ phase = "idle" \/ (phase = "start" /\ toReceiver # <<>>) =>
       ~connection /\ startACK = {}

LEMMA PacketsInit == Init => PacketsInv
<1> SUFFICES ASSUME Init PROVE PacketsInv
  OBVIOUS
<1>1. Len(<<>>) = 0 /\ 0 * CHUNK_SIZE = 0
  BY WireAssumption
<1> QED
  BY <1>1 DEF Init, PacketsInv, Cut

(* In the data phase an empty window means that all was acknowledged. *)
LEMMA AllAcknowledged ==
  ASSUME WireInv, phase = "data", window = <<>>
  PROVE  /\ UpToDate /\ Silent /\ Len(output) = offset /\ dataSeqNum = next_seq
         /\ startACK = randSeqNum
<1>1. Transferring
  BY DEF WireInv
<1>2. \A c : ~ChunkSent(c)
  BY DEF ChunkSent
<1> QED
  BY <1>1, <1>2 DEF Transferring, UpToDate

(* What SendData sends is the next chunk of the file. *)
LEMMA NextSent ==
  ASSUME WireInv, Cut(Len(file), offset, dataSeqNum), SendData
  PROVE  /\ chunk \in Seq(Byte) /\ Len(chunk) <= CHUNK_SIZE
         /\ chunk = ChunkOf(file, dataSeqNum)
         /\ offset' \in 0..Len(file)
         /\ Cut(Len(file), offset', dataSeqNum + 1)
<1> DEFINE l == Len(file)
           a == dataSeqNum * CHUNK_SIZE
           size == IF CHUNK_SIZE <= l - a THEN CHUNK_SIZE ELSE l - a
<1>1. /\ file \in Seq(Byte) /\ l \in Nat /\ CHUNK_SIZE \in Nat \ {0}
      /\ dataSeqNum \in Nat /\ offset \in 0..l /\ offset < l
      /\ offset' = offset + Len(chunk)
  BY WireAssumption, LenProperties DEF WireInv, WireTypeOK, SendData
<1>2. offset = a /\ a \in Nat
  BY <1>1 DEF Cut
<1>3. Min({CHUNK_SIZE, l - a}) = size
  <2>1. l - a \in Nat
    BY <1>1, <1>2
  <2> QED
    BY <1>1, <2>1, LeastOfTwo
<1>4. size \in 1..CHUNK_SIZE /\ a + size <= l
  <2>1. size = IF CHUNK_SIZE <= l - a THEN CHUNK_SIZE ELSE l - a
    OBVIOUS
  <2>2. l \in Nat /\ a \in Nat /\ a < l /\ CHUNK_SIZE \in Nat \ {0}
    BY <1>1, <1>2
  <2> HIDE DEF size, a
  <2> QED
    BY <2>1, <2>2
<1>5. chunk = SubSeq(file, a + 1, a + size)
  BY <1>2, <1>3 DEF chunk
<1>6. ChunkOf(file, dataSeqNum) = SubSeq(file, a + 1, a + size)
  BY <1>1, <1>2, NextChunk
<1>7. Cut(l, offset + size, dataSeqNum + 1)
  BY <1>1, <1>2, CutNext
<1> HIDE DEF a, size
<1>8. chunk \in Seq(Byte) /\ Len(chunk) = size
  <2>1. \A i \in (a + 1)..(a + size) : file[i] \in Byte
    <3>1. \A i \in (a + 1)..(a + size) : i \in 1..l
      BY <1>1, <1>2, <1>4
    <3> QED
      BY <1>1, <3>1, ElementOfSeq
  <2>2. a + 1 \in Int /\ a + size \in Int
    BY <1>2, <1>4
  <2>3. /\ chunk \in Seq(Byte)
        /\ Len(chunk) = IF a + 1 <= a + size THEN (a + size) - (a + 1) + 1 ELSE 0
    BY <1>5, <2>1, <2>2, SubSeqProperties
  <2> QED
    BY <1>1, <1>2, <1>4, <2>3
<1> QED
  BY <1>1, <1>2, <1>4, <1>5, <1>6, <1>7, <1>8

LEMMA PacketsStep ==
  ASSUME WireInv, WireInv', PacketsInv, [Next]_vars
  PROVE  PacketsInv'
<1>0. UNCHANGED file
  BY DEF Next, vars, senderVars, receiverVars, Launch, OpenFile, SendData,
         EndConnection, Retransmit, Answered, Damage, Receive
<1>1. CASE Launch
  <2>1. /\ phase' = "start" /\ randSeqNum' \in StartSeqs
        /\ UNCHANGED <<offset, dataSeqNum, output, next_seq, connection, startACK>>
    BY <1>1 DEF Launch, receiverVars
  <2>2. phase = "idle"
    BY <1>1 DEF Launch
  <2> QED
    BY <1>0, <2>1, <2>2 DEF PacketsInv
<1>2. CASE OpenFile
  <2>1. /\ phase = "open" /\ phase' = "data"
        /\ UNCHANGED <<randSeqNum, window, offset, dataSeqNum, output, next_seq>>
    BY <1>2 DEF OpenFile, receiverVars
  <2>2. window = <<>>
    BY <2>1 DEF WireInv, Opened
  <2> QED
    BY <1>0, <2>1, <2>2 DEF PacketsInv
<1>3. CASE SendData
  <2>1. /\ phase = "data" /\ phase' = "data" /\ dataSeqNum' = dataSeqNum + 1
        /\ window' = <<Packet(DATA, chunk, Bits(dataSeqNum))>>
        /\ UNCHANGED <<randSeqNum, output, next_seq>>
    BY <1>3 DEF SendData, receiverVars, sendPacket
  <2>2. /\ chunk \in Seq(Byte) /\ Len(chunk) <= CHUNK_SIZE
        /\ Cut(Len(file), offset', dataSeqNum + 1)
    BY <1>3, NextSent DEF PacketsInv
  <2>3. dataSeqNum \in Nat /\ dataSeqNum + 1 - 1 = dataSeqNum /\ dataSeqNum + 1 # 0
    BY DEF WireInv, WireTypeOK
  <2>4. LastInWindow'
    BY <2>1, <2>2, <2>3 DEF LastInWindow
  <2> QED
    BY <1>0, <2>1, <2>2, <2>4 DEF PacketsInv
<1>4. CASE EndConnection
  <2>1. /\ phase = "data" /\ phase' = "end"
        /\ UNCHANGED <<randSeqNum, offset, dataSeqNum, output, next_seq>>
    BY <1>4 DEF EndConnection, receiverVars
  <2> QED
    BY <1>0, <2>1 DEF PacketsInv
<1>5. CASE Retransmit \/ Damage
  <2>1. /\ phase' = phase
        /\ phase = "data" \/ toReceiver # <<>> \/ toReceiver' = toReceiver
        /\ UNCHANGED <<randSeqNum, window, offset, dataSeqNum, output, next_seq,
                       connection, startACK>>
    <3>1. CASE Retransmit
      BY <3>1 DEF Retransmit, senderVars, receiverVars
    <3>2. CASE Damage
      <4>1. Flipped(<<>>, {}) = <<>>
        BY DEF Flipped
      <4>2. \A bits : Flipped(<<>>, bits) = <<>>
        BY DEF Flipped
      <4>3. toReceiver = <<>> => toReceiver' = toReceiver
        BY <3>2, <4>2 DEF Damage
      <4> QED
        BY <3>2, <4>3 DEF Damage, senderVars, receiverVars
    <3> QED
      BY <1>5, <3>1, <3>2
  <2> QED
    BY <1>0, <2>1 DEF PacketsInv, LastInWindow
<1>6. CASE Answered
  <2>1. /\ phase' # "idle" /\ phase' # "start" /\ phase # "idle"
        /\ phase' = "data" => window' = <<>>
        /\ UNCHANGED <<randSeqNum, offset, dataSeqNum, output, next_seq>>
    BY <1>6 DEF Answered, receiverVars
  <2> QED
    BY <1>0, <2>1 DEF PacketsInv
<1>7. CASE Receive
  <2>1. toReceiver # <<>> /\ toReceiver' = <<>> /\ UNCHANGED senderVars
    BY <1>7 DEF Receive
  <2>2. phase # "idle"
    BY <2>1 DEF WireInv, Idle, Silent
  <2>3. Cut(Len(file), Len(output'), next_seq')
    <3>1. CASE UNCHANGED <<output, next_seq>>
      BY <3>1 DEF PacketsInv
    <3>2. CASE next_seq' = 0 /\ output' = output /\ phase = "start"
      <4>1. output = <<>> /\ Len(<<>>) = 0 /\ 0 * CHUNK_SIZE = 0
        BY <3>2, WireAssumption DEF WireInv, Starting
      <4> QED
        BY <3>2, <4>1 DEF Cut
    <3>3. CASE phase = "data" /\ toSender' # <<>>
      <4>1. UpToDate'
        <5>1. \A c : ~ChunkSent(c)'
          BY <3>3 DEF ChunkSent
        <5>2. Transferring'
          BY <2>1, <3>3 DEF WireInv, senderVars
        <5> QED
          BY <5>1, <5>2 DEF Transferring
      <4> QED
        BY <2>1, <4>1 DEF PacketsInv, UpToDate, senderVars
    <3>4. CASE /\ phase = "data"
               /\ \E c \in Seq(Byte), q \in WirePacket : ChunkSent(c) /\ ChunkArrives(c, q)
      <4>1. PICK c \in Seq(Byte), q \in WirePacket : ChunkArrives(c, q)
        BY <3>4
      <4>2. CASE UNCHANGED <<output, next_seq>>
        BY <3>1, <4>2
      <4>3. CASE Answering(Bits(next_seq + 1))
        <5>1. toSender' # <<>>
          <6>1. Bits(next_seq + 1) \in Word /\ randSeqNum \in StartSeqs
            BY <2>2, BitsAreWord DEF PacketsInv
          <6> QED
            BY <4>3, <6>1, AsAnswer DEF Answering
        <5> QED
          BY <3>3, <3>4, <5>1
      <4> QED
        BY <4>1, <4>2, <4>3 DEF ChunkArrives
    <3> QED
      BY <1>7, <3>1, <3>2, <3>4, ReceiveCases DEF StartArrives, EndArrives
  <2> QED
    BY <1>0, <2>1, <2>2, <2>3 DEF PacketsInv, LastInWindow, senderVars
<1>8. CASE UNCHANGED vars
  BY <1>8 DEF vars, senderVars, receiverVars, PacketsInv, LastInWindow
<1> QED
  BY <1>1, <1>2, <1>3, <1>4, <1>5, <1>6, <1>7, <1>8 DEF Next

---------------------------------------------------------------------------
(* Every step is one of BaseTransfer. *)

(* START goes out as the START of BaseTransfer. *)
LEMMA LaunchMapped ==
  ASSUME WireInv, PacketsInv, PacketsInv', Launch
  PROVE  Packets!Launch /\ UNCHANGED Packets!receiverVars
<1>1. /\ phase = "idle" /\ phase' = "start" /\ randSeqNum' \in StartSeqs
      /\ toReceiver' = Datagram(Packet(START, <<>>, randSeqNum'))
      /\ window' = <<Packet(START, <<>>, randSeqNum')>>
      /\ UNCHANGED <<offset, dataSeqNum, connection, startACK, next_seq, output, toSender>>
  BY DEF Launch, receiverVars, sendPacket
<1>2. toReceiver = <<>> /\ toSender = <<>> /\ dataSeqNum = 0 /\ startACK = {}
  BY <1>1 DEF WireInv, Idle, Silent, PacketsInv
<1> DEFINE a == [type |-> "START", seq |-> StartNumber, intact |-> TRUE]
<1>3. AsWindow(randSeqNum', window') = <<a>> /\ Received(randSeqNum', toReceiver') = {a}
  BY <1>1, AsControl
<1>4. /\ Received(randSeqNum, toReceiver) = {} /\ Answers(randSeqNum, toSender) = {}
      /\ Answers(randSeqNum', toSender') = {}
  BY <1>1, <1>2 DEF Received, Answers
<1>5. UNCHANGED Packets!receiverVars
  BY <1>1, <1>2 DEF Packets!receiverVars
<1>6. Packets!StartPacket(StartNumber) = a
  BY DEF Packets!StartPacket
<1> HIDE DEF a
<1>7. Packets!sendPacket(a) /\ AsWindow(randSeqNum, window)' = <<a>>
  BY <1>3, <1>4 DEF Packets!sendPacket
<1>8. phase \in Packets!Stopped
  BY <1>1 DEF Packets!Stopped
<1>9. UNCHANGED Answers(randSeqNum, toSender)
  BY <1>4
<1>10. Packets!Launch
  BY <1>1, <1>2, <1>6, <1>7, <1>8, <1>9 DEF Packets!Launch
<1> QED
  BY <1>5, <1>10

LEMMA NothingUnderWay ==
  ASSUME NEW r
  PROVE  Received(r, <<>>) = {} /\ Answers(r, <<>>) = {} /\ AsWindow(r, <<>>) = <<>>
BY DEF Received, Answers, AsWindow

(* DATA with the chunk that its number stands for, or with another. *)
LEMMA AsIntactData ==
  ASSUME NEW r \in StartSeqs, NEW n \in 0..Chunks(Sent), NEW p \in WirePacket,
         p.type = DATA, p.seqNum = Bits(n), Len(p.data) <= CHUNK_SIZE
  PROVE  LET a == DataAs(n, IF p.data = ChunkOf(Sent, n) THEN TRUE ELSE FALSE) IN
         /\ AsWindow(r, <<p>>) = <<a>> /\ Received(r, Datagram(p)) = {a}
<1>1. ASSUME NEW t \in BOOLEAN, (p.data = ChunkOf(Sent, n)) = t
      PROVE  AsWindow(r, <<p>>) = <<DataAs(n, t)>> /\ Received(r, Datagram(p)) = {DataAs(n, t)}
  BY <1>1, AsData
<1>2. CASE p.data = ChunkOf(Sent, n)
  BY <1>1, <1>2
<1>3. CASE p.data # ChunkOf(Sent, n)
  BY <1>1, <1>3
<1> QED
  BY <1>2, <1>3

LEMMA OpenFileMapped ==
  ASSUME OpenFile
  PROVE  Packets!OpenFile /\ UNCHANGED Packets!receiverVars
<1>1. /\ phase = "open" /\ phase' = "data"
      /\ UNCHANGED <<randSeqNum, window, dataSeqNum, connection, startACK, next_seq,
                     output, toReceiver, toSender>>
  BY DEF OpenFile, receiverVars
<1>2. UNCHANGED Packets!receiverVars
  BY <1>1 DEF Packets!receiverVars
<1>3. Packets!OpenFile
  BY <1>1 DEF Packets!OpenFile, Packets!networkVars
<1> QED
  BY <1>2, <1>3

LEMMA SendDataMapped ==
  ASSUME file = Sent, WireInv, PacketsInv, SendData
  PROVE  Packets!SendData /\ UNCHANGED Packets!receiverVars
<1>1. /\ phase = "data" /\ window = <<>> /\ offset < Len(Sent)
      /\ toReceiver' = Datagram(Packet(DATA, chunk, Bits(dataSeqNum)))
      /\ window' = <<Packet(DATA, chunk, Bits(dataSeqNum))>>
      /\ dataSeqNum' = dataSeqNum + 1
      /\ UNCHANGED <<phase, randSeqNum, connection, startACK, next_seq, output, toSender>>
  BY DEF SendData, receiverVars, sendPacket
<1>2. toReceiver = <<>> /\ toSender = <<>> /\ randSeqNum \in StartSeqs
  BY <1>1, AllAcknowledged DEF Silent, PacketsInv
<1>3. dataSeqNum \in 0..Chunks(Sent) /\ dataSeqNum < Chunks(Sent)
  <2>1. Len(Sent) \in Nat /\ offset \in 0..Len(Sent) /\ dataSeqNum \in Nat
    BY LenProperties DEF WireInv, WireTypeOK
  <2>2. Cut(Len(Sent), offset, dataSeqNum)
    BY DEF PacketsInv
  <2> QED
    BY <1>1, <2>1, <2>2, CutNumbers DEF Chunks
<1>4. chunk \in Seq(Byte) /\ Len(chunk) <= CHUNK_SIZE /\ chunk = ChunkOf(Sent, dataSeqNum)
  BY NextSent DEF PacketsInv
<1> DEFINE p == Packet(DATA, chunk, Bits(dataSeqNum))
           a == DataAs(dataSeqNum, TRUE)
<1>5. p \in WirePacket /\ p.type = DATA /\ p.seqNum = Bits(dataSeqNum) /\ p.data = chunk
  BY <1>4, BuiltPacket, BitsAreWord
<1>6. toReceiver' = Datagram(p) /\ window' = <<p>>
  BY <1>1
<1> HIDE DEF p
<1>7. AsWindow(randSeqNum, <<p>>) = <<a>> /\ Received(randSeqNum, Datagram(p)) = {a}
  BY <1>2, <1>3, <1>4, <1>5, AsIntactData
<1>8. Packets!DataPacketOf(Sent, dataSeqNum) = a
  BY DEF Packets!DataPacketOf, DataAs
<1> HIDE DEF a
<1>9. /\ Received(randSeqNum, toReceiver) = {} /\ AsWindow(randSeqNum, window) = <<>>
      /\ Received(randSeqNum, toReceiver)' = {a} /\ AsWindow(randSeqNum, window)' = <<a>>
  BY <1>1, <1>2, <1>6, <1>7, NothingUnderWay
<1>10. Packets!SentFile = Sent
  BY <1>1 DEF Packets!SentFile
<1>11. Packets!CanSend
  BY <1>3, <1>9, <1>10 DEF Packets!CanSend, Packets!canAddPacket
<1>12. Packets!sendPacket(a)
  BY <1>9 DEF Packets!sendPacket
<1>13. UNCHANGED Answers(randSeqNum, toSender)
  BY <1>1
<1>14. Append(AsWindow(randSeqNum, window), a) = <<a>>
  BY <1>9
<1>15. Packets!SendData
  BY <1>1, <1>8, <1>9, <1>10, <1>11, <1>12, <1>13, <1>14 DEF Packets!SendData
<1>16. UNCHANGED Packets!receiverVars
  BY <1>1 DEF Packets!receiverVars
<1> QED
  BY <1>15, <1>16

LEMMA EndConnectionMapped ==
  ASSUME file = Sent, WireInv, PacketsInv, EndConnection
  PROVE  Packets!EndConnection /\ UNCHANGED Packets!receiverVars
<1>1. /\ phase = "data" /\ phase' = "end" /\ window = <<>> /\ offset >= Len(Sent)
      /\ toReceiver' = Datagram(Packet(END, <<>>, randSeqNum))
      /\ window' = <<Packet(END, <<>>, randSeqNum)>>
      /\ UNCHANGED <<randSeqNum, dataSeqNum, connection, startACK, next_seq, output, toSender>>
  BY DEF EndConnection, receiverVars, sendPacket
<1>2. toReceiver = <<>> /\ toSender = <<>> /\ randSeqNum \in StartSeqs
  BY <1>1, AllAcknowledged DEF Silent, PacketsInv
<1>3. dataSeqNum >= Chunks(Sent)
  <2>1. Len(Sent) \in Nat /\ offset \in 0..Len(Sent) /\ dataSeqNum \in Nat
    BY LenProperties DEF WireInv, WireTypeOK
  <2>2. Cut(Len(Sent), offset, dataSeqNum)
    BY DEF PacketsInv
  <2>3. ~(offset < Len(Sent))
    BY <1>1, <2>1
  <2>4. dataSeqNum = Chunks(Sent)
    BY <2>1, <2>2, <2>3, CutNumbers DEF Chunks
  <2> QED
    BY <2>1, <2>4
<1> DEFINE a == [type |-> "END", seq |-> StartNumber, intact |-> TRUE]
<1>4. /\ AsWindow(randSeqNum, <<Packet(END, <<>>, randSeqNum)>>) = <<a>>
      /\ Received(randSeqNum, Datagram(Packet(END, <<>>, randSeqNum))) = {a}
  BY <1>2, AsControl, DifferentTypes
<1>5. Packets!EndPacket(StartNumber) = a
  BY DEF Packets!EndPacket
<1> HIDE DEF a
<1>6. /\ Received(randSeqNum, toReceiver) = {} /\ AsWindow(randSeqNum, window) = <<>>
      /\ Received(randSeqNum, toReceiver)' = {a} /\ AsWindow(randSeqNum, window)' = <<a>>
  BY <1>1, <1>2, <1>4, NothingUnderWay
<1>7. Packets!SentFile = Sent /\ ~Packets!hasUnacknowledgedPackets
  BY <1>1, <1>6 DEF Packets!SentFile, Packets!hasUnacknowledgedPackets
<1>8. Packets!sendPacket(a)
  BY <1>6 DEF Packets!sendPacket
<1>9. UNCHANGED Answers(randSeqNum, toSender)
  BY <1>1
<1>10. Append(AsWindow(randSeqNum, window), a) = <<a>>
  BY <1>6
<1>11. Packets!EndConnection
  BY <1>1, <1>3, <1>5, <1>6, <1>7, <1>8, <1>9, <1>10 DEF Packets!EndConnection
<1>12. UNCHANGED Packets!receiverVars
  BY <1>1 DEF Packets!receiverVars
<1> QED
  BY <1>11, <1>12

(* The chunk under way is the one its number stands for. *)
LEMMA ChunkOfNumber ==
  ASSUME file = Sent, WireInv, PacketsInv, NEW c \in Seq(Byte), ChunkSent(c)
  PROVE  c = ChunkOf(Sent, next_seq) /\ next_seq \in 0..Chunks(Sent)
<1> DEFINE l == Len(Sent)
           s == next_seq * CHUNK_SIZE
           e == (next_seq + 1) * CHUNK_SIZE
<1>1. /\ l \in Nat /\ CHUNK_SIZE \in Nat \ {0} /\ next_seq \in Nat
      /\ offset \in 0..l /\ Len(output) \in Nat
  BY WireAssumption, LenProperties DEF WireInv, WireTypeOK
<1>2. /\ Len(output) <= offset /\ c = SubSeq(Sent, Len(output) + 1, offset)
      /\ dataSeqNum = next_seq + 1
  BY DEF ChunkSent
<1>3. Cut(l, offset, next_seq + 1) /\ Cut(l, Len(output), next_seq)
  BY <1>2 DEF PacketsInv
<1>4. s \in Nat /\ e \in Nat /\ (next_seq + 1 - 1) * CHUNK_SIZE = s /\ next_seq + 1 # 0
  BY <1>1
<1>5. /\ offset <= e /\ (offset = e \/ offset = l) /\ s < offset
      /\ Len(output) <= s /\ (Len(output) = s \/ Len(output) = l)
  <2> DEFINE m == next_seq + 1
  <2>1. m # 0 /\ m - 1 = next_seq /\ m * CHUNK_SIZE = e
    BY <1>1
  <2>2. Cut(l, offset, m)
    BY <1>3
  <2> HIDE DEF m
  <2>3. offset <= e /\ (offset = e \/ offset = l) /\ s < offset
    BY <2>1, <2>2 DEF Cut
  <2>4. Len(output) <= s /\ (Len(output) = s \/ Len(output) = l)
    BY <1>3 DEF Cut
  <2> QED
    BY <2>3, <2>4
<1>6. next_seq + 1 \in 0..Chunks(Sent)
  BY <1>1, <1>3, CutNumbers DEF Chunks
<1>7. Chunks(Sent) \in Nat
  BY ChunkCount
<1>8. ChunkOf(Sent, next_seq) = SubSeq(Sent, s + 1, Min({e, l}))
  BY DEF ChunkOf
<1> HIDE DEF s, e, l
<1>9. Min({e, l}) = offset /\ Len(output) = s
  <2>1. Min({e, l}) = IF e <= l THEN e ELSE l
    BY <1>1, <1>4, LeastOfTwo
  <2> QED
    BY <1>1, <1>4, <1>5, <2>1
<1>10. next_seq \in 0..Chunks(Sent)
  BY <1>1, <1>6, <1>7
<1> QED
  BY <1>2, <1>8, <1>9, <1>10

LEMMA RetransmitMapped ==
  ASSUME file = Sent, WireInv, PacketsInv, Retransmit
  PROVE  (\E p \in Packets!Received : Packets!RetransmitWindow(p))
         /\ UNCHANGED Packets!receiverVars
<1>1. /\ phase = "data" /\ window # <<>> /\ toReceiver = <<>> /\ toSender = <<>>
      /\ toReceiver' = Datagram(Head(window))
      /\ UNCHANGED <<phase, window, randSeqNum, dataSeqNum, connection, startACK,
                     next_seq, output, toSender>>
  BY DEF Retransmit, receiverVars, senderVars
<1>2. PICK c \in Seq(Byte) : ChunkSent(c)
  <2>1. ~UpToDate
    BY <1>1, BitsAreWord, BuffersAreNotEmpty DEF UpToDate
  <2> QED
    BY <1>1, <2>1 DEF WireInv, Transferring
<1> DEFINE p == Packet(DATA, c, Bits(next_seq))
           a == DataAs(next_seq, TRUE)
<1>3. /\ p \in WirePacket /\ p.type = DATA /\ p.seqNum = Bits(next_seq)
      /\ p.data = c
  BY BuiltPacket, BitsAreWord
<1>4. window = <<p>> /\ Len(c) <= CHUNK_SIZE
  BY <1>2 DEF ChunkSent
<1>5. c = ChunkOf(Sent, next_seq) /\ next_seq \in 0..Chunks(Sent) /\ randSeqNum \in StartSeqs
  BY <1>1, <1>2, ChunkOfNumber DEF PacketsInv
<1> HIDE DEF p, a
<1>6. AsWindow(randSeqNum, window) = <<a>> /\ Received(randSeqNum, Datagram(p)) = {a}
  BY <1>3, <1>4, <1>5, AsIntactData DEF a
<1>7. toReceiver' = Datagram(p)
  BY <1>1, <1>4
<1>8. /\ Received(randSeqNum, toReceiver) = {} /\ Received(randSeqNum, toReceiver)' = {a}
  BY <1>1, <1>6, <1>7, NothingUnderWay
<1>9. Packets!AwaitsAck
  BY <1>1, <1>6 DEF Packets!AwaitsAck, Packets!CanSend, Packets!canAddPacket,
                    Packets!hasUnacknowledgedPackets
<1>10. Packets!Range(<<a>>) = {a}
  BY DEF Packets!Range
<1>11. /\ Packets!noPacket \in Packets!Received /\ Packets!noPacket.type = "TIMEOUT"
       /\ Packets!receiveAck(Packets!noPacket)
  BY <1>1 DEF Packets!noPacket, Packets!Received, Packets!receiveAck
<1>12. Packets!RetransmitWindow(Packets!noPacket)
  <2>1. UNCHANGED Packets!senderVars
    BY <1>1 DEF Packets!senderVars
  <2>2. Received(randSeqNum, toReceiver)' =
          Received(randSeqNum, toReceiver) \cup Packets!Range(AsWindow(randSeqNum, window))
    BY <1>6, <1>8, <1>10
  <2> QED
    BY <1>9, <1>11, <2>1, <2>2 DEF Packets!RetransmitWindow
<1>13. UNCHANGED Packets!receiverVars
  BY <1>1 DEF Packets!receiverVars
<1> QED
  BY <1>11, <1>12, <1>13

AckAs(n) == [type |-> "ACK", seq |-> n, intact |-> TRUE]

LEMMA AnswerTaken ==
  ASSUME PacketsInv, phase # "idle", NEW w \in Word, Acked(w), toSender' = <<>>,
         UNCHANGED <<randSeqNum, toReceiver>>
  PROVE  LET a == AckAs(SeqNumber(randSeqNum, w)) IN
         /\ Packets!receiveAck(a) /\ a \in Packets!Received
         /\ a.type # "TIMEOUT" /\ Packets!isAckValid(a)
         /\ Received(randSeqNum, toReceiver) = {} /\ UNCHANGED Received(randSeqNum, toReceiver)
<1> DEFINE a == AckAs(SeqNumber(randSeqNum, w))
<1>1. randSeqNum \in StartSeqs
  BY DEF PacketsInv
<1>2. Answers(randSeqNum, toSender) = {a}
  BY <1>1, AsAnswer DEF Acked, AckAs
<1>3. a.type # "TIMEOUT" /\ Packets!isAckValid(a)
  BY DEF AckAs, Packets!isAckValid
<1> HIDE DEF a
<1>4. Answers(randSeqNum, toSender)' = {}
  BY NothingUnderWay
<1>5. Packets!receiveAck(a) /\ a \in Packets!Received
  BY <1>2, <1>4 DEF Packets!receiveAck, Packets!Received, Packets!Remaining
<1>6. Received(randSeqNum, toReceiver) = {} /\ UNCHANGED Received(randSeqNum, toReceiver)
  BY NothingUnderWay DEF Acked
<1> QED
  BY <1>3, <1>5, <1>6 DEF a

LEMMA AnsweredMapped ==
  ASSUME file = Sent, WireInv, PacketsInv, Answered
  PROVE  (\E p \in Packets!Received :
            Packets!StartAcked(p) \/ Packets!AdvanceWindow(p) \/ Packets!FinishConnection(p))
         /\ UNCHANGED Packets!receiverVars
<1>1. /\ toSender # <<>> /\ toSender' = <<>>
      /\ \/ phase = "start" /\ phase' = "open"
         \/ phase = "data" /\ phase' = "data"
         \/ phase = "end" /\ phase' = "done"
      /\ window' = IF phase = "end" THEN window ELSE <<>>
      /\ UNCHANGED <<randSeqNum, offset, dataSeqNum, connection, startACK, next_seq,
                     output, toReceiver>>
  BY DEF Answered, receiverVars
<1>2. UNCHANGED Packets!receiverVars
  BY <1>1 DEF Packets!receiverVars
<1>3. randSeqNum \in StartSeqs /\ randSeqNum \in Word
  BY <1>1 DEF PacketsInv, WireInv, WireTypeOK
<1>4. SeqNumber(randSeqNum, randSeqNum) = StartNumber
  BY DEF SeqNumber
<1> DEFINE a == AckAs(StartNumber)
<1>5. a.seq = StartNumber
  BY DEF AckAs
<1>6. CASE phase = "start"
  <2>1. Acked(randSeqNum) /\ window = <<Packet(START, <<>>, randSeqNum)>>
    BY <1>1, <1>6 DEF WireInv, Starting
  <2>2. /\ Packets!receiveAck(a) /\ a \in Packets!Received
        /\ a.type # "TIMEOUT" /\ Packets!isAckValid(a)
        /\ UNCHANGED Received(randSeqNum, toReceiver)
    BY <1>1, <1>3, <1>4, <1>6, <2>1, AnswerTaken
  <2> HIDE DEF a
  <2> DEFINE b == [type |-> "START", seq |-> StartNumber, intact |-> TRUE]
  <2>3. AsWindow(randSeqNum, window) = <<b>>
    BY <1>3, <2>1, AsControl
  <2> HIDE DEF b
  <2>4. AsWindow(randSeqNum, window)' = <<>>
    BY <1>1, <1>6, NothingUnderWay
  <2>5. Packets!removeAcknowledgedPackets(1) = <<>>
    BY <2>3 DEF Packets!removeAcknowledgedPackets
  <2>6. Packets!StartAcked(a)
    BY <1>1, <1>5, <1>6, <2>2, <2>4, <2>5 DEF Packets!StartAcked
  <2> QED
    BY <1>2, <2>2, <2>6
<1>7. CASE phase = "data"
  <2>1. UpToDate /\ window # <<>>
    BY <1>1, <1>7 DEF WireInv, Transferring, ChunkSent, UpToDate, Silent
  <2>2. Acked(Bits(next_seq)) /\ dataSeqNum = next_seq
    BY <2>1 DEF UpToDate
  <2>3. dataSeqNum \in 1..Chunks(Sent)
    <3>1. dataSeqNum \in Nat \ {0}
      BY <1>7, <2>1 DEF PacketsInv, LastInWindow
    <3>2. Len(Sent) \in Nat /\ offset \in 0..Len(Sent)
      BY LenProperties DEF WireInv, WireTypeOK
    <3>3. dataSeqNum \in 0..Chunks(Sent)
      BY <3>1, <3>2, CutNumbers DEF PacketsInv, Chunks
    <3> QED
      BY <3>1, <3>3
  <2> DEFINE n == dataSeqNum - 1
             d == AckAs(dataSeqNum)
  <2>4. n \in 0..Chunks(Sent) /\ dataSeqNum \in 0..Chunks(Sent)
    BY <2>3, ChunkCount
  <2>5. SeqNumber(randSeqNum, Bits(dataSeqNum)) = dataSeqNum
    BY <1>3, <2>4, NumbersOfPackets
  <2>6. d.seq = dataSeqNum
    BY DEF AckAs
  <2>7. /\ Packets!receiveAck(d) /\ d \in Packets!Received
        /\ d.type # "TIMEOUT" /\ Packets!isAckValid(d)
        /\ UNCHANGED Received(randSeqNum, toReceiver)
    BY <1>1, <1>7, <2>2, <2>5, AnswerTaken, BitsAreWord
  <2> HIDE DEF d, n
  <2>8. PICK c \in Seq(Byte) : Len(c) <= CHUNK_SIZE /\ window = <<Packet(DATA, c, Bits(n))>>
    BY <1>7, <2>1 DEF PacketsInv, LastInWindow, n
  <2> DEFINE b == DataAs(n, IF c = ChunkOf(Sent, n) THEN TRUE ELSE FALSE)
  <2>9. AsWindow(randSeqNum, window) = <<b>>
    <3> DEFINE p == Packet(DATA, c, Bits(n))
    <3>1. p \in WirePacket /\ p.type = DATA /\ p.seqNum = Bits(n) /\ p.data = c
      BY BuiltPacket, BitsAreWord
    <3>2. window = <<p>>
      BY <2>8
    <3> HIDE DEF p
    <3>3. AsWindow(randSeqNum, <<p>>) =
            <<DataAs(n, IF p.data = ChunkOf(Sent, n) THEN TRUE ELSE FALSE)>>
      BY <1>3, <2>4, <2>8, <3>1, AsIntactData
    <3> QED
      BY <3>1, <3>2, <3>3
  <2>10. b.seq = n
    BY DEF DataAs
  <2> HIDE DEF b
  <2>11. Packets!getNextSeqNum = n
    BY <2>9, <2>10 DEF Packets!getNextSeqNum
  <2>12. d.seq - n = 1 /\ d.seq > n
    BY <2>3, <2>6 DEF n
  <2>13. Packets!removeAcknowledgedPackets(1) = <<>> /\ Len(AsWindow(randSeqNum, window)) = 1
    BY <2>9 DEF Packets!removeAcknowledgedPackets
  <2>14. AsWindow(randSeqNum, window)' = <<>>
    BY <1>1, <1>7, NothingUnderWay
  <2>15. Packets!AwaitsAck
    BY <1>7, <2>9 DEF Packets!AwaitsAck, Packets!CanSend, Packets!canAddPacket,
                      Packets!hasUnacknowledgedPackets
  <2>16. Packets!Acknowledges(d)
    BY <2>7, <2>11, <2>12 DEF Packets!Acknowledges
  <2>17. Packets!AdvanceWindow(d)
    BY <1>1, <1>7, <2>7, <2>11, <2>12, <2>13, <2>14, <2>15, <2>16 DEF Packets!AdvanceWindow
  <2> QED
    BY <1>2, <2>7, <2>17
<1>8. CASE phase = "end"
  <2>1. Acked(randSeqNum)
    BY <1>1, <1>8 DEF WireInv, Ending
  <2>2. /\ Packets!receiveAck(a) /\ a \in Packets!Received
        /\ a.type # "TIMEOUT" /\ Packets!isAckValid(a)
        /\ UNCHANGED Received(randSeqNum, toReceiver)
    BY <1>1, <1>3, <1>4, <1>8, <2>1, AnswerTaken
  <2> HIDE DEF a
  <2>3. UNCHANGED AsWindow(randSeqNum, window)
    BY <1>1, <1>8
  <2>4. Packets!FinishConnection(a)
    BY <1>1, <1>5, <1>8, <2>2, <2>3 DEF Packets!FinishConnection
  <2> QED
    BY <1>2, <2>2, <2>4
<1> QED
  BY <1>1, <1>6, <1>7, <1>8

LEMMA DamageMapped ==
  ASSUME file = Sent, WireInv, PacketsInv, Damage
  PROVE  \/ Packets!NetworkStep /\ UNCHANGED <<Packets!senderVars, Packets!receiverVars>>
         \/ UNCHANGED Packets!vars
<1>1. UNCHANGED <<phase, randSeqNum, window, dataSeqNum, connection, startACK, next_seq,
                  output, toSender>>
  BY DamageCases DEF senderVars, receiverVars
<1>2. UNCHANGED <<Packets!senderVars, Packets!receiverVars>>
  BY <1>1 DEF Packets!senderVars, Packets!receiverVars
<1>3. UNCHANGED Answers(randSeqNum, toSender)
  BY <1>1
<1>4. CASE UNCHANGED toReceiver
  <2>1. UNCHANGED Packets!vars
    BY <1>1, <1>2, <1>3, <1>4 DEF Packets!vars, Packets!networkVars
  <2> QED
    BY <2>1
<1>5. CASE /\ phase = "data"
           /\ \E c \in Seq(Byte), bits \in Damages : ChunkSent(c) /\ ChunkDamaged(c, bits)
  <2>1. PICK c \in Seq(Byte), bits \in Damages : ChunkSent(c) /\ ChunkDamaged(c, bits)
    BY <1>5
  <2> DEFINE p == Packet(DATA, c, Bits(next_seq))
             q == Spoiled(p, bits)
             a == DataAs(next_seq, TRUE)
             d == DataAs(next_seq, FALSE)
  <2>2. /\ p \in WirePacket /\ p.type = DATA /\ p.seqNum = Bits(next_seq)
        /\ p.data = c
    BY BuiltPacket, BitsAreWord
  <2>3. /\ toReceiver = Datagram(p) /\ toReceiver' = Datagram(q)
        /\ bits \subseteq 0..(8 * Len(c) - 1)
    BY <2>1 DEF ChunkDamaged
  <2> HIDE DEF p
  <2>4. /\ q \in WirePacket /\ q.type = DATA /\ q.seqNum = Bits(next_seq)
        /\ q.data = Flip(c, bits)
    BY <2>2, SpoiledPacket
  <2>5. Len(c) <= CHUNK_SIZE /\ Len(q.data) <= CHUNK_SIZE
    BY <2>1, <2>4, FlippedData DEF ChunkSent
  <2>6. c = ChunkOf(Sent, next_seq) /\ next_seq \in 0..Chunks(Sent) /\ randSeqNum \in StartSeqs
    BY <1>5, <2>1, ChunkOfNumber DEF PacketsInv
  <2>7. Received(randSeqNum, toReceiver) = {a}
    BY <2>2, <2>3, <2>5, <2>6, AsIntactData
  <2>8. CASE bits = {}
    <3>1. q = p
      BY <2>2, <2>8, NotSpoiled
    <3> QED
      BY <1>4, <2>3, <3>1
  <2>9. CASE bits # {}
    <3>1. q.data # c
      <4>1. Difference(c, c) = {}
        BY XorNothing DEF Difference
      <4>2. Difference(c, Flip(c, bits)) = bits
        BY <2>3, FlippedDifference
      <4> QED
        BY <2>4, <2>9, <4>1, <4>2
    <3> HIDE DEF q
    <3>2. Received(randSeqNum, Datagram(q)) =
            {DataAs(next_seq, IF q.data = ChunkOf(Sent, next_seq) THEN TRUE ELSE FALSE)}
      BY <2>4, <2>5, <2>6, AsIntactData
    <3>3. Received(randSeqNum, toReceiver)' = {d}
      BY <1>1, <2>3, <2>6, <3>1, <3>2
    <3>4. a \in [type : {"DATA"}, seq : Nat, data : [of : {Sent}, idx : Nat], intact : {TRUE}]
      BY <2>6 DEF DataAs
    <3>5. Packets!Damaged(a) = d
      <4>1. \A t, u : [DataAs(next_seq, t) EXCEPT !.intact = u] = DataAs(next_seq, u)
        BY DEF DataAs
      <4> QED
        BY <4>1 DEF Packets!Damaged
    <3> HIDE DEF a, d
    <3>6. Packets!Corrupt
      BY <1>3, <2>7, <3>3, <3>4, <3>5 DEF Packets!Corrupt
    <3> QED
      BY <1>2, <3>6 DEF Packets!NetworkStep
  <2> QED
    BY <2>8, <2>9
<1> QED
  BY <1>4, <1>5, DamageCases

LEMMA StutterMapped ==
  ASSUME UNCHANGED vars
  PROVE  UNCHANGED Packets!vars
BY DEF vars, senderVars, receiverVars, Packets!vars, Packets!senderVars,
       Packets!receiverVars, Packets!networkVars

LEMMA NoChunks == AsChunks(<<>>) = <<>>
<1>1. Len(<<>>) = 0
  OBVIOUS
<1>2. \A c \in Nat \ {0} : (0 + c - 1) \div c = 0
  OBVIOUS
<1>3. Chunks(<<>>) = 0
  BY <1>1, <1>2, WireAssumption DEF Chunks
<1> QED
  BY <1>3 DEF AsChunks

LEMMA InitMapped ==
  ASSUME Init
  PROVE  Packets!Init
<1>1. /\ phase = "idle" /\ window = <<>> /\ dataSeqNum = 0 /\ connection = FALSE
      /\ startACK = {} /\ next_seq = 0 /\ output = <<>>
      /\ toReceiver = <<>> /\ toSender = <<>>
  BY DEF Init
<1>2. Packets!SenderInit
  BY <1>1, NothingUnderWay DEF Packets!SenderInit
<1>3. Packets!ReceiverInit
  BY <1>1, NoChunks DEF Packets!ReceiverInit, Packets!FileIndex
<1>4. Packets!NetworkInit
  BY <1>1, NothingUnderWay DEF Packets!NetworkInit
<1> QED
  BY <1>2, <1>3, <1>4 DEF Packets!Init

(* What the receiver takes and answers. *)
LEMMA PacketTaken ==
  ASSUME NEW a, Received(randSeqNum, toReceiver) = {a}, toReceiver' = <<>>
  PROVE  Packets!receive(a)
<1>1. Received(randSeqNum, toReceiver)' = {}
  BY NothingUnderWay
<1> QED
  BY <1>1 DEF Packets!receive, Packets!Remaining

LEMMA AckSent ==
  ASSUME randSeqNum \in StartSeqs, UNCHANGED randSeqNum, toSender = <<>>,
         NEW w \in Word, Answering(w)
  PROVE  Packets!sendAck(SeqNumber(randSeqNum, w))
<1> DEFINE a == AckAs(SeqNumber(randSeqNum, w))
<1>1. Answers(randSeqNum, toSender) = {}
  BY NothingUnderWay
<1>2. Answers(randSeqNum, toSender)' = {a}
  BY AsAnswer DEF Answering, AckAs
<1>3. Packets!AckPacket(SeqNumber(randSeqNum, w)) = a
  BY DEF Packets!AckPacket, AckAs
<1> HIDE DEF a
<1> QED
  BY <1>1, <1>2, <1>3 DEF Packets!sendAck

LEMMA ReceiveMapped ==
  ASSUME file = Sent, Bursts, WireInv, WireInv', PacketsInv, PacketsInv', Receive
  PROVE  (\E a \in Received(randSeqNum, toReceiver) : Packets!ReceiverHandles(a))
         /\ UNCHANGED Packets!senderVars
<1>1. /\ toReceiver # <<>> /\ toReceiver' = <<>> /\ toSender = <<>>
      /\ UNCHANGED <<file, phase, randSeqNum, window, offset, dataSeqNum>>
  BY ReceiveCases DEF senderVars
<1>2. UNCHANGED Packets!senderVars
  BY <1>1 DEF Packets!senderVars
<1>3. CASE phase = "start" /\ StartArrives
  <2>1. randSeqNum \in StartSeqs /\ ~connection /\ startACK = {} /\ randSeqNum \in Word
    BY <1>1, <1>3 DEF PacketsInv, WireInv, WireTypeOK
  <2>2. /\ toReceiver = Datagram(Packet(START, <<>>, randSeqNum))
        /\ connection' = TRUE /\ startACK' = randSeqNum /\ next_seq' = 0
        /\ Answering(randSeqNum) /\ output' = output /\ output = <<>>
    BY <1>3 DEF StartArrives, WireInv, Starting
  <2> DEFINE a == [type |-> "START", seq |-> StartNumber, intact |-> TRUE]
  <2>3. Received(randSeqNum, toReceiver) = {a}
    BY <2>1, <2>2, AsControl
  <2>4. a.type = "START" /\ a.seq = StartNumber
    OBVIOUS
  <2> HIDE DEF a
  <2>5. SeqNumber(randSeqNum, randSeqNum) = StartNumber /\ randSeqNum # {}
    BY <2>1, ChunkCount, NumbersOfPackets
  <2>6. Packets!sendAck(StartNumber)
    BY <1>1, <2>1, <2>2, <2>5, AckSent
  <2>7. Packets!receive(a)
    BY <1>1, <2>3, PacketTaken
  <2>8. AsChunks(output) = <<>>
    BY <2>2, NoChunks
  <2>9. /\ (IF startACK = {} THEN -1 ELSE 0) + 1 = 0
        /\ (IF startACK = {} THEN -1 ELSE 0)' = 0
        /\ (IF startACK = {} THEN 0 ELSE SeqNumber(randSeqNum, startACK))' = StartNumber
    BY <1>1, <2>1, <2>2, <2>5
  <2>10. Packets!openOutput((IF startACK = {} THEN -1 ELSE 0) + 1)
    BY <2>2, <2>8, <2>9 DEF Packets!openOutput
  <2>11. Packets!StartAccepted(a)
    BY <2>1, <2>2, <2>4, <2>6, <2>7, <2>9, <2>10 DEF Packets!StartAccepted, Packets!sendAck
  <2> QED
    BY <1>2, <2>3, <2>11 DEF Packets!ReceiverHandles
<1>4. CASE phase = "end" /\ EndArrives
  <2>1. randSeqNum \in StartSeqs /\ randSeqNum \in Word
    BY <1>1, <1>4 DEF PacketsInv, WireInv, WireTypeOK
  <2>2. /\ toReceiver = Datagram(Packet(END, <<>>, randSeqNum))
        /\ connection' = FALSE /\ startACK = randSeqNum
        /\ Answering(randSeqNum) /\ UNCHANGED <<startACK, next_seq, output>>
    BY <1>4 DEF EndArrives
  <2> DEFINE a == [type |-> "END", seq |-> StartNumber, intact |-> TRUE]
  <2>3. Received(randSeqNum, toReceiver) = {a}
    BY <2>1, <2>2, AsControl, DifferentTypes
  <2>4. a.type = "END"
    OBVIOUS
  <2> HIDE DEF a
  <2>5. SeqNumber(randSeqNum, randSeqNum) = StartNumber /\ randSeqNum # {}
    BY <2>1, ChunkCount, NumbersOfPackets
  <2>6. Packets!sendAck(StartNumber)
    BY <1>1, <2>1, <2>2, <2>5, AckSent
  <2>7. Packets!receive(a)
    BY <1>1, <2>3, PacketTaken
  <2>8. Packets!EndReceived(a)
    BY <1>1, <2>2, <2>4, <2>5, <2>6, <2>7 DEF Packets!EndReceived
  <2> QED
    BY <1>2, <2>3, <2>8 DEF Packets!ReceiverHandles
<1>5. CASE /\ phase = "data"
           /\ \E c \in Seq(Byte), q \in WirePacket : ChunkSent(c) /\ ChunkArrives(c, q)
  <2>1. PICK c \in Seq(Byte), q \in WirePacket : ChunkSent(c) /\ ChunkArrives(c, q)
    BY <1>5
  <2>2. PICK bits \in Damages \cup {{}} :
          /\ q = Spoiled(Packet(DATA, c, Bits(next_seq)), bits)
          /\ q.checksum = crc32(q.data) => bits = {}
    BY <2>1 DEF ChunkArrives
  <2>3. /\ toReceiver = Datagram(q) /\ UNCHANGED <<connection, startACK>>
        /\ IF q.checksum = crc32(q.data)
             THEN /\ output' = output \o q.data /\ next_seq' = next_seq + 1
                  /\ Answering(Bits(next_seq + 1))
             ELSE UNCHANGED <<output, next_seq, toSender>>
    BY <2>1 DEF ChunkArrives
  <2>4. /\ q.type = DATA /\ q.seqNum = Bits(next_seq) /\ Len(q.data) <= CHUNK_SIZE
        /\ q.checksum = crc32(c) /\ (bits = {} => q.data = c)
    <3> DEFINE p == Packet(DATA, c, Bits(next_seq))
    <3>1. /\ p \in WirePacket /\ p.type = DATA /\ p.seqNum = Bits(next_seq)
          /\ p.data = c /\ p.checksum = crc32(c)
      BY BuiltPacket, BitsAreWord
    <3>2. q = Spoiled(p, bits)
      BY <2>2
    <3> HIDE DEF p
    <3>3. /\ q.type = p.type /\ q.seqNum = p.seqNum /\ q.checksum = p.checksum
          /\ q.data = Flip(p.data, bits)
      BY <3>1, <3>2, SpoiledPacket
    <3>4. Len(q.data) <= CHUNK_SIZE
      BY <2>1, <3>1, <3>3, FlippedData DEF ChunkSent
    <3>5. bits = {} => q = p
      BY <3>1, <3>2, NotSpoiled
    <3> QED
      BY <3>1, <3>3, <3>4, <3>5
  <2>5. /\ randSeqNum \in StartSeqs /\ next_seq \in 0..Chunks(Sent) /\ next_seq \in Nat
        /\ c = ChunkOf(Sent, next_seq)
    BY <1>5, <2>1, ChunkOfNumber DEF PacketsInv, WireInv, WireTypeOK
  <2> DEFINE t == IF q.data = ChunkOf(Sent, next_seq) THEN TRUE ELSE FALSE
             a == DataAs(next_seq, t)
  <2>6. Received(randSeqNum, toReceiver) = {a}
    BY <2>3, <2>4, <2>5, AsIntactData
  <2>7. /\ a.type = "DATA" /\ a.seq = next_seq /\ a.intact = t
        /\ a.data = [of |-> Sent, idx |-> next_seq]
    BY DEF DataAs
  <2>8. t \in BOOLEAN
    OBVIOUS
  <2> HIDE DEF a
  <2>9. Packets!receive(a)
    BY <1>1, <2>6, PacketTaken
  <2>10. CASE q.checksum # crc32(q.data)
    <3>1. ~a.intact
      BY <2>4, <2>5, <2>7, <2>10
    <3>2. UNCHANGED Answers(randSeqNum, toSender)
      BY <1>1, <2>3, <2>10
    <3>3. UNCHANGED Packets!receiverVars
      BY <1>1, <2>3, <2>10 DEF Packets!receiverVars
    <3>4. Packets!DataDropped(a)
      BY <2>7, <2>9, <3>1, <3>2, <3>3 DEF Packets!DataDropped
    <3> QED
      BY <1>2, <2>6, <3>4 DEF Packets!ReceiverHandles
  <2>11. CASE q.checksum = crc32(q.data)
    <3>1. q.data = c /\ a.intact
      BY <2>2, <2>4, <2>5, <2>7, <2>11
    <3>2. /\ output' = output \o c /\ next_seq' = next_seq + 1
          /\ Answering(Bits(next_seq + 1))
      BY <2>3, <2>11, <3>1
    <3>3. next_seq + 1 \in 0..Chunks(Sent)
      <4>1. Len(Sent) \in Nat /\ offset' \in 0..Len(Sent) /\ dataSeqNum' \in Nat
        BY <1>1, LenProperties DEF WireInv, WireTypeOK
      <4>2. Cut(Len(Sent), offset', dataSeqNum')
        BY <1>1 DEF PacketsInv
      <4>3. dataSeqNum' = next_seq + 1
        BY <1>1, <2>1 DEF ChunkSent
      <4> QED
        BY <4>1, <4>2, <4>3, CutNumbers DEF Chunks
    <3>4. SeqNumber(randSeqNum, Bits(next_seq + 1)) = next_seq + 1
      BY <2>5, <3>3, NumbersOfPackets
    <3>5. Packets!sendAck(next_seq + 1)
      BY <1>1, <2>5, <3>2, <3>4, AckSent, BitsAreWord
    <3>6. AsChunks(output') = Append(AsChunks(output), a.data)
      <4> DEFINE D(k) == [of |-> Sent, idx |-> k]
      <4>1. Sent \in Seq(Byte)
        BY SentAssumption, WireAssumption
      <4>2. /\ Len(Sent) \in Nat /\ Len(output) \in 0..Len(Sent) /\ Len(output') \in 0..Len(Sent)
            /\ output = SubSeq(Sent, 1, Len(output))
            /\ output' = SubSeq(Sent, 1, Len(output'))
        <5>1. /\ output \in Seq(Byte) /\ offset \in 0..Len(Sent)
              /\ output' \in Seq(Byte) /\ offset' \in 0..Len(Sent)
              /\ output = SubSeq(Sent, 1, Len(output))
              /\ output' = SubSeq(Sent, 1, Len(output'))
          BY <1>1 DEF WireInv, WireTypeOK
        <5>2. Len(Sent) \in Nat /\ Len(output) \in Nat /\ Len(output') \in Nat
          BY <4>1, <5>1, LenProperties
        <5>3. Len(output) <= offset
          BY <2>1 DEF ChunkSent
        <5>4. Len(output') <= offset'
          <6>1. Transferring'
            BY <1>1, <1>5 DEF WireInv
          <6> QED
            BY <5>1, <5>2, <6>1 DEF Transferring, UpToDate, ChunkSent
        <5> QED
          BY <5>1, <5>2, <5>3, <5>4
      <4>3. Cut(Len(Sent), Len(output), next_seq) /\ Cut(Len(Sent), Len(output'), next_seq + 1)
        BY <1>1, <3>2 DEF PacketsInv
      <4>4. /\ AsChunks(output) = [k \in 1..next_seq |-> D(k - 1)]
            /\ AsChunks(output') = [k \in 1..(next_seq + 1) |-> D(k - 1)]
        <5>1. ASSUME NEW len \in 0..Len(Sent), NEW n \in Nat, Cut(Len(Sent), len, n)
              PROVE  AsChunks(SubSeq(Sent, 1, len)) = [k \in 1..n |-> D(k - 1)]
          BY <4>1, <5>1, ChunksOfBeginning
        <5>2. next_seq + 1 \in Nat
          BY <2>5
        <5> HIDE DEF D
        <5> QED
          BY <2>5, <4>2, <4>3, <5>1, <5>2
      <4> HIDE DEF D
      <4>5. [k \in 1..(next_seq + 1) |-> D(k - 1)] =
              Append([k \in 1..next_seq |-> D(k - 1)], D(next_seq))
        BY <2>5
      <4> QED
        BY <2>7, <4>4, <4>5 DEF D
    <3>7. Packets!InWindow(a.seq)
      BY <2>5, <2>7 DEF Packets!InWindow
    <3>8. startACK = randSeqNum /\ randSeqNum # {}
      BY <1>5, <2>5, NumbersOfPackets DEF WireInv, Transferring
    <3>9. Packets!Stored(a)[next_seq] = a.data
      BY <2>7 DEF Packets!Stored
    <3>10. Packets!writeToFile(Packets!Stored(a)[next_seq])
      <4> DEFINE d == Packets!Stored(a)[next_seq]
      <4>1. AsChunks(output') = Append(AsChunks(output), d)
        BY <3>6, <3>9
      <4> HIDE DEF d
      <4>2. Packets!writeToFile(d)
        BY <3>8, <4>1 DEF Packets!writeToFile
      <4> QED
        BY <4>2 DEF d
    <3>11. Packets!Restrict(Packets!Stored(a), DOMAIN <<>> \ {next_seq}) = <<>>
      BY DEF Packets!Restrict
    <3>12. UNCHANGED <<connection, IF startACK = {} THEN -1 ELSE 0,
                       IF startACK = {} THEN 0 ELSE SeqNumber(randSeqNum, startACK), 0>>
      BY <1>1, <2>3
    <3> HIDE DEF t
    <3>13. Packets!DataWritten(a)
      BY <2>7, <2>9, <3>1, <3>2, <3>5, <3>7, <3>10, <3>11, <3>12 DEF Packets!DataWritten
    <3> QED
      BY <1>2, <2>6, <3>13 DEF Packets!ReceiverHandles
  <2> QED
    BY <2>10, <2>11
<1> QED
  BY <1>3, <1>4, <1>5, ReceiveCases

LEMMA StepMapped ==
  ASSUME file = Sent, Bursts, WireInv, WireInv', PacketsInv, PacketsInv', [Next]_vars
  PROVE  [Packets!Next]_(Packets!vars)
<1>1. CASE Launch
  BY <1>1, LaunchMapped DEF Packets!Next, Packets!SenderStep
<1>2. CASE OpenFile
  BY <1>2, OpenFileMapped DEF Packets!Next, Packets!SenderStep, Packets!SenderLocal
<1>3. CASE SendData
  BY <1>3, SendDataMapped DEF Packets!Next, Packets!SenderStep, Packets!SenderLocal
<1>4. CASE EndConnection
  BY <1>4, EndConnectionMapped DEF Packets!Next, Packets!SenderStep, Packets!SenderLocal
<1>5. CASE Retransmit
  BY <1>5, RetransmitMapped DEF Packets!Next, Packets!SenderStep, Packets!SenderReceives
<1>6. CASE Answered
  BY <1>6, AnsweredMapped DEF Packets!Next, Packets!SenderStep, Packets!SenderReceives
<1>7. CASE Damage
  BY <1>7, DamageMapped DEF Packets!Next
<1>8. CASE Receive
  BY <1>8, ReceiveMapped DEF Packets!Next, Packets!ReceiverStep
<1>9. CASE UNCHANGED vars
  BY <1>9, StutterMapped
<1> QED
  BY <1>1, <1>2, <1>3, <1>4, <1>5, <1>6, <1>7, <1>8, <1>9 DEF Next

(* The transfer of a file on the wire, byte by byte, is one of BaseTransfer *)
(* with both windows of one packet: whatever its bytes and however many,   *)
(* whatever the size of a chunk, and though DATA is damaged again and      *)
(* again, within 32 bits.                                                  *)
THEOREM PacketsAreImplemented ==
  ASSUME Bursts
  PROVE  Spec => ImplementsPackets
<1>1. Init => (file = Sent => Packets!Init)
  BY InitMapped
<1>2. WireInv /\ WireInv' /\ PacketsInv /\ PacketsInv' /\ [Next]_vars =>
        [file = Sent => [Packets!Next]_(Packets!vars)]_vars
  BY StepMapped
<1>3. Spec => []PacketsInv
  <2>1. WireInv /\ WireInv' /\ PacketsInv /\ [Next]_vars => PacketsInv'
    BY PacketsStep
  <2> QED
    BY <2>1, PacketsInit, WireInvariant, PTL DEF Spec
<1> QED
  BY <1>1, <1>2, <1>3, WireInvariant, PTL DEF Spec, ImplementsPackets
===========================================================================

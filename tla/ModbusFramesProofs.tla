------------------------- MODULE ModbusFramesProofs -------------------------
(***************************************************************************)
(* Lemmas about the frames of ModbusFrames and about cutting and joining   *)
(* the sequences of bytes they come in.                                    *)
(***************************************************************************)
EXTENDS ModbusFrames, SequenceTheorems, TLAPS

\* A sequence cut after its first k elements.
LEMMA Cut ==
    ASSUME NEW S, NEW s \in Seq(S), NEW k \in 0 .. Len(s)
    PROVE  /\ SubSeq(s, 1, k) \in Seq(S) /\ Len(SubSeq(s, 1, k)) = k
           /\ Drop(s, k) \in Seq(S) /\ Len(Drop(s, k)) = Len(s) - k
           /\ SubSeq(s, 1, k) \o Drop(s, k) = s
<1>0. Len(s) \in Nat /\ \A i \in 1 .. Len(s) : s[i] \in S
  BY ElementOfSeq, LenProperties
<1>1. SubSeq(s, 1, k) \in Seq(S) /\ Len(SubSeq(s, 1, k)) = k
  BY <1>0, SubSeqProperties
<1>2. Drop(s, k) \in Seq(S) /\ Len(Drop(s, k)) = Len(s) - k
  <2>1. \A i \in k + 1 .. Len(s) : s[i] \in S
    BY <1>0
  <2>2. /\ SubSeq(s, k + 1, Len(s)) \in Seq(S)
        /\ Len(SubSeq(s, k + 1, Len(s))) = IF k + 1 <= Len(s) THEN Len(s) - (k + 1) + 1 ELSE 0
    BY <1>0, <2>1, SubSeqProperties
  <2> QED
    BY <1>0, <2>2 DEF Drop
<1>3. SubSeq(s, 1, k) \o SubSeq(s, k + 1, Len(s)) = SubSeq(s, 1, Len(s))
  <2>1. 1 \in 1 .. Len(s) + 1 /\ k \in 1 - 1 .. Len(s) /\ Len(s) \in k .. Len(s)
    BY <1>0
  <2> QED
    BY <2>1, ConcatAdjacentSubSeq
<1> QED
  BY <1>1, <1>2, <1>3, SubSeqFull DEF Drop

-----------------------------------------------------------------------------
(* Frames are sequences of cells. *)

LEMMA CrcCells ==
    ASSUME NEW v \in Seq(Byte)
    PROVE  Crc(v) \in Seq(Cell) /\ Len(Crc(v)) = 2
<1>1. [v |-> CrcLo, crc |-> <<"lo", v>>] \in Cell
  BY CrcAssumption DEF Cell
<1>2. [v |-> CrcHi, crc |-> <<"hi", v>>] \in Cell
  BY CrcAssumption DEF Cell
<1> QED
  BY <1>1, <1>2 DEF Crc

LEMMA FrameCells ==
    ASSUME NEW v \in Seq(Byte)
    PROVE  Frame(v) \in Seq(Cell) /\ Len(Frame(v)) = Len(v) + 2
<1>1. Len(v) \in Nat /\ \A i \in 1 .. Len(v) : v[i] \in Byte
  BY ElementOfSeq, LenProperties
<1>2. \A i \in 1 .. Len(v) : [v |-> v[i], crc |-> <<>>] \in Cell
  BY <1>1 DEF Cell
<1>3. Cells(v) \in Seq(Cell) /\ Len(Cells(v)) = Len(v)
  BY <1>1, <1>2 DEF Cells
<1>4. Crc(v) \in Seq(Cell) /\ Len(Crc(v)) = 2
  BY CrcCells
<1>5. Cells(v) \o Crc(v) \in Seq(Cell) /\ Len(Cells(v) \o Crc(v)) = Len(Cells(v)) + Len(Crc(v))
  BY <1>3, <1>4, ConcatProperties
<1> QED
  BY <1>3, <1>4, <1>5 DEF Frame

LEMMA ValuesAreBytes ==
    ASSUME NEW b \in Seq(Cell)
    PROVE  ValuesOf(b) \in Seq(Byte) /\ Len(ValuesOf(b)) = Len(b)
<1>1. Len(b) \in Nat /\ \A i \in 1 .. Len(b) : b[i] \in Cell
  BY ElementOfSeq, LenProperties
<1>2. \A i \in 1 .. Len(b) : b[i].v \in Byte
  BY <1>1 DEF Cell
<1> QED
  BY <1>1, <1>2 DEF ValuesOf

LEMMA Words ==
    /\ \A n \in Word : n \in Int /\ 0 <= n /\ n <= 65535
    /\ \A n \in Int : 0 <= n /\ n <= 65535 => n \in Word
<1>1. MaxWord \in Int
  BY DEF MaxWord
<1>2. \A n \in Int : n <= MaxWord <=> n <= 65535
  BY DEF MaxWord
<1>3. \A n \in Word : n \in Int /\ 0 <= n /\ n <= MaxWord
  BY <1>1 DEF Word
<1>4. \A n \in Int : 0 <= n /\ n <= MaxWord => n \in Word
  BY <1>1 DEF Word
<1> QED
  BY <1>2, <1>3, <1>4

\* A 16-bit number in two bytes.
LEMMA TwoBytes ==
    ASSUME NEW n \in Word
    PROVE  n \div 256 \in Byte /\ n % 256 \in Byte
<1>1. /\ n \div 256 \in Int
      /\ 0 <= n \div 256
      /\ n \div 256 <= 255
  <2>1. n \in Int /\ 0 <= n /\ n <= 65535
    BY Words
  <2>2. n \div 256 \in Int
    BY <2>1
  <2>3. 0 <= n \div 256
    BY <2>1
  <2>4. n \div 256 <= 255
    BY <2>1
  <2> QED
    BY <2>2, <2>3, <2>4
<1>2. n % 256 \in 0 .. 255
  BY Words
<1> QED
  BY <1>1, <1>2 DEF Byte

LEMMA TwoBytesTogether ==
    ASSUME NEW h \in Byte, NEW l \in Byte
    PROVE  256 * h + l \in Word
<1>1. h \in Int /\ 0 <= h /\ h <= 255 /\ l \in Int /\ 0 <= l /\ l <= 255
  BY DEF Byte
<1>2. 256 * h + l \in Int
  BY <1>1
<1>3. 0 <= 256 * h + l
  BY <1>1
<1>4. 256 * h + l <= 65535
  BY <1>1
<1> QED
  BY <1>2, <1>3, <1>4, Words

LEMMA RequestParts ==
    ASSUME NEW r \in Request
    PROVE  /\ r.dev \in Byte /\ r.dev # 0 /\ r.fn \in {3, 4, 6} /\ r.fn \in Byte /\ 128 + r.fn \in Byte
           /\ r.start \in Word /\ r.count \in 1 .. 125 /\ r.count \in Word
<1>2. r.dev \in 1 .. 247 /\ r.fn \in {3, 4, 6} /\ r.start \in Word /\ r.count \in 1 .. 125
  BY DEF Request
<1>1. r.dev \in Byte /\ r.dev # 0
  BY <1>2 DEF Byte
<1>3. r.fn \in Byte /\ 128 + r.fn \in Byte
  BY <1>2 DEF Byte
<1>4. \A n \in 1 .. 125 : n \in Word
  BY Words
<1> QED
  BY <1>1, <1>2, <1>3, <1>4

LEMMA RequestCells ==
    ASSUME NEW r \in Request
    PROVE  RequestFrame(r) \in Seq(Cell) /\ Len(RequestFrame(r)) = 8
<1>2. /\ r.dev \in Byte /\ r.fn \in Byte
      /\ r.start \div 256 \in Byte /\ r.start % 256 \in Byte
      /\ r.count \div 256 \in Byte /\ r.count % 256 \in Byte
  BY RequestParts, TwoBytes
<1> DEFINE v == <<r.dev, r.fn, r.start \div 256, r.start % 256, r.count \div 256, r.count % 256>>
<1>3. v \in Seq(Byte) /\ Len(v) = 6
  BY <1>2
<1> HIDE DEF v
<1>4. Frame(v) \in Seq(Cell) /\ Len(Frame(v)) = Len(v) + 2
  BY <1>3, FrameCells
<1> QED
  BY <1>3, <1>4 DEF v, RequestFrame

LEMMA ReplyCells ==
    ASSUME NEW r \in Request, NEW data \in Seq(Byte)
    PROVE  ReplyFrame(r, data) \in Seq(Cell) /\ Len(ReplyFrame(r, data)) >= 2
<1>1. r.dev \in Byte /\ r.fn \in {3, 4, 6} /\ r.start \div 256 \in Byte /\ r.start % 256 \in Byte
  BY RequestParts, TwoBytes
<1>2. 3 \in Byte /\ 4 \in Byte /\ 2 * r.count \in Byte
  <2>1. \A n \in 1 .. 125 : 2 * n \in Byte
    BY DEF Byte
  <2>2. 3 \in Byte /\ 4 \in Byte
    BY DEF Byte
  <2> QED
    BY <2>1, <2>2, RequestParts
<1>4. CASE r.fn = 3
  <2> DEFINE h == <<r.dev, 3, 2 * r.count>>
  <2>1. h \in Seq(Byte) /\ Len(h) = 3
    BY <1>1, <1>2
  <2> HIDE DEF h
  <2>2. h \o data \in Seq(Byte)
    BY <2>1, ConcatProperties
  <2>3. ReplyFrame(r, data) = Frame(h \o data)
    BY <1>4 DEF ReplyFrame, h
  <2>4. /\ Frame(h \o data) \in Seq(Cell)
        /\ Len(Frame(h \o data)) = Len(h \o data) + 2
    BY <2>2, FrameCells
  <2>5. Len(h \o data) \in Nat
    BY <2>2, LenProperties
  <2> QED
    BY <2>3, <2>4, <2>5
<1>5. CASE r.fn = 4
  <2> DEFINE h == <<r.dev, 4, r.start \div 256, r.start % 256>>
  <2>1. h \in Seq(Byte) /\ Len(h) = 4
    BY <1>1, <1>2
  <2> HIDE DEF h
  <2>2. h \o data \in Seq(Byte)
    BY <2>1, ConcatProperties
  <2>3. ReplyFrame(r, data) = Frame(h \o data)
    BY <1>5 DEF ReplyFrame, h
  <2>4. /\ Frame(h \o data) \in Seq(Cell)
        /\ Len(Frame(h \o data)) = Len(h \o data) + 2
    BY <2>2, FrameCells
  <2>5. Len(h \o data) \in Nat
    BY <2>2, LenProperties
  <2> QED
    BY <2>3, <2>4, <2>5
<1>6. CASE r.fn = 6
  <2>1. ReplyFrame(r, data) = RequestFrame(r)
    BY <1>6 DEF ReplyFrame
  <2>2. RequestFrame(r) \in Seq(Cell) /\ Len(RequestFrame(r)) = 8
    BY RequestCells
  <2> QED
    BY <2>1, <2>2
<1> QED
  BY <1>1, <1>4, <1>5, <1>6

LEMMA ExceptionCells ==
    ASSUME NEW r \in Request
    PROVE  ExceptionFrame(r) \in Seq(Cell) /\ Len(ExceptionFrame(r)) >= 2
<1> DEFINE v == <<r.dev, 128 + r.fn, 2>>
<1>1. v \in Seq(Byte) /\ Len(v) = 3
  <2>1. 2 \in Byte /\ r.dev \in Byte /\ 128 + r.fn \in Byte
    BY RequestParts DEF Byte
  <2> QED
    BY <2>1
<1> HIDE DEF v
<1>2. Frame(v) \in Seq(Cell) /\ Len(Frame(v)) = Len(v) + 2
  BY <1>1, FrameCells
<1>3. Frame(v) \in Seq(Cell) /\ Len(Frame(v)) >= 2
  BY <1>1, <1>2
<1>4. ExceptionFrame(r) = Frame(v)
  BY DEF v, ExceptionFrame
<1> QED
  BY <1>3, <1>4

LEMMA DamagedCells ==
    ASSUME NEW f \in Seq(Cell), Len(f) >= 2, NEW how \in Damages
    PROVE  Damaged(f, how) \in Seq(Cell)
<1>0. Len(f) \in Nat /\ \A i \in 1 .. Len(f) : f[i] \in Cell
  BY ElementOfSeq, LenProperties
<1>1. CASE how = "none"
  BY <1>1 DEF Damaged
<1>2. CASE how = "crc"
  <2>1. [f[Len(f)] EXCEPT !.crc = <<>>] \in Cell
    BY <1>0 DEF Cell
  <2>2. [f EXCEPT ![Len(f)] = [f[Len(f)] EXCEPT !.crc = <<>>]] \in Seq(Cell)
    BY <1>0, <2>1, ExceptSeq
  <2> QED
    BY <1>2, <2>2 DEF Damaged
<1>3. CASE how = "id"
  <2>0. 0 \in Byte
    BY DEF Byte
  <2>1. [f[1] EXCEPT !.v = 0] \in Cell
    BY <1>0, <2>0 DEF Cell
  <2>2. [f EXCEPT ![1] = [f[1] EXCEPT !.v = 0]] \in Seq(Cell)
    BY <1>0, <2>1, ExceptSeq
  <2> QED
    BY <1>3, <2>2 DEF Damaged
<1>4. CASE how = "cut"
  BY <1>0, <1>4, SubSeqProperties DEF Damaged
<1> QED
  BY <1>1, <1>2, <1>3, <1>4 DEF Damages

-----------------------------------------------------------------------------
(* Sequences put together. *)

\* The start of a sequence put together from two.
LEMMA Start ==
    ASSUME NEW S, NEW s \in Seq(S), NEW t \in Seq(S)
    PROVE  SubSeq(s \o t, 1, Len(s)) = s
<1>1. Len(s) \in Nat /\ Len(t) \in Nat
  BY LenProperties
<1>2. SubSeq(s \o t, 1, Len(s)) = SubSeq(s, 1, Len(s))
  <2>1. 1 \in 1 .. Len(s) + 1 /\ Len(s) \in 1 - 1 .. Len(s)
    BY <1>1
  <2> QED
    BY <2>1, SubSeqOfConcat1
<1> QED
  BY <1>2, SubSeqFull

\* The order in which three sequences are put together does not matter.
LEMMA Regroup ==
    \A s, t, u \in Seq(Cell) : (s \o t) \o u = s \o (t \o u)
  BY ConcatAssociative

\* Three sequences put together begin with the first.
LEMMA WholeStart ==
    ASSUME NEW f \in Seq(Cell), NEW b \in Seq(Cell), NEW u \in Seq(Cell)
    PROVE  f = SubSeq(f \o (b \o u), 1, Len(f)) /\ f \o b \o u = f \o (b \o u)
<1>1. b \o u \in Seq(Cell)
  BY ConcatProperties
<1>2. SubSeq(f \o (b \o u), 1, Len(f)) = f
  BY <1>1, Start
<1>3. f \o b \o u = f \o (b \o u)
  BY Regroup, Zenon
<1> QED
  BY <1>2, <1>3

-----------------------------------------------------------------------------
(* What a CRC shows. *)

\* A part of a sequence, element by element.
LEMMA Part ==
    ASSUME NEW S, NEW s \in Seq(S), NEW a \in Nat, NEW n \in Nat, a + n <= Len(s)
    PROVE  /\ SubSeq(s, a + 1, a + n) \in Seq(S) /\ Len(SubSeq(s, a + 1, a + n)) = n
           /\ \A p \in 1 .. n : SubSeq(s, a + 1, a + n)[p] = s[a + p]
<1>0. Len(s) \in Nat /\ \A i \in 1 .. Len(s) : s[i] \in S
  BY ElementOfSeq, LenProperties
<1> DEFINE m == a + 1
           l == a + n
<1>1. m \in Int /\ l \in Int /\ \A i \in m .. l : s[i] \in S
  BY <1>0
<1>2. l - m + 1 = n /\ (m <= l <=> 1 <= n)
  OBVIOUS
<1>3. \A p \in 1 .. n : m + p - 1 = a + p
  OBVIOUS
<1> HIDE DEF m, l
<1>4. /\ SubSeq(s, m, l) \in Seq(S)
      /\ Len(SubSeq(s, m, l)) = IF m <= l THEN l - m + 1 ELSE 0
      /\ \A p \in 1 .. l - m + 1 : SubSeq(s, m, l)[p] = s[m + p - 1]
  BY <1>1, SubSeqProperties, SMTT(30)
<1>5. SubSeq(s, m, l) \in Seq(S) /\ Len(SubSeq(s, m, l)) = n
  BY <1>2, <1>4
<1>6. \A p \in 1 .. n : SubSeq(s, m, l)[p] = s[a + p]
  BY <1>2, <1>3, <1>4
<1> QED
  BY <1>5, <1>6 DEF m, l

\* The start of a sequence, element by element.
LEMMA StartPart ==
    ASSUME NEW S, NEW s \in Seq(S), NEW n \in Nat, n <= Len(s)
    PROVE  /\ SubSeq(s, 1, n) \in Seq(S) /\ Len(SubSeq(s, 1, n)) = n
           /\ \A p \in 1 .. n : SubSeq(s, 1, n)[p] = s[p]
<1>1. n \in Nat /\ 0 + n <= Len(s) /\ 0 + n = n /\ \A p \in 1 .. n : 0 + p = p
  BY LenProperties
<1>2. /\ SubSeq(s, 0 + 1, 0 + n) \in Seq(S) /\ Len(SubSeq(s, 0 + 1, 0 + n)) = n
      /\ \A p \in 1 .. n : SubSeq(s, 0 + 1, 0 + n)[p] = s[0 + p]
  BY <1>1, Part
<1> QED
  BY <1>1, <1>2

\* What is left of a sequence, element by element.
LEMMA RestPart ==
    ASSUME NEW S, NEW s \in Seq(S), NEW n \in 0 .. Len(s)
    PROVE  /\ Drop(s, n) \in Seq(S) /\ Len(Drop(s, n)) = Len(s) - n
           /\ \A p \in 1 .. Len(s) - n : Drop(s, n)[p] = s[n + p]
<1> DEFINE m == Len(s) - n
<1>1. Len(s) \in Nat /\ n \in Nat /\ m \in Nat /\ n + m = Len(s)
  BY LenProperties
<1> HIDE DEF m
<1>2. \A p \in 1 .. m : SubSeq(s, n + 1, n + m)[p] = s[n + p]
  BY <1>1, Part
<1>3. SubSeq(s, n + 1, n + m) = Drop(s, n)
  BY <1>1 DEF Drop
<1> QED
  BY <1>2, <1>3, Cut DEF m

\* A byte that is no part of a CRC, and the two of the CRC of some values.
DataCell(value) == [v |-> value, crc |-> <<>>]
LoCell(values) == [v |-> CrcLo, crc |-> <<"lo", values>>]
HiCell(values) == [v |-> CrcHi, crc |-> <<"hi", values>>]

NoCrc(c) == c.crc = <<>>
LoOf(c, values) == c.crc = <<"lo", values>>
HiOf(c, values) == c.crc = <<"hi", values>>

LEMMA DataCells ==
    ASSUME NEW x
    PROVE  DataCell(x).v = x /\ NoCrc(DataCell(x))
  BY DEF DataCell, NoCrc

LEMMA NoCrcNeither ==
    ASSUME NEW c, NoCrc(c), NEW w
    PROVE  ~LoOf(c, w) /\ ~HiOf(c, w)
  BY DEF NoCrc, LoOf, HiOf

LEMMA LoNotHi ==
    ASSUME NEW c, NEW w, LoOf(c, w), NEW x
    PROVE  ~HiOf(c, x)
  BY DEF LoOf, HiOf

LEMMA CrcOf ==
    ASSUME NEW w, NEW x
    PROVE  /\ LoOf(LoCell(w), w) /\ HiOf(HiCell(w), w)
           /\ HiOf(HiCell(w), x) => w = x
           /\ HiCell(w) = HiCell(x) => w = x
  BY DEF LoCell, HiCell, LoOf, HiOf

\* A frame is its values, byte by byte, and the two bytes of their CRC.
LEMMA FrameParts ==
    ASSUME NEW v \in Seq(Byte)
    PROVE  /\ Frame(v) \in Seq(Cell) /\ Len(Frame(v)) = Len(v) + 2
           /\ \A p \in 1 .. Len(v) : Frame(v)[p] = DataCell(v[p])
           /\ Frame(v)[Len(v) + 1] = LoCell(v) /\ Frame(v)[Len(v) + 2] = HiCell(v)
<1>1. Len(v) \in Nat
  BY LenProperties
<1>2. Frame(v) \in Seq(Cell) /\ Len(Frame(v)) = Len(v) + 2
  BY FrameCells
<1>3. /\ Cells(v) \in Seq(Cell) /\ Len(Cells(v)) = Len(v)
      /\ \A p \in 1 .. Len(v) : Cells(v)[p] = DataCell(v[p])
  <2>1. \A p \in 1 .. Len(v) : [v |-> v[p], crc |-> <<>>] \in Cell
    BY ElementOfSeq DEF Cell
  <2> QED
    BY <1>1, <2>1 DEF Cells, DataCell
<1>4. Crc(v) \in Seq(Cell) /\ Len(Crc(v)) = 2 /\ Crc(v)[1] = LoCell(v) /\ Crc(v)[2] = HiCell(v)
  BY CrcCells DEF Crc, LoCell, HiCell
<1>5. \A p \in 1 .. Len(Cells(v)) + Len(Crc(v)) :
         (Cells(v) \o Crc(v))[p] = IF p <= Len(Cells(v)) THEN Cells(v)[p] ELSE Crc(v)[p - Len(Cells(v))]
  BY <1>3, <1>4, ConcatProperties, SMTT(30)
<1>6. \A p \in 1 .. Len(v) + 2 : Frame(v)[p] = IF p <= Len(v) THEN Cells(v)[p] ELSE Crc(v)[p - Len(v)]
  BY <1>3, <1>4, <1>5 DEF Frame
<1>7. \A p \in 1 .. Len(v) : Frame(v)[p] = Cells(v)[p]
  BY <1>1, <1>6
<1>8. Frame(v)[Len(v) + 1] = Crc(v)[1]
  <2>1. Len(v) + 1 \in 1 .. Len(v) + 2 /\ ~ (Len(v) + 1 <= Len(v)) /\ Len(v) + 1 - Len(v) = 1
    BY <1>1
  <2> QED
    BY <1>6, <2>1
<1>9. Frame(v)[Len(v) + 2] = Crc(v)[2]
  <2>1. Len(v) + 2 \in 1 .. Len(v) + 2 /\ ~ (Len(v) + 2 <= Len(v)) /\ Len(v) + 2 - Len(v) = 2
    BY <1>1
  <2> QED
    BY <1>6, <2>1
<1> QED
  BY <1>2, <1>3, <1>4, <1>7, <1>8, <1>9

\* A CRC matches when its two bytes were computed over the bytes before them.
LEMMA ValidCrc ==
    ASSUME NEW b \in Seq(Cell), NEW n \in Nat, 2 <= n, n <= Len(b)
    PROVE  LET values == [p \in 1 .. n - 2 |-> b[p].v]
           IN  HasValidCrc(b, n) <=> b[n - 1] = LoCell(values) /\ b[n] = HiCell(values)
<1> DEFINE values == [p \in 1 .. n - 2 |-> b[p].v]
           h == SubSeq(b, 1, n - 2)
           c == SubSeq(b, n - 1, n)
<1>1. n - 2 \in Nat /\ Len(b) \in Nat /\ n - 2 <= Len(b)
  BY LenProperties
<1>2. h \in Seq(Cell) /\ Len(h) = n - 2 /\ \A p \in 1 .. n - 2 : h[p] = b[p]
  BY <1>1, StartPart
<1>3. Len(c) = 2 /\ c \in Seq(Cell) /\ c[1] = b[n - 1] /\ c[2] = b[n]
  <2> DEFINE k == n - 2
  <2>1. k \in Nat /\ k + 2 <= Len(b) /\ k + 1 = n - 1 /\ k + 2 = n /\ 2 \in Nat /\ 1 \in 1 .. 2 /\ 2 \in 1 .. 2
    BY <1>1
  <2> HIDE DEF k
  <2>2. /\ SubSeq(b, k + 1, k + 2) \in Seq(Cell) /\ Len(SubSeq(b, k + 1, k + 2)) = 2
        /\ \A p \in 1 .. 2 : SubSeq(b, k + 1, k + 2)[p] = b[k + p]
    BY <2>1, Part
  <2> QED
    BY <2>1, <2>2
<1> HIDE DEF h, c
<1>4. ValuesOf(h) = values
  BY <1>2 DEF ValuesOf
<1>5. HasValidCrc(b, n) <=> c = Crc(values)
  BY <1>4 DEF HasValidCrc, h, c
<1> HIDE DEF values
<1>6. c = <<c[1], c[2]>>
  BY <1>3
<1>7. c = Crc(values) <=> c[1] = LoCell(values) /\ c[2] = HiCell(values)
  <2>1. ASSUME c = Crc(values) PROVE c[1] = LoCell(values) /\ c[2] = HiCell(values)
    BY <2>1 DEF Crc, LoCell, HiCell
  <2>2. ASSUME c[1] = LoCell(values), c[2] = HiCell(values) PROVE c = Crc(values)
    BY <1>6, <2>2 DEF Crc, LoCell, HiCell
  <2> QED
    BY <2>1, <2>2
<1> QED
  BY <1>3, <1>5, <1>7 DEF values

\* The CRC of a frame matches.
LEMMA FrameIsValid ==
    ASSUME NEW v \in Seq(Byte)
    PROVE  HasValidCrc(Frame(v), Len(v) + 2)
<1> DEFINE f == Frame(v)
           n == Len(v) + 2
           values == [p \in 1 .. n - 2 |-> f[p].v]
<1>1. Len(v) \in Nat /\ n \in Nat /\ 2 <= n /\ n - 2 = Len(v) /\ n - 1 = Len(v) + 1
  BY LenProperties
<1>2. /\ f \in Seq(Cell) /\ Len(f) = n /\ f[n - 1] = LoCell(v) /\ f[n] = HiCell(v)
      /\ \A p \in 1 .. Len(v) : f[p].v = v[p]
  <2>1. /\ f \in Seq(Cell) /\ Len(f) = Len(v) + 2
        /\ \A p \in 1 .. Len(v) : f[p] = DataCell(v[p])
        /\ f[Len(v) + 1] = LoCell(v) /\ f[Len(v) + 2] = HiCell(v)
    BY FrameParts
  <2> HIDE DEF f, n
  <2>2. \A p \in 1 .. Len(v) : f[p].v = v[p]
    BY <2>1, DataCells
  <2> QED
    BY <1>1, <2>1, <2>2
<1>3. values = v
  <2>1. v = [p \in 1 .. Len(v) |-> v[p]]
    OBVIOUS
  <2> HIDE DEF f, n
  <2>2. values = [p \in 1 .. Len(v) |-> f[p].v]
    BY <1>1
  <2>3. [p \in 1 .. Len(v) |-> f[p].v] = [p \in 1 .. Len(v) |-> v[p]]
    BY <1>2
  <2> QED
    BY <2>1, <2>2, <2>3
<1>4. n <= Len(f)
  BY <1>1, <1>2
<1> HIDE DEF f, n
<1>5. HasValidCrc(f, n) <=> f[n - 1] = LoCell(values) /\ f[n] = HiCell(values)
  BY <1>1, <1>2, <1>4, ValidCrc
<1> QED
  BY <1>2, <1>3, <1>5 DEF f, n

\* The frames that a device may answer with are frames of an address and two more
\* bytes at least.
Answer(f) == \E v \in Seq(Byte) : Len(v) >= 3 /\ v[1] # 0 /\ f = Frame(v)

\* Of a frame that came through spoilt the last byte is still that of its CRC only
\* if the address is spoilt, and no CRC matches.
LEMMA DamagedFrame ==
    ASSUME NEW v \in Seq(Byte), Len(v) >= 3, v[1] # 0, NEW how \in Damages
    PROVE  LET g == Damaged(Frame(v), how)
           IN  /\ g \in Seq(Cell) /\ Len(g) \in Nat /\ Len(g) >= 4
               /\ NoCrc(g[1])
               /\ \A w : \A p \in 1 .. Len(g) : HiOf(g[p], w) => p = Len(g) /\ w = v /\ Len(g) = Len(v) + 2
               /\ how = "none" <=> HasValidCrc(g, Len(g))
<1> DEFINE f == Frame(v)
           n == Len(v) + 2
<1>0. Len(v) \in Nat /\ n \in Nat /\ 5 <= n /\ n - 1 = Len(v) + 1 /\ n - 2 = Len(v)
  BY LenProperties
<1>1. /\ f \in Seq(Cell) /\ Len(f) = n
      /\ \A p \in 1 .. Len(v) : f[p] = DataCell(v[p])
      /\ f[n - 1] = LoCell(v) /\ f[n] = HiCell(v)
  <2>1. /\ f \in Seq(Cell) /\ Len(f) = Len(v) + 2
        /\ \A p \in 1 .. Len(v) : f[p] = DataCell(v[p])
        /\ f[Len(v) + 1] = LoCell(v) /\ f[Len(v) + 2] = HiCell(v)
    BY FrameParts
  <2> HIDE DEF f, n
  <2> QED
    BY <1>0, <2>1
<1>2. HasValidCrc(f, n)
  BY FrameIsValid
<1>n. n = Len(v) + 2
  OBVIOUS
<1> HIDE DEF f, n
<1>3. NoCrc(f[1]) /\ f[1].v = v[1]
  <2>1. f[1] = DataCell(v[1])
    BY <1>0, <1>1
  <2> QED
    BY <2>1, DataCells
<1>4. ASSUME NEW p \in 1 .. n, NEW w, HiOf(f[p], w) PROVE p = n /\ w = v
  <2>1. CASE p \in 1 .. Len(v)
    BY <1>1, <1>4, <2>1, DataCells, NoCrcNeither
  <2>2. CASE p = n - 1
    <3>1. LoOf(f[p], v)
      BY <1>1, <2>2, CrcOf
    <3> QED
      BY <1>4, <3>1, LoNotHi
  <2>3. CASE p = n
    BY <1>1, <1>4, <2>3, CrcOf
  <2> QED
    BY <1>0, <2>1, <2>2, <2>3
<1>5. Len(f) >= 2
  BY <1>0, <1>1
<1>6. Damaged(f, how) \in Seq(Cell)
  BY <1>1, <1>5, DamagedCells
\* With no byte that ends a CRC no CRC matches.
<1>h. ASSUME NEW g \in Seq(Cell), NEW k \in Nat, 4 <= k, Len(g) = k, HasValidCrc(g, k)
      PROVE  HiOf(g[k], [p \in 1 .. k - 2 |-> g[p].v])
  <2>1. g[k] = HiCell([p \in 1 .. k - 2 |-> g[p].v])
    BY <1>h, ValidCrc
  <2> QED
    BY <2>1, CrcOf
<1>7. CASE how = "none"
  <2>1. Damaged(f, how) = f
    BY <1>7 DEF Damaged
  <2>2. Len(f) \in Nat /\ Len(f) >= 4 /\ Len(f) = Len(v) + 2
    BY <1>0, <1>1, <1>n
  <2>3. how = "none" <=> HasValidCrc(f, Len(f))
    BY <1>1, <1>2, <1>7
  <2>4. \A w : \A p \in 1 .. Len(f) : HiOf(f[p], w) => p = Len(f) /\ w = v
    BY <1>1, <1>4
  <2> QED
    BY <1>1, <1>3, <2>1, <2>2, <2>3, <2>4 DEF f
<1>8. CASE how = "crc"
  <2> DEFINE g == [f EXCEPT ![Len(f)].crc = <<>>]
  <2>1. Damaged(f, how) = g /\ g \in Seq(Cell)
    BY <1>6, <1>8 DEF Damaged
  <2>2. Len(g) = n /\ NoCrc(g[n]) /\ \A p \in 1 .. n - 1 : g[p] = f[p]
    BY <1>0, <1>1 DEF NoCrc, HiCell
  <2> HIDE DEF g
  <2>3. ASSUME NEW p \in 1 .. n, NEW w PROVE ~HiOf(g[p], w)
    <3>1. CASE p = n
      BY <2>2, <3>1, NoCrcNeither
    <3>2. CASE p \in 1 .. n - 1
      <4>1. g[p] = f[p] /\ p # n
        BY <1>0, <2>2, <3>2
      <4> QED
        BY <1>4, <4>1
    <3> QED
      BY <1>0, <3>1, <3>2
  <2>4. ~HasValidCrc(g, n)
    <3>1. 4 <= n /\ n \in 1 .. n
      BY <1>0
    <3> QED
      BY <1>0, <1>h, <2>1, <2>2, <2>3, <3>1
  <2>5. NoCrc(g[1])
    <3>1. g[1] = f[1]
      BY <1>0, <2>2
    <3> QED
      BY <1>3, <3>1
  <2>6. Len(g) \in Nat /\ Len(g) >= 4
    BY <1>0, <2>2
  <2>7. how # "none" /\ ~HasValidCrc(g, Len(g))
    BY <1>8, <2>2, <2>4
  <2>8. \A w : \A p \in 1 .. Len(g) : ~HiOf(g[p], w)
    BY <2>2, <2>3
  <2> QED
    BY <2>1, <2>5, <2>6, <2>7, <2>8 DEF f
<1>9. CASE how = "id"
  <2> DEFINE g == [f EXCEPT ![1].v = 0]
  <2>1. Damaged(f, how) = g /\ g \in Seq(Cell)
    BY <1>6, <1>9 DEF Damaged
  <2>2. Len(g) = n /\ g[1].v = 0 /\ NoCrc(g[1]) /\ \A p \in 2 .. n : g[p] = f[p]
    <3>1. f[1] = DataCell(v[1])
      BY <1>0, <1>1
    <3> QED
      BY <1>0, <1>1, <3>1 DEF NoCrc, DataCell
  <2> HIDE DEF g
  <2>3. ASSUME NEW p \in 1 .. n, NEW w, HiOf(g[p], w) PROVE p = n /\ w = v
    <3>1. p # 1
      BY <2>2, <2>3, NoCrcNeither
    <3>2. p \in 2 .. n
      BY <1>0, <3>1
    <3> QED
      BY <1>4, <2>2, <2>3, <3>2
  <2>4. ~HasValidCrc(g, n)
    <3> DEFINE values == [p \in 1 .. n - 2 |-> g[p].v]
    <3> SUFFICES ASSUME HasValidCrc(g, n) PROVE FALSE
      OBVIOUS
    <3>1. HiOf(g[n], values)
      <4>1. 4 <= n
        BY <1>0
      <4> HIDE DEF values
      <4> QED
        BY <1>0, <1>h, <2>1, <2>2, <4>1 DEF values
    <3>2. values[1] = 0
      BY <1>0, <2>2
    <3>3. n \in 1 .. n
      BY <1>0
    <3> HIDE DEF values
    <3>4. values = v
      BY <2>3, <3>1, <3>3
    <3> QED
      BY <3>2, <3>4
  <2>5. Len(g) \in Nat /\ Len(g) >= 4 /\ Len(g) = Len(v) + 2
    BY <1>0, <1>n, <2>2
  <2>6. how # "none" /\ ~HasValidCrc(g, Len(g))
    BY <1>9, <2>2, <2>4
  <2>7. \A w : \A p \in 1 .. Len(g) : HiOf(g[p], w) => p = Len(g) /\ w = v
    BY <2>2, <2>3
  <2> QED
    BY <2>1, <2>2, <2>5, <2>6, <2>7 DEF f
<1>10. CASE how = "cut"
  <2> DEFINE g == SubSeq(f, 1, n - 1)
  <2>1. Damaged(f, how) = g
    BY <1>1, <1>10 DEF Damaged
  <2>2. g \in Seq(Cell) /\ Len(g) = n - 1 /\ \A p \in 1 .. n - 1 : g[p] = f[p]
    <3> DEFINE k == n - 1
    <3>1. k \in Nat /\ 0 + k = k /\ 0 + k <= Len(f) /\ \A p \in 1 .. k : 0 + p = p
      BY <1>0, <1>1
    <3> HIDE DEF k
    <3>2. /\ SubSeq(f, 0 + 1, 0 + k) \in Seq(Cell) /\ Len(SubSeq(f, 0 + 1, 0 + k)) = k
          /\ \A p \in 1 .. k : SubSeq(f, 0 + 1, 0 + k)[p] = f[0 + p]
      BY <1>1, <3>1, Part
    <3>3. /\ SubSeq(f, 1, k) \in Seq(Cell) /\ Len(SubSeq(f, 1, k)) = k
          /\ \A p \in 1 .. k : SubSeq(f, 1, k)[p] = f[p]
      BY <3>1, <3>2
    <3> QED
      BY <3>3 DEF k
  <2> HIDE DEF g
  <2>3. ASSUME NEW p \in 1 .. n - 1, NEW w PROVE ~HiOf(g[p], w)
    <3>1. g[p] = f[p] /\ p \in 1 .. n /\ p # n
      BY <1>0, <2>2
    <3> QED
      BY <1>4, <3>1
  <2>4. ~HasValidCrc(g, n - 1)
    <3> DEFINE k == n - 1
    <3>1. k \in Nat /\ 4 <= k /\ k \in 1 .. n - 1 /\ Len(g) = k
      BY <1>0, <2>2
    <3> HIDE DEF k
    <3>2. ~HasValidCrc(g, k)
      BY <1>h, <2>2, <2>3, <3>1
    <3> QED
      BY <3>2 DEF k
  <2>5. NoCrc(g[1])
    <3>1. g[1] = f[1]
      BY <1>0, <2>2
    <3> QED
      BY <1>3, <3>1
  <2>6. Len(g) \in Nat /\ Len(g) >= 4
    BY <1>0, <2>2
  <2>7. how # "none" /\ ~HasValidCrc(g, Len(g))
    BY <1>10, <2>2, <2>4
  <2>8. \A w : \A p \in 1 .. Len(g) : ~HiOf(g[p], w)
    BY <2>2, <2>3
  <2> QED
    BY <2>1, <2>2, <2>5, <2>6, <2>7, <2>8 DEF f
<1> QED
  BY <1>7, <1>8, <1>9, <1>10 DEF Damages

LEMMA ReplyIsAnswer ==
    ASSUME NEW r \in Request, NEW data \in Seq(Byte)
    PROVE  Answer(ReplyFrame(r, data)) /\ Answer(ExceptionFrame(r)) /\ Answer(RequestFrame(r))
<1>1. /\ r.dev \in Byte /\ r.dev # 0 /\ r.fn \in {3, 4, 6} /\ r.fn \in Byte /\ 128 + r.fn \in Byte
      /\ r.start \div 256 \in Byte /\ r.start % 256 \in Byte
      /\ r.count \div 256 \in Byte /\ r.count % 256 \in Byte
  BY RequestParts, TwoBytes
<1>2. 2 \in Byte /\ 3 \in Byte /\ 4 \in Byte /\ 2 * r.count \in Byte
  <2>1. \A n \in 1 .. 125 : 2 * n \in Byte
    BY DEF Byte
  <2>2. 2 \in Byte /\ 3 \in Byte /\ 4 \in Byte
    BY DEF Byte
  <2> QED
    BY <2>1, <2>2, RequestParts
<1>3. ASSUME NEW h \in Seq(Byte), Len(h) >= 3, h[1] # 0 PROVE Answer(Frame(h \o data))
  <2>1. Len(h) \in Nat /\ Len(data) \in Nat
    BY LenProperties
  <2>2. h \o data \in Seq(Byte) /\ Len(h \o data) = Len(h) + Len(data)
    BY ConcatProperties
  <2>3. (h \o data)[1] = h[1]
    <3>1. 1 \in 1 .. Len(h) + Len(data) /\ 1 <= Len(h)
      BY <1>3, <2>1
    <3> QED
      BY <3>1, ConcatProperties
  <2>4. Len(h \o data) >= 3
    BY <1>3, <2>1, <2>2
  <2> QED
    BY <1>3, <2>2, <2>3, <2>4 DEF Answer
<1>4. Answer(RequestFrame(r))
  <2> DEFINE v == <<r.dev, r.fn, r.start \div 256, r.start % 256, r.count \div 256, r.count % 256>>
  <2>1. v \in Seq(Byte) /\ Len(v) = 6 /\ v[1] # 0
    BY <1>1
  <2>2. RequestFrame(r) = Frame(v)
    BY DEF RequestFrame
  <2> HIDE DEF v
  <2>3. Len(v) >= 3
    BY <2>1
  <2> QED
    BY <2>1, <2>2, <2>3 DEF Answer
<1>5. Answer(ExceptionFrame(r))
  <2> DEFINE v == <<r.dev, 128 + r.fn, 2>>
  <2>1. v \in Seq(Byte) /\ Len(v) = 3 /\ v[1] # 0
    BY <1>1, <1>2
  <2>2. ExceptionFrame(r) = Frame(v)
    BY DEF ExceptionFrame
  <2> HIDE DEF v
  <2>3. Len(v) >= 3
    BY <2>1
  <2> QED
    BY <2>1, <2>2, <2>3 DEF Answer
<1>6. Answer(ReplyFrame(r, data))
  <2>1. CASE r.fn = 3
    <3> DEFINE h == <<r.dev, 3, 2 * r.count>>
    <3>1. h \in Seq(Byte) /\ Len(h) = 3 /\ h[1] # 0
      BY <1>1, <1>2
    <3>2. ReplyFrame(r, data) = Frame(h \o data)
      BY <2>1 DEF ReplyFrame
    <3> HIDE DEF h
    <3>3. Len(h) >= 3
      BY <3>1
    <3> QED
      BY <1>3, <3>1, <3>2, <3>3
  <2>2. CASE r.fn = 4
    <3> DEFINE h == <<r.dev, 4, r.start \div 256, r.start % 256>>
    <3>1. h \in Seq(Byte) /\ Len(h) = 4 /\ h[1] # 0
      BY <1>1, <1>2
    <3>2. ReplyFrame(r, data) = Frame(h \o data)
      BY <2>2 DEF ReplyFrame
    <3> HIDE DEF h
    <3>3. Len(h) >= 3
      BY <3>1
    <3> QED
      BY <1>3, <3>1, <3>2, <3>3
  <2>3. CASE r.fn = 6
    BY <1>4, <2>3 DEF ReplyFrame
  <2> QED
    BY <1>1, <2>1, <2>2, <2>3
<1> QED
  BY <1>4, <1>5, <1>6

\* Whether a CRC matches depends on the bytes of the frame and on nothing after.
LEMMA CrcAlike ==
    ASSUME NEW s \in Seq(Cell), NEW t \in Seq(Cell), NEW n \in Nat, 2 <= n,
           n <= Len(s), n <= Len(t), \A p \in 1 .. n : s[p] = t[p]
    PROVE  HasValidCrc(s, n) <=> HasValidCrc(t, n)
<1> DEFINE a == [p \in 1 .. n - 2 |-> s[p].v]
           b == [p \in 1 .. n - 2 |-> t[p].v]
<1>1. a = b
  OBVIOUS
<1>2. s[n - 1] = t[n - 1] /\ s[n] = t[n]
  BY SMTT(30)
<1>3. HasValidCrc(s, n) <=> s[n - 1] = LoCell(a) /\ s[n] = HiCell(a)
  BY ValidCrc
<1>4. HasValidCrc(t, n) <=> t[n - 1] = LoCell(b) /\ t[n] = HiCell(b)
  BY ValidCrc
<1> QED
  BY <1>1, <1>2, <1>3, <1>4

\* Two sequences that agree in a part.
LEMMA PartAlike ==
    ASSUME NEW S, NEW s \in Seq(S), NEW t \in Seq(S), NEW a \in Nat, NEW n \in Nat,
           a + n <= Len(s), a + n <= Len(t), \A p \in 1 .. n : s[a + p] = t[a + p]
    PROVE  SubSeq(s, a + 1, a + n) = SubSeq(t, a + 1, a + n)
<1> DEFINE x == SubSeq(s, a + 1, a + n)
           y == SubSeq(t, a + 1, a + n)
<1>1. x \in Seq(S) /\ Len(x) = n /\ \A p \in 1 .. n : x[p] = s[a + p]
  BY Part
<1>2. y \in Seq(S) /\ Len(y) = n /\ \A p \in 1 .. n : y[p] = t[a + p]
  BY Part
<1> HIDE DEF x, y
<1>3. x = y
  BY <1>1, <1>2, SeqEqual
<1> QED
  BY <1>3 DEF x, y

\* A sequence put together from two, element by element.
LEMMA Joined ==
    ASSUME NEW s \in Seq(Cell), NEW t \in Seq(Cell)
    PROVE  /\ s \o t \in Seq(Cell) /\ Len(s \o t) = Len(s) + Len(t)
           /\ Len(s) \in Nat /\ Len(t) \in Nat
           /\ \A p \in 1 .. Len(s) : (s \o t)[p] = s[p]
           /\ \A p \in 1 .. Len(t) : (s \o t)[Len(s) + p] = t[p]
<1>1. Len(s) \in Nat /\ Len(t) \in Nat
  BY LenProperties
<1>2. /\ s \o t \in Seq(Cell) /\ Len(s \o t) = Len(s) + Len(t)
      /\ \A p \in 1 .. Len(s) + Len(t) : (s \o t)[p] = IF p <= Len(s) THEN s[p] ELSE t[p - Len(s)]
  BY ConcatProperties
<1>3. \A p \in 1 .. Len(s) : (s \o t)[p] = s[p]
  BY <1>1, <1>2
<1>4. ASSUME NEW p \in 1 .. Len(t) PROVE (s \o t)[Len(s) + p] = t[p]
  <2>1. Len(s) + p \in 1 .. Len(s) + Len(t) /\ ~ (Len(s) + p <= Len(s)) /\ Len(s) + p - Len(s) = p
    BY <1>1
  <2> QED
    BY <1>2, <2>1
<1> QED
  BY <1>1, <1>2, <1>3, <1>4

\* The last byte of a spoilt frame's CRC is in place only if its address is spoilt.
LEMMA SpoiltAddress ==
    ASSUME NEW v \in Seq(Byte), Len(v) >= 3, v[1] # 0, NEW how \in Damages, how # "none",
           NEW p \in 1 .. Len(Damaged(Frame(v), how)), NEW w, HiOf(Damaged(Frame(v), how)[p], w)
    PROVE  Damaged(Frame(v), how)[1].v = 0
<1> DEFINE f == Frame(v)
<1>1. Len(v) \in Nat /\ f \in Seq(Cell) /\ Len(f) = Len(v) + 2
  BY LenProperties, FrameParts
<1>2. p = Len(Damaged(f, how)) /\ Len(Damaged(f, how)) = Len(v) + 2
  BY DamagedFrame
<1> HIDE DEF f
<1>3. HiOf(Damaged(f, how)[p], w)
  BY DEF f
<1>4. CASE how = "crc"
  <2>1. Damaged(f, how) = [f EXCEPT ![Len(f)].crc = <<>>]
    BY <1>4 DEF Damaged
  <2>2. p = Len(f) /\ Len(f) \in 1 .. Len(f)
    BY <1>1, <1>2
  <2>3. NoCrc(Damaged(f, how)[p])
    <3>1. f[Len(f)] \in Cell
      BY <1>1, <2>2, ElementOfSeq
    <3> QED
      BY <1>1, <2>1, <2>2, <3>1 DEF NoCrc, Cell
  <2> QED
    BY <1>3, <2>3, NoCrcNeither
<1>5. CASE how = "id"
  <2>1. Damaged(f, how) = [f EXCEPT ![1].v = 0]
    BY <1>5 DEF Damaged
  <2>2. 1 \in 1 .. Len(f)
    BY <1>1
  <2>3. f[1] \in Cell
    BY <1>1, <2>2, ElementOfSeq
  <2> QED
    BY <1>1, <2>1, <2>2, <2>3 DEF Cell, f
<1>6. CASE how = "cut"
  <2>1. Damaged(f, how) = SubSeq(f, 1, Len(f) - 1)
    BY <1>6 DEF Damaged
  <2>2. Len(f) - 1 \in 0 .. Len(f)
    BY <1>1
  <2>3. Len(Damaged(f, how)) = Len(f) - 1
    BY <1>1, <2>1, <2>2, Cut
  <2> QED
    BY <1>1, <1>2, <2>3
<1> QED
  BY <1>4, <1>5, <1>6 DEF Damages
=============================================================================

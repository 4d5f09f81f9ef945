------------------------ MODULE RegisterLoggerProofs ------------------------
(***************************************************************************)
(* Proofs about RegisterLogger, for any requests, damage, reads, sizes of  *)
(* queue and buffer that leave room for a read, and any gap and times.     *)
(***************************************************************************)
EXTENDS RegisterLogger, ModbusFramesProofs

-----------------------------------------------------------------------------
(* Types. *)

LEMMA Sizes ==
    /\ STREAM \in Nat /\ MaxFrame \in Nat /\ 8 <= MaxFrame /\ MaxFrame <= 255
    /\ MaxPending \in Nat /\ 1 <= MaxPending
    /\ MaxCount \in Nat /\ 2 * MaxCount + 5 <= MaxFrame /\ MaxCount <= 125
<1>1. /\ STREAM \in Nat /\ MaxFrame \in Nat /\ 8 <= MaxFrame /\ MaxFrame <= 255
      /\ MaxPending \in Nat /\ 1 <= MaxPending
  BY RoomAssumption
<1>2. \A n \in 8 .. 255 : /\ (n - 5) \div 2 \in Nat /\ 2 * ((n - 5) \div 2) + 5 <= n
                          /\ (n - 5) \div 2 <= 125
  OBVIOUS
<1> QED
  BY <1>1, <1>2 DEF MaxCount

\* The first bytes of a buffer that holds a frame.
LEMMA HeadBytes ==
    ASSUME NEW b \in Seq(Cell), NEW n \in Nat, n <= Len(b)
    PROVE  \A i \in 1 .. n : b[i] \in Cell /\ b[i].v \in Byte
<1>1. Len(b) \in Nat
  BY LenProperties
<1>2. \A i \in 1 .. n : i \in 1 .. Len(b)
  BY <1>1
<1>3. \A i \in 1 .. n : b[i] \in Cell
  BY <1>2, ElementOfSeq
<1> QED
  BY <1>3 DEF Cell

\* A request taken from the head of the buffer is one that the queue may hold.
LEMMA NewRequestType ==
    ASSUME NEW b \in Seq(Cell), NewRequest(b)
    PROVE  HeadRequest(b) \in Pending /\ 8 \in 0 .. Len(b)
<1>1. Len(b) \in Nat /\ 8 <= Len(b)
  BY LenProperties DEF NewRequest, HasValidCrc
<1>2. \A i \in 1 .. 8 : b[i].v \in Byte
  BY <1>1, HeadBytes
<1>3. 256 * b[3].v + b[4].v \in Word
  BY <1>2, TwoBytesTogether
<1>4. b[1].v \in 1 .. 247 /\ b[2].v \in {3, 4} /\ 256 * b[5].v + b[6].v \in 1 .. MaxCount
  BY DEF NewRequest, IsRead, HeadRequest, ValidDevice
<1>5. HeadRequest(b) \in Pending
  BY <1>3, <1>4 DEF HeadRequest, Pending
<1> QED
  BY <1>1, <1>5

\* A request in the queue that a reply at the head answers, and the reply.
LEMMA AskedParts ==
    ASSUME TypeOK, NEW b \in Seq(Cell), NEW i \in Asked(b)
    PROVE  /\ i \in 1 .. Len(pending) /\ pending[i] \in Pending
           /\ pending[i].count \in Nat /\ pending[i].start \in Nat
           /\ ReplyLen(b) = 2 * pending[i].count + 5
           /\ ReplyLen(b) <= MaxFrame
<1>1. pending \in Seq(Pending) /\ Len(pending) \in Nat /\ DOMAIN pending = 1 .. Len(pending)
  BY LenProperties DEF TypeOK
<1>2. i \in 1 .. Len(pending) /\ 2 * pending[i].count = b[3].v
  BY <1>1 DEF Asked
<1>3. pending[i] \in Pending
  BY <1>1, <1>2, ElementOfSeq
<1>4. pending[i].count \in 1 .. MaxCount /\ pending[i].start \in Word
  BY <1>3 DEF Pending
<1>5. pending[i].start \in Nat
  BY <1>4, Words
<1>6. ReplyLen(b) = 2 * pending[i].count + 5
  BY <1>2 DEF ReplyLen
<1>7. 2 * pending[i].count + 5 <= MaxFrame /\ pending[i].count \in Nat
  BY <1>4, Sizes
<1> QED
  BY <1>2, <1>3, <1>5, <1>6, <1>7

\* The value of the register lies inside the reply.
LEMMA ValueType ==
    ASSUME TypeOK, NEW b \in Seq(Cell), NEW i \in Asked(b), AskedReply(b), Covers(pending[i])
    PROVE  Value(b, pending[i]) \in Byte \X Byte
<1> DEFINE o == 2 * (Number - pending[i].start)
<1>1. /\ pending[i].count \in Nat /\ pending[i].start \in Nat
      /\ ReplyLen(b) = 2 * pending[i].count + 5
  BY AskedParts
<1>2. ReplyLen(b) <= Len(b) /\ Len(b) \in Nat
  BY LenProperties DEF AskedReply, HasValidCrc
<1>3. Number \in Nat /\ Number >= pending[i].start
      /\ Number <= pending[i].start + pending[i].count - 1
  BY <1>1, RequestAssumption, Words DEF Covers
<1>4. o \in Nat /\ o + 4 \in 1 .. Len(b) /\ o + 5 \in 1 .. Len(b)
  <2>1. \A s, c, l, n \in Nat :
            n >= s /\ n <= s + c - 1 /\ 2 * c + 5 <= l =>
                /\ 2 * (n - s) \in Nat
                /\ 2 * (n - s) + 4 \in 1 .. l /\ 2 * (n - s) + 5 \in 1 .. l
    OBVIOUS
  <2>2. 2 * pending[i].count + 5 <= Len(b)
    BY <1>1, <1>2
  <2> QED
    BY <1>1, <1>2, <1>3, <2>1, <2>2
<1>5. \A j \in 1 .. Len(b) : b[j].v \in Byte
  BY <1>2, HeadBytes
<1>6. Value(b, pending[i]) = <<b[o + 4].v, b[o + 5].v>>
  BY DEF Value
<1> HIDE DEF o
<1>7. b[o + 4].v \in Byte /\ b[o + 5].v \in Byte
  BY <1>4, <1>5
<1> QED
  BY <1>6, <1>7

LEMMA TypeInit == Init => TypeOK
<1> SUFFICES ASSUME Init PROVE TypeOK
  OBVIOUS
<1>1. bus \in Seq(Cell) /\ Len(bus) \in Nat
  BY RequestAssumption, LenProperties DEF Init
<1>2. /\ <<>> \in Seq(Cell) /\ <<>> \in Seq(Pending) /\ <<>> \in Seq(Nat) /\ <<>> \in Seq(Entry)
      /\ Len(<<>>) = 0
  BY EmptySeq
<1>3. 0 <= STREAM /\ 0 <= MaxPending
  BY Sizes
<1> QED
  BY <1>1, <1>2, <1>3 DEF Init, TypeOK

\* What a frame adds to the port.
LEMMA OnBusType ==
    ASSUME TypeOK, NEW k, NEW r, NEW low, NEW f \in Seq(Cell), Len(f) >= 2, OnBus(k, r, low, f)
    PROVE  bus' \in Seq(Cell) /\ sent' \in Nat
<1>1. PICK how \in Damage : bus' = bus \o Damaged(f, how) /\ sent' = sent + Len(Damaged(f, how))
  BY DEF OnBus
<1>2. how \in Damages
  BY RequestAssumption
<1>3. Damaged(f, how) \in Seq(Cell)
  BY <1>2, DamagedCells
<1>4. Len(Damaged(f, how)) \in Nat
  BY <1>3, LenProperties
<1>5. bus \in Seq(Cell) /\ sent \in Nat
  BY DEF TypeOK
<1>6. bus \o Damaged(f, how) \in Seq(Cell)
  BY <1>3, <1>5, ConcatProperties
<1> QED
  BY <1>1, <1>4, <1>5, <1>6

LEMMA MasterAsksType == ASSUME TypeOK, MasterAsks PROVE TypeOK'
<1>1. PICK r \in Requests : OnBus("request", r, 0, RequestFrame(r)) /\ open' = r
  BY DEF MasterAsks
<1>2. r \in Request
  BY RequestAssumption
<1>3. RequestFrame(r) \in Seq(Cell) /\ Len(RequestFrame(r)) = 8
  BY <1>2, RequestCells
<1>4. Len(RequestFrame(r)) >= 2
  BY <1>3
<1>5. bus' \in Seq(Cell) /\ sent' \in Nat
  BY <1>1, <1>3, <1>4, OnBusType
<1> QED
  BY <1>1, <1>5 DEF MasterAsks, TypeOK

LEMMA RegistersType ==
    ASSUME NEW r \in Request, NEW low \in Byte
    PROVE  Registers(r, low) \in Seq(Byte)
<1>1. r.count \in Nat /\ r.start \in Nat
  BY RequestParts, Words
<1>3. ASSUME NEW i \in 1 .. 2 * r.count
      PROVE  (r.start + (i - 1) \div 2) % 256 \in Byte
  BY <1>1 DEF Byte
<1> DEFINE e(i) == IF i % 2 = 1 THEN (r.start + (i - 1) \div 2) % 256 ELSE low
<1>4. \A i \in 1 .. 2 * r.count : e(i) \in Byte
  BY <1>3
<1>5. Registers(r, low) = [i \in 1 .. 2 * r.count |-> e(i)]
  BY DEF Registers
<1>6. 2 * r.count \in Nat
  BY <1>1
<1> HIDE DEF e
<1> QED
  BY <1>4, <1>5, <1>6

LEMMA DeviceAnswersType == ASSUME TypeOK, DeviceAnswers PROVE TypeOK'
<1>1. open \in Request
  BY RequestAssumption DEF TypeOK, DeviceAnswers
<1>2. ASSUME NEW low \in Lows, OnBus("reply", open, low, ReplyFrame(open, Registers(open, low)))
      PROVE  bus' \in Seq(Cell) /\ sent' \in Nat
  <2> DEFINE f == ReplyFrame(open, Registers(open, low))
  <2>1. f \in Seq(Cell) /\ Len(f) >= 2
    <3>1. low \in Byte
      BY RequestAssumption
    <3> QED
      BY <1>1, <3>1, RegistersType, ReplyCells
  <2> HIDE DEF f
  <2>2. OnBus("reply", open, low, f)
    BY <1>2 DEF f
  <2> QED
    BY <2>1, <2>2, OnBusType
<1>3. ASSUME OnBus("exception", open, 0, ExceptionFrame(open))
      PROVE  bus' \in Seq(Cell) /\ sent' \in Nat
  <2>1. ExceptionFrame(open) \in Seq(Cell) /\ Len(ExceptionFrame(open)) >= 2
    BY <1>1, ExceptionCells
  <2> QED
    BY <1>3, <2>1, OnBusType
<1>4. bus' \in Seq(Cell) /\ sent' \in Nat
  BY <1>2, <1>3 DEF DeviceAnswers, TypeOK
<1> QED
  BY <1>4 DEF DeviceAnswers, TypeOK

LEMMA ReadType == ASSUME TypeOK, NEW c \in Chunks, Read(c) PROVE TypeOK'
<1> DEFINE k == Least(c, Len(bus))
           g == SubSeq(bus, 1, k)
           over == Len(buf) + k - STREAM
           kept == IF over > 0 THEN Drop(buf, over) ELSE buf
<1>0. /\ bus \in Seq(Cell) /\ buf \in Seq(Cell) /\ Len(bus) \in Nat
      /\ Len(buf) \in Nat /\ Len(buf) <= STREAM /\ STREAM \in Nat
  BY LenProperties, Sizes DEF TypeOK
<1>1. k \in 0 .. Len(bus) /\ k <= STREAM
  <2>1. c \in Nat /\ c <= STREAM
    BY RoomAssumption
  <2> QED
    BY <1>0, <2>1 DEF Least
<1>2. buf' = kept \o g /\ bus' = Drop(bus, k) /\ ph' = "parse"
      /\ UNCHANGED <<pending, last, now, line, log>>
  BY DEF Read
<1> HIDE DEF k
<1>3. g \in Seq(Cell) /\ Len(g) = k /\ Drop(bus, k) \in Seq(Cell)
  BY <1>0, <1>1, Cut
<1> HIDE DEF g
<1>4. kept \in Seq(Cell) /\ Len(kept) + k <= STREAM
  <2>1. CASE over > 0
    <3>1. over \in 0 .. Len(buf)
      BY <1>0, <1>1, <2>1
    <3>2. Drop(buf, over) \in Seq(Cell) /\ Len(Drop(buf, over)) = Len(buf) - over
      BY <1>0, <3>1, Cut
    <3>3. Len(buf) - over + k <= STREAM
      BY <1>0, <1>1
    <3> QED
      BY <2>1, <3>2, <3>3
  <2>2. CASE ~(over > 0)
    <3>1. kept = buf
      BY <2>2
    <3>2. Len(buf) + k <= STREAM
      BY <1>0, <1>1, <2>2
    <3> QED
      BY <1>0, <3>1, <3>2
  <2> QED
    BY <2>1, <2>2
<1> HIDE DEF kept
<1>5. buf' \in Seq(Cell) /\ Len(buf') = Len(kept) + k
  BY <1>2, <1>3, <1>4, ConcatProperties
<1> QED
  BY <1>2, <1>3, <1>4, <1>5 DEF TypeOK, line

\* The buffer after n of its bytes are taken.
LEMMA Taken ==
    ASSUME TypeOK, NEW n \in 0 .. Len(buf), buf' = Drop(buf, n)
    PROVE  buf' \in Seq(Cell) /\ Len(buf') <= STREAM
<1>1. /\ buf \in Seq(Cell) /\ Len(buf) \in Nat /\ Len(buf) <= STREAM /\ STREAM \in Nat
  BY LenProperties, Sizes DEF TypeOK
<1>2. Drop(buf, n) \in Seq(Cell) /\ Len(Drop(buf, n)) = Len(buf) - n
  BY <1>1, Cut
<1>3. Len(buf) - n <= STREAM
  BY <1>1
<1> QED
  BY <1>2, <1>3

LEMMA TakeReplyType == ASSUME TypeOK, TakeReply PROVE TypeOK'
<1>0. /\ buf \in Seq(Cell) /\ pending \in Seq(Pending) /\ Len(pending) \in Nat
      /\ Len(pending) <= MaxPending /\ MaxPending \in Nat /\ log \in Seq(Entry) /\ Len(buf) \in Nat
  BY LenProperties, Sizes DEF TypeOK
<1>1. PICK i \in Asked(buf) :
          /\ LogValue(pending[i])
          /\ pending' = SubSeq(pending, 1, i - 1) \o Drop(pending, i)
  BY DEF TakeReply
<1>2. /\ AskedReply(buf) /\ buf' = Drop(buf, ReplyLen(buf))
      /\ UNCHANGED <<ph, bus, now, line>>
  BY DEF TakeReply
<1>3. /\ i \in 1 .. Len(pending) /\ pending[i] \in Pending
      /\ pending[i].count \in Nat /\ ReplyLen(buf) = 2 * pending[i].count + 5
  BY <1>0, AskedParts
<1>4. buf' \in Seq(Cell) /\ Len(buf') <= STREAM
  <2>1. ReplyLen(buf) <= Len(buf)
    BY <1>2 DEF AskedReply, HasValidCrc
  <2>2. ReplyLen(buf) \in 0 .. Len(buf)
    BY <1>0, <1>3, <2>1
  <2> QED
    BY <1>2, <2>2, Taken
<1>5. pending' \in Seq(Pending) /\ Len(pending') <= MaxPending
  <2>1. i - 1 \in 0 .. Len(pending) /\ i \in 0 .. Len(pending)
    BY <1>0, <1>3
  <2>2. /\ SubSeq(pending, 1, i - 1) \in Seq(Pending) /\ Len(SubSeq(pending, 1, i - 1)) = i - 1
        /\ Drop(pending, i) \in Seq(Pending) /\ Len(Drop(pending, i)) = Len(pending) - i
    BY <1>0, <2>1, Cut
  <2>3. /\ pending' \in Seq(Pending)
        /\ Len(pending') = (i - 1) + (Len(pending) - i)
    BY <1>1, <2>2, ConcatProperties
  <2>4. (i - 1) + (Len(pending) - i) <= MaxPending
    BY <1>0, <1>3
  <2> QED
    BY <2>3, <2>4
<1>6. log' \in Seq(Entry) /\ last' \in Seq(Nat)
  <2>1. now \in Nat /\ last \in Seq(Nat)
    BY DEF TypeOK
  <2>2. <<now>> \in Seq(Nat)
    BY <2>1
  <2>3. CASE Covers(pending[i]) /\ GapPassed(now)
    <3> DEFINE e == [at |-> At(buf), dev |-> pending[i].dev, value |-> Value(buf, pending[i]),
                     time |-> now]
    <3>1. log' = Append(log, e) /\ last' \in {<<now>>, last}
      BY <1>1, <2>3 DEF LogValue
    <3>2. At(buf) \in Int
      BY <1>0, LenProperties DEF At, TypeOK
    <3>3. Value(buf, pending[i]) \in Byte \X Byte
      BY <1>0, <1>2, <2>3, ValueType
    <3>4. pending[i].dev \in 1 .. 247
      BY <1>3 DEF Pending
    <3>5. e \in Entry
      BY <2>1, <3>2, <3>3, <3>4 DEF Entry
    <3> HIDE DEF e
    <3>6. Append(log, e) \in Seq(Entry)
      BY <1>0, <3>5, AppendProperties
    <3> QED
      BY <2>1, <2>2, <3>1, <3>6
  <2>4. CASE ~(Covers(pending[i]) /\ GapPassed(now))
    <3>1. log' = log /\ last' = last
      BY <1>1, <2>4 DEF LogValue
    <3> QED
      BY <1>0, <2>1, <3>1
  <2> QED
    BY <2>3, <2>4
<1> QED
  BY <1>2, <1>4, <1>5, <1>6 DEF TypeOK, line

LEMMA PushType ==
    ASSUME TypeOK, NEW r \in Pending
    PROVE  Push(pending, r) \in Seq(Pending) /\ Len(Push(pending, r)) <= MaxPending
<1> DEFINE kept == IF Len(pending) = MaxPending THEN Drop(pending, 1) ELSE pending
<1>1. /\ pending \in Seq(Pending) /\ Len(pending) \in Nat /\ Len(pending) <= MaxPending
      /\ MaxPending \in Nat /\ 1 <= MaxPending
  BY LenProperties, Sizes DEF TypeOK
<1>2. kept \in Seq(Pending) /\ Len(kept) + 1 <= MaxPending
  <2>1. CASE Len(pending) = MaxPending
    <3>1. 1 \in 0 .. Len(pending)
      BY <1>1, <2>1
    <3>2. Drop(pending, 1) \in Seq(Pending) /\ Len(Drop(pending, 1)) = Len(pending) - 1
      BY <1>1, <3>1, Cut
    <3>3. Len(pending) - 1 + 1 <= MaxPending
      BY <1>1
    <3> QED
      BY <2>1, <3>2, <3>3
  <2>2. CASE Len(pending) # MaxPending
    <3>1. Len(pending) + 1 <= MaxPending
      BY <1>1, <2>2
    <3> QED
      BY <1>1, <2>2, <3>1
  <2> QED
    BY <2>1, <2>2
<1>3. Push(pending, r) = Append(kept, r)
  BY DEF Push
<1> HIDE DEF kept
<1> QED
  BY <1>2, <1>3, AppendProperties

LEMMA TakeRequestType == ASSUME TypeOK, TakeRequest PROVE TypeOK'
<1>1. /\ NewRequest(buf) /\ pending' = Push(pending, HeadRequest(buf)) /\ buf' = Drop(buf, 8)
      /\ UNCHANGED <<ph, bus, last, now, line, log>>
  BY DEF TakeRequest
<1>2. HeadRequest(buf) \in Pending /\ 8 \in 0 .. Len(buf)
  BY <1>1, NewRequestType DEF TypeOK
<1>3. buf' \in Seq(Cell) /\ Len(buf') <= STREAM
  BY <1>1, <1>2, Taken
<1>4. pending' \in Seq(Pending) /\ Len(pending') <= MaxPending
  BY <1>1, <1>2, PushType
<1> QED
  BY <1>1, <1>3, <1>4 DEF TypeOK, line

\* What is passed over is taken from the head of the buffer.
LEMMA PassedOver ==
    ASSUME TypeOK, TakeOther \/ DropByte PROVE \E n \in 0 .. Len(buf) : buf' = Drop(buf, n)
<1>0. buf \in Seq(Cell) /\ Len(buf) \in Nat
  BY LenProperties DEF TypeOK
<1>1. Len(buf) >= 4
  BY DEF TakeOther, DropByte, Parsing, NeedMore
<1>2. \E n \in 0 .. Len(buf) : buf' = Drop(buf, n)
  <2>1. CASE TakeOther /\ OtherReply(buf)
    <3>1. ReplyLen(buf) <= Len(buf)
      BY <2>1 DEF OtherReply, HasValidCrc
    <3>2. buf[3].v \in Byte
      BY <1>0, <1>1, HeadBytes
    <3>3. ReplyLen(buf) \in Nat
      BY <3>2 DEF ReplyLen, Byte
    <3>4. ReplyLen(buf) \in 0 .. Len(buf)
      BY <1>0, <3>1, <3>3
    <3>5. WriteFrame(buf) => 8 \in 0 .. Len(buf)
      BY <1>0 DEF WriteFrame, HasValidCrc
    <3>6. Exception(buf) => 5 \in 0 .. Len(buf)
      BY <1>0 DEF Exception, HasValidCrc
    <3> QED
      BY <2>1, <3>4, <3>5, <3>6 DEF TakeOther
  <2>2. CASE TakeOther /\ ~OtherReply(buf)
    <3>5. WriteFrame(buf) => 8 \in 0 .. Len(buf)
      BY <1>0 DEF WriteFrame, HasValidCrc
    <3>6. Exception(buf) => 5 \in 0 .. Len(buf)
      BY <1>0 DEF Exception, HasValidCrc
    <3> QED
      BY <2>2, <3>5, <3>6 DEF TakeOther
  <2>3. CASE DropByte
    <3>1. 1 \in 0 .. Len(buf)
      BY <1>0, <1>1
    <3> QED
      BY <2>3, <3>1 DEF DropByte
  <2> QED
    BY <2>1, <2>2, <2>3
<1> QED
  BY <1>2

LEMMA PassOverType == ASSUME TypeOK, TakeOther \/ DropByte PROVE TypeOK'
<1>2. \E n \in 0 .. Len(buf) : buf' = Drop(buf, n)
  BY PassedOver
<1>3. buf' \in Seq(Cell) /\ Len(buf') <= STREAM
  BY <1>2, Taken
<1> QED
  BY <1>3 DEF TakeOther, DropByte, TypeOK, line

\* Every step keeps every variable in its type.
LEMMA TypeStep == ASSUME TypeOK, [Next]_vars PROVE TypeOK'
<1>1. CASE MasterAsks
  BY <1>1, MasterAsksType
<1>2. CASE DeviceAnswers
  BY <1>2, DeviceAnswersType
<1>3. CASE Tick
  BY <1>3 DEF Tick, TypeOK, line
<1>4. ASSUME NEW c \in Chunks, Read(c) PROVE TypeOK'
  BY <1>4, ReadType
<1>5. CASE TakeReply
  BY <1>5, TakeReplyType
<1>6. CASE TakeRequest
  BY <1>6, TakeRequestType
<1>7. CASE TakeOther \/ DropByte
  BY <1>7, PassOverType
<1>8. CASE ParseEnd
  BY <1>8 DEF ParseEnd, TypeOK, line
<1>9. CASE Stop
  BY <1>9 DEF Stop, TypeOK, line
<1>10. CASE UNCHANGED vars
  BY <1>10 DEF vars, TypeOK
<1> QED
  BY <1>1, <1>2, <1>3, <1>4, <1>5, <1>6, <1>7, <1>8, <1>9, <1>10 DEF Next, Line, Logger

\* The buffer and the queue of requests never outgrow their arrays, and every
\* value that is logged is read inside the reply, for any sizes of the three.
THEOREM TypeCorrect == Spec => []TypeOK
  BY TypeInit, TypeStep, PTL DEF Spec

-----------------------------------------------------------------------------
(* Room for a read.  The parser stops only where a frame may have begun, and *)
(* no frame it waits for is longer than MaxFrame.                            *)

RoomInv == ph = "read" => Len(buf) <= MaxFrame - 1

\* What is left when the parser stops is shorter than the longest frame.
LEMMA ShortRest == ASSUME TypeOK, NeedMore(buf) PROVE Len(buf) <= MaxFrame - 1
<1>0. buf \in Seq(Cell) /\ Len(buf) \in Nat /\ MaxFrame \in Nat /\ 8 <= MaxFrame
  BY LenProperties, Sizes DEF TypeOK
<1>1. CASE Len(buf) < 8
  BY <1>0, <1>1
<1>2. CASE Len(buf) >= 8
  <2>1. buf[3].v \in Byte
    BY <1>0, <1>2, HeadBytes
  <2>2. ReplyLen(buf) \in Nat
    BY <2>1 DEF ReplyLen, Byte
  <2>3. Len(buf) < ReplyLen(buf) /\ (Asked(buf) # {} \/ MayBeReply(buf))
    BY <1>0, <1>2 DEF NeedMore
  <2>4. ReplyLen(buf) <= MaxFrame
    BY <1>0, <2>3, AskedParts DEF MayBeReply
  <2> QED
    BY <1>0, <2>2, <2>3, <2>4
<1> QED
  BY <1>0, <1>1, <1>2

LEMMA RoomStep == ASSUME TypeOK, RoomInv, [Next]_vars PROVE RoomInv'
<1>1. CASE Line
  BY <1>1 DEF Line, MasterAsks, DeviceAnswers, Tick, RoomInv
<1>2. ASSUME NEW c \in Chunks, Read(c) PROVE RoomInv'
  BY <1>2 DEF Read, RoomInv
<1>3. CASE TakeReply \/ TakeRequest \/ TakeOther \/ DropByte
  BY <1>3 DEF TakeReply, TakeRequest, TakeOther, DropByte, Parsing, RoomInv
<1>4. CASE ParseEnd
  <2>1. Len(buf) <= MaxFrame - 1 /\ buf' = buf
    BY <1>4, ShortRest DEF ParseEnd
  <2> QED
    BY <2>1 DEF RoomInv
<1>5. CASE Stop
  BY <1>5 DEF Stop, RoomInv
<1>6. CASE UNCHANGED vars
  BY <1>6 DEF vars, RoomInv
<1> QED
  BY <1>1, <1>2, <1>3, <1>4, <1>5, <1>6 DEF Next, Logger

LEMMA RoomInit == Init => RoomInv
<1>1. 0 <= MaxFrame - 1
  BY Sizes
<1>2. Len(<<>>) = 0
  BY EmptySeq
<1> QED
  BY <1>1, <1>2 DEF Init, RoomInv

LEMMA RoomEnough == TypeOK /\ RoomInv => RoomForRead
<1> SUFFICES ASSUME TypeOK, RoomInv, ph = "read", NEW c \in Chunks
             PROVE  Len(buf) + c <= STREAM
  BY DEF RoomForRead
<1>1. Len(buf) \in Nat /\ MaxFrame \in Nat /\ STREAM \in Nat
  BY LenProperties, Sizes DEF TypeOK
<1>2. c \in Nat /\ MaxFrame - 1 + c <= STREAM
  BY RoomAssumption
<1>3. Len(buf) <= MaxFrame - 1
  BY DEF RoomInv
<1> QED
  BY <1>1, <1>2, <1>3

\* The branch of main that gives up the oldest bytes is never taken, whatever
\* frames, damage and noise are on the bus and however the reads cut them.
THEOREM NoByteGivenUp == Spec => []RoomForRead
<1>1. TypeOK /\ RoomInv /\ [Next]_vars => RoomInv'
  BY RoomStep
<1> QED
  BY <1>1, RoomInit, RoomEnough, TypeCorrect, PTL DEF Spec

-----------------------------------------------------------------------------
(* The gap between the lines of the log. *)

GapInv ==
    /\ \A n \in DOMAIN log : log[n].time <= now
    /\ Gap > 0 => last = IF log = <<>> THEN <<>> ELSE <<log[Len(log)].time>>
    /\ GapKept

\* Whole seconds, with one borrowed for the fraction, are never more than passed.
LEMMA SecondsPassed ==
    ASSUME NEW t \in Nat, NEW l \in Nat, NEW g \in Nat,
           t \div 2 - l \div 2 - (IF t % 2 < l % 2 THEN 1 ELSE 0) >= g
    PROVE  t - l >= 2 * g
  OBVIOUS

\* A line that is logged now comes at least Gap seconds after the one before it.
LEMMA LineInGap ==
    ASSUME TypeOK, GapInv, GapPassed(now), log # <<>>
    PROVE  now - log[Len(log)].time >= 2 * Gap
<1> DEFINE t == log[Len(log)].time
<1>1. now \in Nat /\ Gap \in Nat /\ log \in Seq(Entry) /\ Len(log) \in Nat
  BY RequestAssumption, LenProperties DEF TypeOK
<1>2. Len(log) \in 1 .. Len(log) /\ DOMAIN log = 1 .. Len(log)
  BY <1>1, EmptySeq, LenProperties
<1>3. log[Len(log)] \in Entry
  BY <1>1, <1>2, ElementOfSeq
<1>4. t \in Nat /\ t <= now
  BY <1>2, <1>3 DEF Entry, GapInv
<1>5. CASE Gap = 0
  <2>1. now - t >= 0
    BY <1>1, <1>4
  <2> QED
    BY <1>5, <2>1
<1>6. CASE Gap # 0
  <2>1. last = <<t>>
    BY <1>1, <1>6 DEF GapInv
  <2>2. last # <<>> /\ last[1] = t
    BY <2>1
  <2>3. now \div 2 - t \div 2 - (IF now % 2 < t % 2 THEN 1 ELSE 0) >= Gap
    BY <1>6, <2>2 DEF GapPassed
  <2> HIDE DEF t
  <2> QED
    BY <1>1, <1>4, <2>3, SecondsPassed DEF t
<1> QED
  BY <1>5, <1>6

LEMMA LogStep ==
    ASSUME TypeOK, GapInv, NEW r, LogValue(r), now' = now
    PROVE  GapInv'
<1>0. log \in Seq(Entry) /\ Len(log) \in Nat /\ now \in Nat /\ DOMAIN log = 1 .. Len(log)
  BY LenProperties DEF TypeOK
<1>1. CASE Covers(r) /\ GapPassed(now)
  <2> DEFINE e == [at |-> At(buf), dev |-> r.dev, value |-> Value(buf, r), time |-> now]
  <2>1. log' = Append(log, e) /\ last' = (IF Gap > 0 THEN <<now>> ELSE last)
    BY <1>1 DEF LogValue
  <2>2. e.time = now
    OBVIOUS
  <2> HIDE DEF e
  <2>3. /\ Len(log') = Len(log) + 1 /\ DOMAIN log' = 1 .. Len(log) + 1
        /\ \A n \in 1 .. Len(log) : log'[n] = log[n]
        /\ log'[Len(log) + 1] = e
    BY <1>0, <2>1
  <2>4. log' # <<>>
    BY <1>0, <2>3, EmptySeq
  <2>5. \A n \in DOMAIN log' : log'[n].time <= now'
    <3> TAKE n \in DOMAIN log'
    <3>1. CASE n = Len(log) + 1
      BY <1>0, <2>2, <2>3, <3>1
    <3>2. CASE n # Len(log) + 1
      <4>1. n \in 1 .. Len(log)
        BY <1>0, <2>3, <3>2
      <4> QED
        BY <1>0, <2>3, <4>1 DEF GapInv
    <3> QED
      BY <3>1, <3>2
  <2>6. Gap > 0 => last' = <<log'[Len(log')].time>>
    BY <2>1, <2>2, <2>3
  <2>7. GapKept'
    <3> SUFFICES ASSUME NEW n \in 2 .. Len(log')
                 PROVE  log'[n].time - log'[n - 1].time >= 2 * Gap
      BY DEF GapKept
    <3>1. CASE n = Len(log) + 1
      <4>1. n - 1 = Len(log) /\ Len(log) \in 1 .. Len(log)
        BY <1>0, <3>1
      <4>2. log # <<>>
        BY <4>1, EmptySeq
      <4>3. now - log[Len(log)].time >= 2 * Gap
        BY <1>1, <4>2, LineInGap
      <4> QED
        BY <2>2, <2>3, <3>1, <4>1, <4>3
    <3>2. CASE n # Len(log) + 1
      <4>1. n \in 2 .. Len(log) /\ n \in 1 .. Len(log) /\ n - 1 \in 1 .. Len(log)
        BY <1>0, <2>3, <3>2
      <4> QED
        BY <2>3, <4>1 DEF GapInv, GapKept
    <3> QED
      BY <3>1, <3>2
  <2> QED
    BY <2>4, <2>5, <2>6, <2>7 DEF GapInv
<1>2. CASE ~(Covers(r) /\ GapPassed(now))
  BY <1>2 DEF LogValue, GapInv, GapKept
<1> QED
  BY <1>1, <1>2

LEMMA GapStep == ASSUME TypeOK, GapInv, [Next]_vars PROVE GapInv'
<1>1. CASE TakeReply
  BY <1>1, LogStep DEF TakeReply
<1>2. CASE Tick
  <2>1. UNCHANGED <<last, log>> /\ now' = now + 1 /\ now \in Nat /\ log \in Seq(Entry)
    BY <1>2 DEF Tick, TypeOK
  <2>2. ASSUME NEW n \in DOMAIN log PROVE log[n].time \in Nat
    <3>1. n \in 1 .. Len(log)
      BY <2>1, LenProperties
    <3>2. log[n] \in Entry
      BY <2>1, <3>1, ElementOfSeq
    <3> QED
      BY <3>2 DEF Entry
  <2>3. \A n \in DOMAIN log : log[n].time <= now + 1
    BY <2>1, <2>2 DEF GapInv
  <2> QED
    BY <2>1, <2>3 DEF GapInv, GapKept
<1>3. ASSUME ~TakeReply, ~Tick PROVE UNCHANGED <<now, last, log>>
  BY <1>3 DEF Next, Line, Logger, MasterAsks, DeviceAnswers, Read, TakeRequest, TakeOther, DropByte,
     ParseEnd, Stop, vars, line
<1>4. CASE UNCHANGED <<now, last, log>>
  BY <1>4 DEF GapInv, GapKept
<1> QED
  BY <1>1, <1>2, <1>3, <1>4

LEMMA GapInit == Init => GapInv
<1> SUFFICES ASSUME Init PROVE GapInv
  OBVIOUS
<1>1. log = <<>> /\ last = <<>> /\ Len(log) = 0
  BY EmptySeq DEF Init
<1> QED
  BY <1>1 DEF GapInv, GapKept

\* Whatever the register, the gap and the times of the replies, two lines of the
\* log are at least the gap apart.
THEOREM LinesApart == Spec => []GapKept
<1>1. TypeOK /\ GapInv /\ [Next]_vars => GapInv'
  BY GapStep
<1>2. GapInv => GapKept
  BY DEF GapInv
<1> QED
  BY <1>1, <1>2, GapInit, TypeCorrect, PTL DEF Spec

-----------------------------------------------------------------------------
(* The values of the log.  A CRC is found where it ends: the byte that ends  *)
(* the CRC of w, anywhere in what is not parsed yet, is the last byte of a   *)
(* frame with the values w, or of a frame that began before what is parsed.  *)

\* A frame of the history as it was sent.
Sent(k) ==
    CASE k.kind = "request"   -> RequestFrame(k.req)
      [] k.kind = "reply"     -> ReplyFrame(k.req, Registers(k.req, k.low))
      [] k.kind = "exception" -> ExceptionFrame(k.req)

SentFrame == [at : Nat, len : Nat, kind : {"request", "reply", "exception"}, req : Requests,
              low : Byte, intact : BOOLEAN]

Unparsed == buf \o bus

\* U holds the bytes from the place b on.  A spoilt frame that ends like a good
\* one has the address 0.
NoAddress(k, U, b) == \A q \in 1 .. Len(U) : b + q = k.at + 1 => U[q].v = 0
EndsAt(k, p, w) == k.at + k.len = p /\ k.len = Len(w) + 2 /\ Sent(k) = Frame(w)
Marked(F, U, b) ==
    \A q \in 1 .. Len(U) : \A w \in Seq(Byte) :
        HiOf(U[q], w) =>
            \/ b + q < Len(w) + 2
            \/ \E i \in 1 .. Len(F) : EndsAt(F[i], b + q, w) /\ (F[i].intact \/ NoAddress(F[i], U, b))

\* A request of FC=3 in the queue is one that was asked.
Known == {r \in Pending : r.fn = 3 => r \in Requests}

ValueInv ==
    /\ frames \in Seq(SentFrame)
    /\ At(buf) \in Nat
    /\ Marked(frames, Unparsed, At(buf))
    /\ pending \in Seq(Known)
    /\ LoggedIsTrue

\* Reads of one device and of one length are of one range.
Distinct ==
    \A r, q \in Requests : r.fn = 3 /\ q.fn = 3 /\ r.dev = q.dev /\ r.count = q.count => r = q

\* No CRC of what is on the port at the start ends a frame that is all there.
NoWholeFrame ==
    \A s \in Noise : \A p \in 1 .. Len(s) : \A w \in Seq(Byte) : HiOf(s[p], w) => p < Len(w) + 2

\* What the marks say of the rest after n bytes are taken.
LEMMA MarkedRest ==
    ASSUME NEW F, NEW U \in Seq(Cell), NEW b \in Nat, Marked(F, U, b), NEW n \in 0 .. Len(U)
    PROVE  Marked(F, Drop(U, n), b + n)
<1> DEFINE R == Drop(U, n)
<1>1. /\ R \in Seq(Cell) /\ Len(R) = Len(U) - n /\ Len(U) \in Nat /\ n \in Nat
      /\ \A q \in 1 .. Len(U) - n : R[q] = U[n + q]
  BY RestPart, LenProperties
<1> HIDE DEF R
<1>2. \A q \in 1 .. Len(R) : n + q \in 1 .. Len(U) /\ R[q] = U[n + q] /\ b + (n + q) = (b + n) + q
  BY <1>1
<1>3. ASSUME NEW k, NoAddress(k, U, b) PROVE NoAddress(k, R, b + n)
  BY <1>2, <1>3, ZenonT(30) DEF NoAddress
<1>4. ASSUME NEW q \in 1 .. Len(R), NEW w \in Seq(Byte), HiOf(R[q], w)
      PROVE  \/ (b + n) + q < Len(w) + 2
             \/ \E i \in 1 .. Len(F) : /\ EndsAt(F[i], (b + n) + q, w)
                                       /\ F[i].intact \/ NoAddress(F[i], R, b + n)
  <2>1. HiOf(U[n + q], w) /\ n + q \in 1 .. Len(U) /\ b + (n + q) = (b + n) + q
    BY <1>2, <1>4
  <2>2. \/ b + (n + q) < Len(w) + 2
        \/ \E i \in 1 .. Len(F) : /\ EndsAt(F[i], b + (n + q), w)
                                  /\ F[i].intact \/ NoAddress(F[i], U, b)
    BY <2>1 DEF Marked
  <2>3. \/ (b + n) + q < Len(w) + 2
        \/ \E i \in 1 .. Len(F) : /\ EndsAt(F[i], (b + n) + q, w)
                                  /\ F[i].intact \/ NoAddress(F[i], U, b)
    BY <2>1, <2>2
  <2> QED
    BY <1>3, <2>3
<1> QED
  BY <1>4 DEF Marked, R

\* A frame more at the end, in whatever state.
LEMMA MarkedMore ==
    ASSUME NEW F \in Seq(SentFrame), NEW U \in Seq(Cell), NEW b \in Nat, Marked(F, U, b),
           NEW v \in Seq(Byte), Len(v) >= 3, v[1] # 0, NEW how \in Damages, NEW k \in SentFrame,
           Sent(k) = Frame(v), k.at = b + Len(U), k.len = Len(Damaged(Frame(v), how)),
           k.intact = (how = "none")
    PROVE  Marked(Append(F, k), U \o Damaged(Frame(v), how), b)
<1> DEFINE g == Damaged(Frame(v), how)
           A == Append(F, k)
           J == U \o g
<1>1. /\ g \in Seq(Cell) /\ Len(g) \in Nat /\ Len(g) >= 4
      /\ \A w : \A p \in 1 .. Len(g) : HiOf(g[p], w) => p = Len(g) /\ w = v /\ Len(g) = Len(v) + 2
  BY DamagedFrame
<1>2. ASSUME NEW p \in 1 .. Len(g), NEW w, HiOf(g[p], w), how # "none" PROVE g[1].v = 0
  BY <1>2, SpoiltAddress
<1>3. k.len = Len(g)
  OBVIOUS
<1> HIDE DEF g
<1>4. /\ J \in Seq(Cell) /\ Len(J) = Len(U) + Len(g) /\ Len(U) \in Nat
      /\ \A p \in 1 .. Len(U) : J[p] = U[p]
      /\ \A p \in 1 .. Len(g) : J[Len(U) + p] = g[p]
  BY <1>1, Joined
<1> HIDE DEF J
<1>5. /\ Len(F) \in Nat /\ Len(A) = Len(F) + 1 /\ \A i \in 1 .. Len(F) : A[i] = F[i]
      /\ A[Len(F) + 1] = k
  BY LenProperties, AppendProperties
<1> HIDE DEF A
<1>6. ASSUME NEW q \in 1 .. Len(J), NEW w \in Seq(Byte), HiOf(J[q], w)
      PROVE  \/ b + q < Len(w) + 2
             \/ \E i \in 1 .. Len(A) : EndsAt(A[i], b + q, w) /\ (A[i].intact \/ NoAddress(A[i], J, b))
  <2>1. CASE q \in 1 .. Len(U)
    <3>1. HiOf(U[q], w)
      BY <1>4, <1>6, <2>1
    <3>2. CASE b + q < Len(w) + 2
      BY <3>2
    <3>3. CASE ~(b + q < Len(w) + 2)
      <4>1. PICK i \in 1 .. Len(F) : EndsAt(F[i], b + q, w) /\ (F[i].intact \/ NoAddress(F[i], U, b))
        BY <2>1, <3>1, <3>3 DEF Marked
      <4>2. i \in 1 .. Len(A) /\ A[i] = F[i]
        BY <1>5
      <4>3. ASSUME NoAddress(F[i], U, b) PROVE NoAddress(F[i], J, b)
        <5>1. /\ F[i].at + F[i].len = b + q /\ F[i].len = Len(w) + 2 /\ Len(w) \in Nat
              /\ F[i].at \in Nat
          <6>1. F[i] \in SentFrame
            BY ElementOfSeq
          <6>2. F[i].at \in Nat
            BY <6>1 DEF SentFrame
          <6>3. Len(w) \in Nat
            BY LenProperties
          <6> QED
            BY <4>1, <6>2, <6>3 DEF EndsAt
        <5>2. F[i].at + 1 <= b + Len(U)
          BY <1>4, <2>1, <5>1, SMTT(30)
        <5>3. ASSUME NEW p \in 1 .. Len(J), b + p = F[i].at + 1 PROVE J[p].v = 0
          <6>1. p \in 1 .. Len(U)
            BY <1>4, <5>2, <5>3
          <6> QED
            BY <1>4, <4>3, <5>3, <6>1 DEF NoAddress
        <5> QED
          BY <5>3 DEF NoAddress
      <4> QED
        BY <4>1, <4>2, <4>3
    <3> QED
      BY <3>2, <3>3
  <2>2. CASE q \notin 1 .. Len(U)
    <3> DEFINE p == q - Len(U)
    <3>1. p \in 1 .. Len(g) /\ q = Len(U) + p
      BY <1>1, <1>4, <2>2
    <3> HIDE DEF p
    <3>2. HiOf(g[p], w)
      BY <1>4, <1>6, <3>1
    <3>3. p = Len(g) /\ w = v /\ Len(g) = Len(v) + 2
      BY <1>1, <3>1, <3>2
    <3>4. EndsAt(k, b + q, w)
      <4>1. k.at + k.len = b + q
        BY <1>1, <1>3, <1>4, <3>1, <3>3
      <4> QED
        BY <1>3, <3>3, <4>1 DEF EndsAt
    <3>5. k.intact \/ NoAddress(k, J, b)
      <4>1. CASE how = "none"
        BY <4>1
      <4>2. CASE how # "none"
        <5>1. g[1].v = 0
          BY <1>2, <3>1, <3>2, <4>2
        <5>2. ASSUME NEW r \in 1 .. Len(J), b + r = k.at + 1 PROVE J[r].v = 0
          <6>1. r = Len(U) + 1 /\ 1 \in 1 .. Len(g)
            BY <1>1, <1>4, <5>2, SMTT(30)
          <6> QED
            BY <1>4, <5>1, <6>1
        <5> QED
          BY <5>2 DEF NoAddress
      <4> QED
        BY <4>1, <4>2
    <3>6. Len(F) + 1 \in 1 .. Len(A) /\ A[Len(F) + 1] = k
      BY <1>5
    <3> QED
      BY <3>4, <3>5, <3>6
  <2> QED
    BY <2>1, <2>2
<1>7. Marked(A, J, b)
  BY <1>6 DEF Marked
<1> QED
  BY <1>7 DEF A, J, g

\* k is an undamaged frame of n bytes at the place b, which begins with the bytes of s.
BeginsAs(k, b, n, s) ==
    /\ k \in SentFrame /\ k.at = b /\ k.len = n /\ k.intact
    /\ Len(Sent(k)) = n
    /\ \A p \in 1 .. n - 2 : Sent(k)[p].v = s[p].v

\* Where a CRC matches, a frame of the history begins, and it is undamaged.
LEMMA WholeFrameHere ==
    ASSUME NEW F \in Seq(SentFrame), NEW b \in Nat, NEW s \in Seq(Cell), NEW t \in Seq(Cell),
           Marked(F, s \o t, b), NEW n \in Nat, 4 <= n, HasValidCrc(s, n), s[1].v # 0
    PROVE  \E i \in 1 .. Len(F) : BeginsAs(F[i], b, n, s)
<1> DEFINE w == [p \in 1 .. n - 2 |-> s[p].v]
           U == s \o t
<1>1. n <= Len(s) /\ Len(s) \in Nat
  BY LenProperties DEF HasValidCrc
<1>2. \A p \in 1 .. n : s[p].v \in Byte
  BY <1>1, HeadBytes
<1>3. w \in Seq(Byte) /\ Len(w) = n - 2 /\ \A p \in 1 .. n - 2 : w[p] = s[p].v
  <2>1. n - 2 \in Nat /\ \A p \in 1 .. n - 2 : s[p].v \in Byte
    BY <1>2
  <2> QED
    BY <2>1
<1>4. HiOf(s[n], w)
  <2>1. s[n] = HiCell(w)
    BY <1>1, ValidCrc
  <2> HIDE DEF w
  <2> QED
    BY <2>1, CrcOf
<1> HIDE DEF w
<1>5. /\ Len(U) \in Nat /\ n \in 1 .. Len(U) /\ 1 \in 1 .. Len(U)
      /\ U[n] = s[n] /\ U[1] = s[1]
  <2>1. /\ Len(U) = Len(s) + Len(t) /\ Len(t) \in Nat
        /\ \A p \in 1 .. Len(s) : U[p] = s[p]
    BY Joined
  <2> HIDE DEF U
  <2> QED
    BY <1>1, <2>1
<1> HIDE DEF U
<1>6. Marked(F, U, b)
  BY DEF U
<1>7. ~(b + n < Len(w) + 2)
  BY <1>3
<1>8. PICK i \in 1 .. Len(F) : EndsAt(F[i], b + n, w) /\ (F[i].intact \/ NoAddress(F[i], U, b))
  BY <1>3, <1>4, <1>5, <1>6, <1>7 DEF Marked
<1>9. F[i].at = b /\ F[i].len = n /\ Sent(F[i]) = Frame(w)
  <2>1. F[i].at \in Nat /\ F[i].at + F[i].len = b + n /\ F[i].len = n
    <3>1. F[i] \in SentFrame
      BY ElementOfSeq
    <3>2. F[i].at \in Nat
      BY <3>1 DEF SentFrame
    <3>3. F[i].at + F[i].len = b + n /\ F[i].len = Len(w) + 2
      BY <1>8 DEF EndsAt
    <3> QED
      BY <1>3, <3>2, <3>3
  <2> QED
    BY <1>8, <2>1 DEF EndsAt
<1>10. F[i].intact
  <2>1. ~NoAddress(F[i], U, b)
    BY <1>5, <1>9 DEF NoAddress
  <2> QED
    BY <1>8, <2>1
<1>11. /\ Frame(w) \in Seq(Cell) /\ Len(Frame(w)) = n
       /\ \A p \in 1 .. n - 2 : Frame(w)[p].v = s[p].v
  <2>1. /\ Frame(w) \in Seq(Cell) /\ Len(Frame(w)) = Len(w) + 2
        /\ \A p \in 1 .. Len(w) : Frame(w)[p] = DataCell(w[p])
    BY <1>3, FrameParts
  <2>2. \A p \in 1 .. n - 2 : Frame(w)[p].v = w[p]
    BY <1>3, <2>1, DataCells
  <2> QED
    BY <1>3, <2>1, <2>2
<1>12. F[i] \in SentFrame
  BY ElementOfSeq
<1>13. BeginsAs(F[i], b, n, s)
  BY <1>9, <1>10, <1>11, <1>12 DEF BeginsAs
<1> QED
  BY <1>13

\* The frames of the bus, byte by byte, and their lengths.
LEMMA RequestBytes ==
    ASSUME NEW r \in Request
    PROVE  LET f == RequestFrame(r)
           IN  /\ Len(f) = 8 /\ f[1].v = r.dev /\ f[2].v = r.fn
               /\ f[3].v = r.start \div 256 /\ f[4].v = r.start % 256
               /\ f[5].v = r.count \div 256 /\ f[6].v = r.count % 256
<1> DEFINE v == <<r.dev, r.fn, r.start \div 256, r.start % 256, r.count \div 256, r.count % 256>>
<1>1. v \in Seq(Byte) /\ Len(v) = 6
  <2>1. /\ r.dev \in Byte /\ r.fn \in Byte
        /\ r.start \div 256 \in Byte /\ r.start % 256 \in Byte
        /\ r.count \div 256 \in Byte /\ r.count % 256 \in Byte
    BY RequestParts, TwoBytes
  <2> QED
    BY <2>1
<1>2. /\ v[1] = r.dev /\ v[2] = r.fn /\ v[3] = r.start \div 256 /\ v[4] = r.start % 256
      /\ v[5] = r.count \div 256 /\ v[6] = r.count % 256
  OBVIOUS
<1>3. RequestFrame(r) = Frame(v)
  BY DEF RequestFrame
<1> HIDE DEF v
<1>4. Len(Frame(v)) = 8 /\ \A p \in 1 .. 6 : Frame(v)[p].v = v[p]
  <2>1. Len(Frame(v)) = Len(v) + 2 /\ \A p \in 1 .. Len(v) : Frame(v)[p] = DataCell(v[p])
    BY <1>1, FrameParts
  <2> QED
    BY <1>1, <2>1, DataCells
<1> QED
  BY <1>2, <1>3, <1>4

LEMMA HeadAndData ==
    ASSUME NEW h \in Seq(Byte), NEW d \in Seq(Byte)
    PROVE  /\ Len(Frame(h \o d)) = Len(h) + Len(d) + 2
           /\ \A p \in 1 .. Len(h) : Frame(h \o d)[p].v = h[p]
           /\ \A p \in 1 .. Len(d) : Frame(h \o d)[Len(h) + p].v = d[p]
<1> DEFINE v == h \o d
<1>1. /\ v \in Seq(Byte) /\ Len(v) = Len(h) + Len(d) /\ Len(h) \in Nat /\ Len(d) \in Nat
      /\ \A p \in 1 .. Len(h) + Len(d) : v[p] = IF p <= Len(h) THEN h[p] ELSE d[p - Len(h)]
  BY ConcatProperties, LenProperties
<1> HIDE DEF v
<1>2. Len(Frame(v)) = Len(v) + 2 /\ \A p \in 1 .. Len(v) : Frame(v)[p].v = v[p]
  BY <1>1, FrameParts, DataCells
<1>3. \A p \in 1 .. Len(h) : p \in 1 .. Len(v) /\ v[p] = h[p]
  BY <1>1
<1>4. ASSUME NEW p \in 1 .. Len(d) PROVE Len(h) + p \in 1 .. Len(v) /\ v[Len(h) + p] = d[p]
  <2>1. Len(h) + p \in 1 .. Len(h) + Len(d) /\ ~(Len(h) + p <= Len(h)) /\ Len(h) + p - Len(h) = p
    BY <1>1
  <2> QED
    BY <1>1, <2>1
<1>5. Len(Frame(v)) = Len(h) + Len(d) + 2
  BY <1>1, <1>2
<1> QED
  BY <1>2, <1>3, <1>4, <1>5 DEF v

LEMMA ReplyBytes ==
    ASSUME NEW r \in Request, r.fn \in {3, 4}, NEW d \in Seq(Byte)
    PROVE  LET f == ReplyFrame(r, d)
           IN  /\ Len(f) = Len(d) + r.fn + 2 /\ f[1].v = r.dev /\ f[2].v = r.fn
               /\ r.fn = 3 => f[3].v = 2 * r.count /\ \A p \in 1 .. Len(d) : f[3 + p].v = d[p]
<1>1. /\ r.dev \in Byte /\ 3 \in Byte /\ 4 \in Byte /\ 2 * r.count \in Byte
      /\ r.start \div 256 \in Byte /\ r.start % 256 \in Byte
  <2>1. \A n \in 1 .. 125 : 2 * n \in Byte
    BY DEF Byte
  <2>2. 3 \in Byte /\ 4 \in Byte
    BY DEF Byte
  <2> QED
    BY <2>1, <2>2, RequestParts, TwoBytes
<1>2. Len(d) \in Nat
  BY LenProperties
<1>3. CASE r.fn = 3
  <2> DEFINE h == <<r.dev, 3, 2 * r.count>>
  <2>1. h \in Seq(Byte) /\ Len(h) = 3 /\ h[1] = r.dev /\ h[2] = 3 /\ h[3] = 2 * r.count
    BY <1>1
  <2>2. ReplyFrame(r, d) = Frame(h \o d)
    BY <1>3 DEF ReplyFrame
  <2> HIDE DEF h
  <2>3. /\ Len(Frame(h \o d)) = 3 + Len(d) + 2
        /\ \A p \in 1 .. 3 : Frame(h \o d)[p].v = h[p]
        /\ \A p \in 1 .. Len(d) : Frame(h \o d)[3 + p].v = d[p]
    <3>1. /\ Len(Frame(h \o d)) = Len(h) + Len(d) + 2
          /\ \A p \in 1 .. Len(h) : Frame(h \o d)[p].v = h[p]
          /\ \A p \in 1 .. Len(d) : Frame(h \o d)[Len(h) + p].v = d[p]
      BY <2>1, HeadAndData
    <3> QED
      BY <2>1, <3>1
  <2> QED
    BY <1>2, <1>3, <2>1, <2>2, <2>3
<1>4. CASE r.fn = 4
  <2> DEFINE h == <<r.dev, 4, r.start \div 256, r.start % 256>>
  <2>1. h \in Seq(Byte) /\ Len(h) = 4 /\ h[1] = r.dev /\ h[2] = 4
    BY <1>1
  <2>2. ReplyFrame(r, d) = Frame(h \o d)
    BY <1>4 DEF ReplyFrame
  <2> HIDE DEF h
  <2>3. Len(Frame(h \o d)) = 4 + Len(d) + 2 /\ \A p \in 1 .. 4 : Frame(h \o d)[p].v = h[p]
    <3>1. /\ Len(Frame(h \o d)) = Len(h) + Len(d) + 2
          /\ \A p \in 1 .. Len(h) : Frame(h \o d)[p].v = h[p]
      BY <2>1, HeadAndData
    <3> QED
      BY <2>1, <3>1
  <2> QED
    BY <1>2, <1>4, <2>1, <2>2, <2>3
<1> QED
  BY <1>3, <1>4

\* What a device says of its registers.
LEMMA RegistersAre ==
    ASSUME NEW r \in Request, NEW low \in Byte
    PROVE  /\ Registers(r, low) \in Seq(Byte) /\ Len(Registers(r, low)) = 2 * r.count
           /\ \A n \in 0 .. r.count - 1 : /\ Registers(r, low)[2 * n + 1] = (r.start + n) % 256
                                          /\ Registers(r, low)[2 * n + 2] = low
<1> DEFINE e(i) == IF i % 2 = 1 THEN (r.start + (i - 1) \div 2) % 256 ELSE low
           s == [i \in 1 .. 2 * r.count |-> e(i)]
<1>1. r.count \in Nat /\ r.start \in Nat /\ 2 * r.count \in Nat
  BY RequestParts, Words
<1>2. Registers(r, low) = s
  BY DEF Registers
<1>3. s \in Seq(Byte)
  BY <1>2, RegistersType
<1>4. Len(s) = 2 * r.count
  <2> HIDE DEF e
  <2> QED
    BY <1>1
<1>5. ASSUME NEW n \in 0 .. r.count - 1
      PROVE  s[2 * n + 1] = (r.start + n) % 256 /\ s[2 * n + 2] = low
  <2>1. /\ 2 * n + 1 \in 1 .. 2 * r.count /\ 2 * n + 2 \in 1 .. 2 * r.count
    BY <1>1
  <2>2. e(2 * n + 1) = (r.start + n) % 256
    <3>1. (2 * n + 1) % 2 = 1 /\ (2 * n + 1 - 1) \div 2 = n
      OBVIOUS
    <3> QED
      BY <3>1
  <2>3. e(2 * n + 2) = low
    <3>1. (2 * n + 2) % 2 = 0
      OBVIOUS
    <3> QED
      BY <3>1
  <2> HIDE DEF e
  <2> QED
    BY <2>1, <2>2, <2>3
<1>6. \A n \in 0 .. r.count - 1 : s[2 * n + 1] = (r.start + n) % 256 /\ s[2 * n + 2] = low
  BY <1>5
<1> HIDE DEF s
<1> QED
  BY <1>2, <1>3, <1>4, <1>6

\* The length and the function code tell the frames apart that the parser must not
\* confuse: only a reply to FC=3 has an odd length of more than an exception's, and
\* what has a request's length and FC=3 is a request.
LEMMA Kinds ==
    ASSUME NEW k \in SentFrame
    PROVE  /\ \A c \in Nat : c >= 1 /\ Len(Sent(k)) = 2 * c + 5 =>
                  k.kind = "reply" /\ k.req.fn = 3 /\ k.req.count = c
           /\ Len(Sent(k)) = 8 /\ Sent(k)[2].v = 3 => k.kind = "request"
<1> DEFINE r == k.req
<1>1. r \in Request /\ k.low \in Byte /\ k.kind \in {"request", "reply", "exception"}
  BY RequestAssumption DEF SentFrame
<1>2. r.fn \in {3, 4, 6} /\ r.count \in Nat
  BY <1>1, RequestParts
<1> HIDE DEF r
<1>3. CASE k.kind = "request"
  <2>1. Len(Sent(k)) = 8
    BY <1>1, <1>3, RequestBytes DEF Sent, r
  <2> QED
    BY <1>3, <2>1
<1>4. CASE k.kind = "exception"
  <2> DEFINE v == <<r.dev, 128 + r.fn, 2>>
  <2>1. v \in Seq(Byte) /\ Len(v) = 3
    <3>1. 2 \in Byte /\ r.dev \in Byte /\ 128 + r.fn \in Byte
      BY <1>1, RequestParts DEF Byte
    <3> QED
      BY <3>1
  <2>2. Sent(k) = Frame(v)
    BY <1>4 DEF Sent, ExceptionFrame, r
  <2> HIDE DEF v
  <2>3. Len(Frame(v)) = 5
    <3>1. Len(Frame(v)) = Len(v) + 2
      BY <2>1, FrameCells
    <3> QED
      BY <2>1, <3>1
  <2> QED
    BY <2>2, <2>3
<1>5. CASE k.kind = "reply" /\ r.fn = 6
  <2>1. Sent(k) = RequestFrame(r)
    BY <1>5 DEF Sent, ReplyFrame, r
  <2>2. Len(Sent(k)) = 8 /\ Sent(k)[2].v = 6
    BY <1>1, <1>5, <2>1, RequestBytes
  <2> QED
    BY <2>2
<1>6. CASE k.kind = "reply" /\ r.fn \in {3, 4}
  <2> DEFINE d == Registers(r, k.low)
  <2>1. d \in Seq(Byte) /\ Len(d) = 2 * r.count
    BY <1>1, RegistersAre
  <2>2. Sent(k) = ReplyFrame(r, d)
    BY <1>6 DEF Sent, r
  <2> HIDE DEF d
  <2>3. Len(Sent(k)) = 2 * r.count + r.fn + 2 /\ Sent(k)[2].v = r.fn
    BY <1>1, <1>6, <2>1, <2>2, ReplyBytes
  <2>4. CASE r.fn = 3
    <3>1. Len(Sent(k)) = 2 * r.count + 5 /\ Sent(k)[2].v = 3
      BY <2>3, <2>4, <1>2
    <3>2. \A c \in Nat : Len(Sent(k)) = 2 * c + 5 => r.count = c
      BY <1>2, <3>1
    <3>3. Len(Sent(k)) # 8
      BY <1>2, <3>1
    <3> HIDE DEF r
    <3>4. k.kind = "reply" /\ r.fn = 3
      BY <1>6, <2>4
    <3> QED
      BY <3>2, <3>3, <3>4 DEF r
  <2>5. CASE r.fn = 4
    BY <1>2, <2>3, <2>5
  <2> QED
    BY <1>6, <2>4, <2>5
<1> QED
  BY <1>1, <1>2, <1>3, <1>4, <1>5, <1>6

-----------------------------------------------------------------------------
(* Every step keeps ValueInv. *)

\* What has been parsed of what is left does not matter to the rest.
LEMMA RestOfJoined ==
    ASSUME NEW s \in Seq(Cell), NEW t \in Seq(Cell), NEW n \in 0 .. Len(s)
    PROVE  Drop(s \o t, n) = Drop(s, n) \o t /\ n \in 0 .. Len(s \o t)
<1> DEFINE a == Drop(s \o t, n)
           b == Drop(s, n) \o t
<1>1. /\ s \o t \in Seq(Cell) /\ Len(s \o t) = Len(s) + Len(t) /\ Len(s) \in Nat /\ Len(t) \in Nat
      /\ \A p \in 1 .. Len(s) : (s \o t)[p] = s[p]
      /\ \A p \in 1 .. Len(t) : (s \o t)[Len(s) + p] = t[p]
  BY Joined
<1>2. n \in 0 .. Len(s \o t)
  BY <1>1
<1>3. /\ a \in Seq(Cell) /\ Len(a) = Len(s \o t) - n
      /\ \A p \in 1 .. Len(s \o t) - n : a[p] = (s \o t)[n + p]
  BY <1>1, <1>2, RestPart
<1>4. /\ Drop(s, n) \in Seq(Cell) /\ Len(Drop(s, n)) = Len(s) - n
      /\ \A p \in 1 .. Len(s) - n : Drop(s, n)[p] = s[n + p]
  BY RestPart
<1>5. /\ b \in Seq(Cell) /\ Len(b) = Len(Drop(s, n)) + Len(t)
      /\ \A p \in 1 .. Len(Drop(s, n)) : b[p] = Drop(s, n)[p]
      /\ \A p \in 1 .. Len(t) : b[Len(Drop(s, n)) + p] = t[p]
  BY <1>4, Joined
<1> HIDE DEF a, b
<1>6. Len(a) = Len(b)
  BY <1>1, <1>3, <1>4, <1>5
<1>7. ASSUME NEW p \in 1 .. Len(a) PROVE a[p] = b[p]
  <2>1. a[p] = (s \o t)[n + p]
    BY <1>3
  <2>2. CASE p \in 1 .. Len(s) - n
    <3>1. n + p \in 1 .. Len(s)
      BY <1>1, <2>2
    <3>2. b[p] = s[n + p]
      BY <1>4, <1>5, <2>2
    <3> QED
      BY <1>1, <2>1, <3>1, <3>2
  <2>3. CASE p \notin 1 .. Len(s) - n
    <3> DEFINE q == p - (Len(s) - n)
    <3>1. q \in 1 .. Len(t) /\ n + p = Len(s) + q /\ p = Len(s) - n + q
      BY <1>1, <1>3, <2>3
    <3> HIDE DEF q
    <3>2. a[p] = t[q]
      BY <1>1, <2>1, <3>1
    <3>3. b[p] = t[q]
      BY <1>4, <1>5, <3>1
    <3> QED
      BY <3>2, <3>3
  <2> QED
    BY <2>2, <2>3
<1>8. a = b
  BY <1>3, <1>5, <1>6, <1>7, SeqEqual
<1> QED
  BY <1>2, <1>8 DEF a, b

\* A step that takes the first n bytes.
LEMMA FewerBytes ==
    ASSUME TypeOK, ValueInv, NEW n \in 0 .. Len(buf), buf' = Drop(buf, n),
           UNCHANGED <<bus, sent, frames>>
    PROVE  /\ frames' \in Seq(SentFrame) /\ At(buf)' \in Nat
           /\ Marked(frames, Unparsed, At(buf))'
<1>1. buf \in Seq(Cell) /\ bus \in Seq(Cell) /\ Len(buf) \in Nat /\ Len(bus) \in Nat /\ sent \in Nat
  BY LenProperties DEF TypeOK
<1>2. /\ frames \in Seq(SentFrame) /\ At(buf) \in Nat /\ Marked(frames, Unparsed, At(buf))
  BY DEF ValueInv
<1>3. Len(buf') = Len(buf) - n
  BY <1>1, Cut
<1>4. At(buf)' = At(buf) + n
  BY <1>1, <1>3 DEF At
<1>5. Unparsed' = Drop(Unparsed, n) /\ n \in 0 .. Len(Unparsed) /\ Unparsed \in Seq(Cell)
  <2>1. buf \o bus \in Seq(Cell)
    BY <1>1, ConcatProperties
  <2> QED
    BY <1>1, <2>1, RestOfJoined DEF Unparsed
<1>6. Marked(frames, Drop(Unparsed, n), At(buf) + n)
  BY <1>2, <1>5, MarkedRest
<1>7. At(buf)' \in Nat
  BY <1>2, <1>4
<1> QED
  BY <1>2, <1>4, <1>5, <1>6, <1>7

\* What is not parsed yet ends where what was sent ends.
LEMMA Places ==
    ASSUME TypeOK
    PROVE  /\ Unparsed \in Seq(Cell) /\ Len(Unparsed) \in Nat /\ sent \in Nat /\ At(buf) \in Int
           /\ sent = At(buf) + Len(Unparsed)
<1>1. /\ buf \in Seq(Cell) /\ bus \in Seq(Cell) /\ Len(buf) \in Nat /\ Len(bus) \in Nat /\ sent \in Nat
  BY LenProperties DEF TypeOK
<1>2. Unparsed \in Seq(Cell) /\ Len(Unparsed) = Len(buf) + Len(bus)
  BY <1>1, ConcatProperties DEF Unparsed
<1> QED
  BY <1>1, <1>2 DEF At

\* The frame k of the values v comes through the line with the damage `how'.
Comes(k, v, how, kind, r) ==
    /\ Len(v) >= 3 /\ v[1] # 0 /\ Sent(k) = Frame(v)
    /\ k.kind = kind /\ k.req = r /\ k.at = sent
    /\ k.len = Len(Damaged(Frame(v), how)) /\ k.intact = (how = "none")
    /\ frames' = Append(frames, k)
    /\ sent' = sent + Len(Damaged(Frame(v), how))
    /\ Unparsed' = Unparsed \o Damaged(Frame(v), how) /\ At(buf)' = At(buf)

\* A frame comes: what is on the bus grows at its end, by what is left of the frame.
LEMMA FrameComes ==
    ASSUME TypeOK, NEW kind \in {"request", "reply", "exception"}, NEW r \in Requests,
           NEW low \in Byte, NEW f,
           f = Sent([at |-> sent, len |-> 0, kind |-> kind, req |-> r, low |-> low,
                     intact |-> TRUE]),
           Answer(f), OnBus(kind, r, low, f), buf' = buf
    PROVE  \E k \in SentFrame, v \in Seq(Byte), how \in Damages : Comes(k, v, how, kind, r)
<1>1. PICK how \in Damage :
          /\ bus' = bus \o Damaged(f, how)
          /\ sent' = sent + Len(Damaged(f, how))
          /\ frames' = Append(frames, [at |-> sent, len |-> Len(Damaged(f, how)), kind |-> kind,
                                       req |-> r, low |-> low, intact |-> how = "none"])
  BY DEF OnBus
<1>2. PICK v \in Seq(Byte) : Len(v) >= 3 /\ v[1] # 0 /\ f = Frame(v)
  BY DEF Answer
<1> DEFINE g == Damaged(f, how)
           k == [at |-> sent, len |-> Len(g), kind |-> kind, req |-> r, low |-> low,
                 intact |-> how = "none"]
<1>3. how \in Damages
  BY RequestAssumption
<1>4. g \in Seq(Cell) /\ Len(g) \in Nat
  BY <1>2, <1>3, DamagedFrame
<1>5. /\ buf \in Seq(Cell) /\ bus \in Seq(Cell) /\ Len(buf) \in Nat /\ Len(bus) \in Nat
      /\ sent \in Nat
  BY LenProperties DEF TypeOK
<1>6. /\ k \in SentFrame /\ k.at = sent /\ k.len = Len(g) /\ k.intact = (how = "none")
      /\ k.kind = kind /\ k.req = r
  <2>1. (how = "none") \in BOOLEAN
    OBVIOUS
  <2> QED
    BY <1>4, <1>5, <2>1 DEF SentFrame
<1>7. Sent(k) = f
  BY DEF Sent
<1>8. frames' = Append(frames, k) /\ bus' = bus \o g /\ sent' = sent + Len(g)
  BY <1>1
<1> HIDE DEF k, g
<1>9. Unparsed' = Unparsed \o g
  <2>1. (buf \o bus) \o g = buf \o (bus \o g)
    <3>1. buf \in Seq(Cell) /\ bus \in Seq(Cell) /\ g \in Seq(Cell)
      BY <1>4, <1>5
    <3> QED
      BY <3>1, Regroup, Zenon
  <2> QED
    BY <1>8, <2>1 DEF Unparsed
<1>10. At(buf)' = At(buf)
  <2>1. Len(bus') = Len(bus) + Len(g)
    BY <1>4, <1>5, <1>8, ConcatProperties
  <2>2. At(buf)' = sent' - Len(bus') - Len(buf) /\ At(buf) = sent - Len(bus) - Len(buf)
    BY DEF At
  <2> QED
    BY <1>4, <1>5, <1>8, <2>1, <2>2
<1>11. g = Damaged(Frame(v), how)
  BY <1>2 DEF g
<1> QED
  <2>1. Comes(k, v, how, kind, r)
    BY <1>2, <1>6, <1>7, <1>8, <1>9, <1>10, <1>11 DEF Comes
  <2> QED
    BY <1>3, <1>6, <2>1

LEMMA MoreBytes ==
    ASSUME TypeOK, ValueInv, NEW kind \in {"request", "reply", "exception"}, NEW r \in Requests,
           NEW low \in Byte, NEW f,
           f = Sent([at |-> sent, len |-> 0, kind |-> kind, req |-> r, low |-> low,
                     intact |-> TRUE]),
           Answer(f), OnBus(kind, r, low, f), UNCHANGED <<buf, pending, log>>
    PROVE  ValueInv'
<1>a. PICK k \in SentFrame, v \in Seq(Byte), how \in Damages : Comes(k, v, how, kind, r)
  BY FrameComes
<1>1. /\ Len(v) >= 3 /\ v[1] # 0 /\ Sent(k) = Frame(v) /\ k.at = sent
      /\ k.len = Len(Damaged(Frame(v), how)) /\ k.intact = (how = "none")
      /\ frames' = Append(frames, k)
      /\ Unparsed' = Unparsed \o Damaged(Frame(v), how) /\ At(buf)' = At(buf)
  BY <1>a DEF Comes
<1>2. Unparsed \in Seq(Cell) /\ sent = At(buf) + Len(Unparsed)
  BY Places
<1>3. /\ frames \in Seq(SentFrame) /\ At(buf) \in Nat /\ Marked(frames, Unparsed, At(buf))
      /\ pending \in Seq(Known) /\ LoggedIsTrue
  BY DEF ValueInv
<1>4. Marked(Append(frames, k), Unparsed \o Damaged(Frame(v), how), At(buf))
  BY <1>1, <1>2, <1>3, MarkedMore
<1>5. frames' \in Seq(SentFrame)
  BY <1>1, <1>3, AppendProperties
<1>6. LoggedIsTrue'
  <2>1. /\ DOMAIN frames = 1 .. Len(frames) /\ DOMAIN frames' = 1 .. Len(frames) + 1
        /\ Len(frames) \in Nat /\ \A i \in 1 .. Len(frames) : frames'[i] = frames[i]
    BY <1>1, <1>3, AppendProperties, LenProperties
  <2>2. \A i \in DOMAIN frames : i \in DOMAIN frames' /\ frames'[i] = frames[i]
    BY <2>1
  <2>3. log' = log
    OBVIOUS
  <2>4. ASSUME NEW n \in DOMAIN log
        PROVE  \E i \in DOMAIN frames' :
                   /\ Holds(frames'[i]) /\ frames'[i].at = log[n].at
                   /\ frames'[i].req.dev = log[n].dev
                   /\ log[n].value = <<Number % 256, frames'[i].low>>
    <3>1. PICK i \in DOMAIN frames :
              /\ Holds(frames[i]) /\ frames[i].at = log[n].at /\ frames[i].req.dev = log[n].dev
              /\ log[n].value = <<Number % 256, frames[i].low>>
      BY <1>3 DEF LoggedIsTrue
    <3>2. i \in DOMAIN frames' /\ frames'[i] = frames[i]
      BY <2>2
    <3> QED
      BY <3>1, <3>2
  <2>5. LoggedIsTrue' <=>
            \A n \in DOMAIN log' : \E i \in DOMAIN frames' :
                /\ Holds(frames'[i]) /\ frames'[i].at = log'[n].at
                /\ frames'[i].req.dev = log'[n].dev
                /\ log'[n].value = <<Number % 256, frames'[i].low>>
    BY DEF LoggedIsTrue, Holds, Covers
  <2> QED
    BY <2>3, <2>4, <2>5
<1>7. Marked(frames, Unparsed, At(buf))'
  BY <1>1, <1>4
<1> QED
  BY <1>1, <1>3, <1>5, <1>6, <1>7 DEF ValueInv

LEMMA ValueMasterAsks == ASSUME TypeOK, ValueInv, MasterAsks PROVE ValueInv'
<1>1. PICK r \in Requests : OnBus("request", r, 0, RequestFrame(r))
  BY DEF MasterAsks
<1>2. Answer(RequestFrame(r))
  <2>1. r \in Request /\ <<>> \in Seq(Byte)
    BY RequestAssumption, EmptySeq
  <2> QED
    BY <2>1, ReplyIsAnswer
<1>3. RequestFrame(r) = Sent([at |-> sent, len |-> 0, kind |-> "request", req |-> r, low |-> 0,
                              intact |-> TRUE])
  BY DEF Sent
<1>4. 0 \in Byte /\ "request" \in {"request", "reply", "exception"}
  BY DEF Byte
<1>5. UNCHANGED <<buf, pending, log>>
  BY DEF MasterAsks
<1> DEFINE f == RequestFrame(r)
<1> HIDE DEF f
<1>6. /\ f = Sent([at |-> sent, len |-> 0, kind |-> "request", req |-> r, low |-> 0,
                   intact |-> TRUE])
      /\ Answer(f) /\ OnBus("request", r, 0, f)
  BY <1>1, <1>2, <1>3 DEF f
<1> QED
  BY <1>4, <1>5, <1>6, MoreBytes

LEMMA ValueDeviceAnswers == ASSUME TypeOK, ValueInv, DeviceAnswers PROVE ValueInv'
<1>1. open \in Requests /\ open \in Request /\ UNCHANGED <<buf, pending, log>>
  BY RequestAssumption DEF TypeOK, DeviceAnswers
<1>2. ASSUME NEW low \in Lows, OnBus("reply", open, low, ReplyFrame(open, Registers(open, low)))
      PROVE  ValueInv'
  <2> DEFINE f == ReplyFrame(open, Registers(open, low))
  <2>1. low \in Byte /\ "reply" \in {"request", "reply", "exception"}
    BY RequestAssumption
  <2>2. Answer(f)
    BY <1>1, <2>1, RegistersType, ReplyIsAnswer
  <2>3. f = Sent([at |-> sent, len |-> 0, kind |-> "reply", req |-> open, low |-> low,
                  intact |-> TRUE])
    BY DEF Sent
  <2> HIDE DEF f
  <2>4. OnBus("reply", open, low, f)
    BY <1>2 DEF f
  <2> QED
    BY <1>1, <2>1, <2>2, <2>3, <2>4, MoreBytes
<1>3. ASSUME OnBus("exception", open, 0, ExceptionFrame(open)) PROVE ValueInv'
  <2> DEFINE f == ExceptionFrame(open)
  <2>1. 0 \in Byte /\ "exception" \in {"request", "reply", "exception"}
    BY DEF Byte
  <2>2. Answer(f)
    BY <1>1, EmptySeq, ReplyIsAnswer
  <2>3. f = Sent([at |-> sent, len |-> 0, kind |-> "exception", req |-> open, low |-> 0,
                  intact |-> TRUE])
    BY DEF Sent
  <2> HIDE DEF f
  <2>4. OnBus("exception", open, 0, f)
    BY <1>3 DEF f
  <2> QED
    BY <1>1, <2>1, <2>2, <2>3, <2>4, MoreBytes
<1>4. CASE UNCHANGED <<bus, sent, frames>>
  <2>1. Unparsed' = Unparsed /\ At(buf)' = At(buf) /\ UNCHANGED <<frames, pending, log>>
    BY <1>1, <1>4 DEF Unparsed, At
  <2> QED
    BY <2>1 DEF ValueInv, LoggedIsTrue
<1> QED
  BY <1>2, <1>3, <1>4 DEF DeviceAnswers

\* Steps that only move bytes from the port to the buffer, or none.
Stays ==
    /\ UNCHANGED <<line, pending, log>>
    /\ Unparsed' = Unparsed /\ At(buf)' = At(buf)

\* There is always room, so a read gives up no byte.
LEMMA ReadStays == ASSUME TypeOK, RoomInv, NEW c \in Chunks, Read(c) PROVE Stays
<1> DEFINE k == Least(c, Len(bus))
           g == SubSeq(bus, 1, k)
           over == Len(buf) + k - STREAM
<1>0. /\ bus \in Seq(Cell) /\ buf \in Seq(Cell) /\ Len(bus) \in Nat /\ Len(buf) \in Nat
      /\ STREAM \in Nat /\ sent \in Nat
  BY LenProperties, Sizes DEF TypeOK
<1>1. /\ buf' = (IF over > 0 THEN Drop(buf, over) ELSE buf) \o g
      /\ bus' = Drop(bus, k) /\ UNCHANGED <<pending, log, line>> /\ ph = "read"
  BY DEF Read
<1>2. c \in Nat /\ Len(buf) + c <= STREAM
  BY <1>1, RoomEnough, RoomAssumption DEF RoomForRead
<1>3. k \in 0 .. Len(bus) /\ k <= c
  BY <1>0, <1>2 DEF Least
<1> HIDE DEF k
<1>4. ~(over > 0)
  BY <1>0, <1>2, <1>3
<1>5. /\ g \in Seq(Cell) /\ Len(g) = k /\ bus' \in Seq(Cell) /\ Len(bus') = Len(bus) - k
      /\ g \o bus' = bus
  BY <1>0, <1>1, <1>3, Cut
<1> HIDE DEF g, over
<1>6. buf' = buf \o g
  BY <1>1, <1>4
<1>7. Unparsed' = Unparsed
  <2>1. (buf \o g) \o bus' = buf \o (g \o bus')
    <3>1. buf \in Seq(Cell) /\ g \in Seq(Cell) /\ bus' \in Seq(Cell)
      BY <1>0, <1>5
    <3> QED
      BY <3>1, Regroup, Zenon
  <2> QED
    BY <1>5, <1>6, <2>1 DEF Unparsed
<1>8. At(buf)' = At(buf)
  <2>1. Len(buf') = Len(buf) + k
    BY <1>0, <1>5, <1>6, ConcatProperties
  <2>2. k \in Nat
    BY <1>0, <1>3
  <2>3. sent' = sent /\ Len(bus') = Len(bus) - k
    BY <1>1, <1>5 DEF line
  <2>4. sent - (Len(bus) - k) - (Len(buf) + k) = sent - Len(bus) - Len(buf)
    BY <1>0, <2>2
  <2> QED
    BY <2>1, <2>3, <2>4 DEF At
<1> QED
  BY <1>1, <1>7, <1>8 DEF Stays

LEMMA OthersStay == ASSUME Tick \/ ParseEnd \/ Stop \/ UNCHANGED vars PROVE Stays
<1>1. UNCHANGED <<bus, buf, line, pending, log>>
  BY DEF Tick, ParseEnd, Stop, vars, line
<1>2. Unparsed' = Unparsed /\ At(buf)' = At(buf)
  BY <1>1 DEF Unparsed, At, line
<1> QED
  BY <1>1, <1>2 DEF Stays

LEMMA ValueStays == ASSUME ValueInv, Stays PROVE ValueInv'
  BY DEF ValueInv, LoggedIsTrue, Stays, line

\* What the buffer says of the frame at its head.
LEMMA FrameAtHead ==
    ASSUME TypeOK, ValueInv, NEW n \in Nat, 4 <= n, HasValidCrc(buf, n), ValidDevice(buf[1].v)
    PROVE  \E i \in 1 .. Len(frames) : BeginsAs(frames[i], At(buf), n, buf)
<1> DEFINE b == At(buf)
<1>1. /\ frames \in Seq(SentFrame) /\ b \in Nat /\ Marked(frames, buf \o bus, b)
      /\ buf \in Seq(Cell) /\ bus \in Seq(Cell)
  BY DEF ValueInv, TypeOK, Unparsed
<1>2. buf[1].v # 0
  BY DEF ValidDevice
<1> HIDE DEF b
<1>3. \E i \in 1 .. Len(frames) : BeginsAs(frames[i], b, n, buf)
  BY <1>1, <1>2, WholeFrameHere
<1> QED
  BY <1>3 DEF b

\* A buffer that begins with a request's bytes has that request at its head.
LEMMA HeadIs ==
    ASSUME NEW r \in Request, NEW b, \A p \in 1 .. 6 : RequestFrame(r)[p].v = b[p].v
    PROVE  HeadRequest(b) = r
<1>1. /\ b[1].v = r.dev /\ b[2].v = r.fn
      /\ b[3].v = r.start \div 256 /\ b[4].v = r.start % 256
      /\ b[5].v = r.count \div 256 /\ b[6].v = r.count % 256
  BY RequestBytes
<1>2. /\ 256 * (r.start \div 256) + (r.start % 256) = r.start
      /\ 256 * (r.count \div 256) + (r.count % 256) = r.count
  <2>1. r.start \in Int /\ r.count \in Int
    BY RequestParts, Words
  <2>2. \A n \in Int : 256 * (n \div 256) + (n % 256) = n
    OBVIOUS
  <2> QED
    BY <2>1, <2>2
<1>3. HeadRequest(b) = [dev |-> r.dev, fn |-> r.fn, start |-> r.start, count |-> r.count]
  BY <1>1, <1>2 DEF HeadRequest
<1>4. r = [dev |-> r.dev, fn |-> r.fn, start |-> r.start, count |-> r.count]
  BY DEF Request
<1> QED
  BY <1>3, <1>4

\* A request of FC=3 that the parser finds was asked.
LEMMA FoundWasAsked ==
    ASSUME TypeOK, ValueInv, NewRequest(buf) PROVE HeadRequest(buf) \in Known
<1>1. HeadRequest(buf) \in Pending
  BY NewRequestType DEF TypeOK
<1>2. ASSUME HeadRequest(buf).fn = 3 PROVE HeadRequest(buf) \in Requests
  <2>1. buf[2].v = 3 /\ ValidDevice(buf[1].v) /\ HasValidCrc(buf, 8)
    BY <1>2 DEF HeadRequest, NewRequest, IsRead
  <2>a. PICK i \in 1 .. Len(frames) : BeginsAs(frames[i], At(buf), 8, buf)
    <3>1. 8 \in Nat /\ 4 <= 8
      OBVIOUS
    <3> QED
      BY <2>1, <3>1, FrameAtHead
  <2>2. /\ frames[i] \in SentFrame /\ Len(Sent(frames[i])) = 8
        /\ \A p \in 1 .. 6 : Sent(frames[i])[p].v = buf[p].v
    <3>1. 8 - 2 = 6
      OBVIOUS
    <3> QED
      BY <2>a, <3>1 DEF BeginsAs
  <2> DEFINE k == frames[i]
             r == k.req
  <2>3. k.kind = "request"
    <3>1. Sent(k)[2].v = 3
      BY <2>1, <2>2
    <3> QED
      BY <2>2, <3>1, Kinds
  <2>4. r \in Requests /\ r \in Request /\ Sent(k) = RequestFrame(r)
    BY <2>2, <2>3, RequestAssumption DEF SentFrame, Sent
  <2>5. \A p \in 1 .. 6 : RequestFrame(r)[p].v = buf[p].v
    BY <2>2, <2>4
  <2> HIDE DEF r, k
  <2> QED
    BY <2>4, <2>5, HeadIs
<1> QED
  BY <1>1, <1>2 DEF Known

\* A reply that is logged is one to the request it is paired with, and its value is
\* the register's.
LEMMA ReplyIsTrue ==
    ASSUME Distinct, TypeOK, ValueInv, AskedReply(buf), NEW i \in Asked(buf), Covers(pending[i])
    PROVE  \E j \in DOMAIN frames :
               /\ Holds(frames[j]) /\ frames[j].at = At(buf)
               /\ frames[j].req.dev = pending[i].dev
               /\ Value(buf, pending[i]) = <<Number % 256, frames[j].low>>
<1> DEFINE r == pending[i]
           n == ReplyLen(buf)
<1>1. /\ buf \in Seq(Cell) /\ HasValidCrc(buf, n) /\ ValidDevice(buf[1].v)
      /\ r.dev = buf[1].v /\ r.fn = buf[2].v
  BY DEF TypeOK, AskedReply, IsRead, Asked
<1>2. /\ r.count \in Nat /\ r.start \in Nat /\ n = 2 * r.count + 5
      /\ i \in 1 .. Len(pending) /\ r \in Pending
  BY <1>1, AskedParts
<1>3. r.count >= 1
  BY <1>2, Sizes DEF Pending
<1>4. n \in Nat /\ 4 <= n /\ n - 2 = 2 * r.count + 3
  BY <1>2, <1>3
<1> HIDE DEF n
<1>a. PICK j \in 1 .. Len(frames) : BeginsAs(frames[j], At(buf), n, buf)
  BY <1>1, <1>4, FrameAtHead
<1>5. /\ frames[j] \in SentFrame /\ frames[j].at = At(buf) /\ frames[j].intact
      /\ Len(Sent(frames[j])) = n
      /\ \A p \in 1 .. n - 2 : Sent(frames[j])[p].v = buf[p].v
  BY <1>a DEF BeginsAs
<1>b. j \in DOMAIN frames
  BY LenProperties DEF ValueInv
<1> DEFINE k == frames[j]
           q == k.req
           d == Registers(q, k.low)
<1>6. k.kind = "reply" /\ q.fn = 3 /\ q.count = r.count
  BY <1>2, <1>3, <1>5, Kinds
<1>7. q \in Requests /\ q \in Request /\ k.low \in Byte
  BY <1>5, RequestAssumption DEF SentFrame
<1>8. Sent(k) = ReplyFrame(q, d)
  BY <1>6 DEF Sent
<1>9. /\ d \in Seq(Byte) /\ Len(d) = 2 * r.count
      /\ \A x \in 0 .. r.count - 1 : d[2 * x + 1] = (q.start + x) % 256 /\ d[2 * x + 2] = k.low
  BY <1>6, <1>7, RegistersAre
<1>10. \A p \in 1 .. 2 * r.count + 3 : Sent(k)[p].v = buf[p].v
  BY <1>4, <1>5
<1>11. frames[j].at = At(buf) /\ k.intact
  BY <1>5
<1> HIDE DEF d, k, q
<1>12. /\ Sent(k)[1].v = q.dev /\ Sent(k)[2].v = 3
       /\ \A p \in 1 .. 2 * r.count : Sent(k)[3 + p].v = d[p]
  <2>1. q.fn \in {3, 4}
    BY <1>6
  <2> QED
    BY <1>6, <1>7, <1>8, <1>9, <2>1, ReplyBytes, SMTT(30)
<1>13. q = r
  <2>1. q.dev = r.dev /\ r.fn = 3
    <3>1. 1 \in 1 .. 2 * r.count + 3 /\ 2 \in 1 .. 2 * r.count + 3
      BY <1>2
    <3> QED
      BY <1>1, <1>10, <1>12, <3>1
  <2>2. r \in Requests
    <3>1. pending \in Seq(Known)
      BY DEF ValueInv
    <3>2. r \in Known
      BY <1>2, <3>1, ElementOfSeq
    <3> QED
      BY <2>1, <3>2 DEF Known
  <2> HIDE DEF r
  <2> QED
    BY <1>6, <1>7, <2>1, <2>2 DEF Distinct
<1>c. /\ Number \in r.start .. r.start + r.count - 1 /\ Number \in Int
      /\ r.count \in Nat /\ r.start \in Nat
  BY <1>2, RequestAssumption, Words DEF Covers
<1> HIDE DEF r
<1> DEFINE x == Number - r.start
<1>14. x \in 0 .. r.count - 1 /\ r.start + x = Number
  BY <1>c
<1>15. Value(buf, r) = <<buf[2 * x + 4].v, buf[2 * x + 5].v>>
  BY DEF Value
<1> HIDE DEF x
<1>16. buf[2 * x + 4].v = d[2 * x + 1] /\ buf[2 * x + 5].v = d[2 * x + 2]
  <2>1. /\ 2 * x + 4 \in 1 .. 2 * r.count + 3 /\ 2 * x + 5 \in 1 .. 2 * r.count + 3
        /\ 2 * x + 1 \in 1 .. 2 * r.count /\ 2 * x + 2 \in 1 .. 2 * r.count
        /\ 3 + (2 * x + 1) = 2 * x + 4 /\ 3 + (2 * x + 2) = 2 * x + 5
    BY <1>c, <1>14, SMTT(30)
  <2>2. Sent(k)[2 * x + 4].v = buf[2 * x + 4].v /\ Sent(k)[2 * x + 5].v = buf[2 * x + 5].v
    BY <1>10, <2>1
  <2>3. Sent(k)[3 + (2 * x + 1)].v = d[2 * x + 1] /\ Sent(k)[3 + (2 * x + 2)].v = d[2 * x + 2]
    BY <1>12, <2>1
  <2> QED
    BY <2>1, <2>2, <2>3
<1>17. d[2 * x + 1] = Number % 256 /\ d[2 * x + 2] = k.low
  BY <1>9, <1>13, <1>14
<1>18. Value(buf, r) = <<Number % 256, k.low>>
  BY <1>15, <1>16, <1>17
<1>19. Holds(k) /\ k.req.dev = r.dev
  <2>1. Covers(r)
    BY DEF r
  <2> QED
    BY <1>6, <1>11, <1>13, <2>1 DEF Holds, q
<1> QED
  BY <1>b, <1>11, <1>18, <1>19 DEF k, r

LEMMA ValueTakeReply == ASSUME Distinct, TypeOK, ValueInv, TakeReply PROVE ValueInv'
<1>0. /\ buf \in Seq(Cell) /\ Len(buf) \in Nat /\ log \in Seq(Entry) /\ Len(log) \in Nat
      /\ DOMAIN log = 1 .. Len(log)
  BY LenProperties DEF TypeOK
<1>1. PICK i \in Asked(buf) :
          /\ LogValue(pending[i])
          /\ pending' = SubSeq(pending, 1, i - 1) \o Drop(pending, i)
  BY DEF TakeReply
<1>2. AskedReply(buf) /\ buf' = Drop(buf, ReplyLen(buf)) /\ UNCHANGED <<bus, sent, frames>>
  BY DEF TakeReply, line
<1>3. i \in 1 .. Len(pending) /\ ReplyLen(buf) = 2 * pending[i].count + 5 /\ pending[i].count \in Nat
  BY <1>0, AskedParts
<1>4. ReplyLen(buf) \in 0 .. Len(buf)
  <2>1. ReplyLen(buf) <= Len(buf)
    BY <1>2 DEF AskedReply, HasValidCrc
  <2> QED
    BY <1>0, <1>3, <2>1
<1>5. /\ frames' \in Seq(SentFrame) /\ At(buf)' \in Nat /\ Marked(frames, Unparsed, At(buf))'
  BY <1>2, <1>4, FewerBytes
<1>6. pending' \in Seq(Known)
  <2>1. pending \in Seq(Known) /\ Len(pending) \in Nat
    BY LenProperties DEF ValueInv
  <2>2. i - 1 \in 0 .. Len(pending) /\ i \in 0 .. Len(pending)
    BY <1>3, <2>1
  <2>3. SubSeq(pending, 1, i - 1) \in Seq(Known) /\ Drop(pending, i) \in Seq(Known)
    BY <2>1, <2>2, Cut
  <2> QED
    BY <1>1, <2>3, ConcatProperties
<1>7. LoggedIsTrue'
  <2>1. CASE Covers(pending[i]) /\ GapPassed(now)
    <3> DEFINE e == [at |-> At(buf), dev |-> pending[i].dev, value |-> Value(buf, pending[i]),
                     time |-> now]
    <3>1. log' = Append(log, e)
      BY <1>1, <2>1 DEF LogValue
    <3>2. e.at = At(buf) /\ e.dev = pending[i].dev /\ e.value = Value(buf, pending[i])
      OBVIOUS
    <3> HIDE DEF e
    <3>3. /\ DOMAIN log' = 1 .. Len(log) + 1 /\ \A m \in 1 .. Len(log) : log'[m] = log[m]
          /\ log'[Len(log) + 1] = e
      BY <1>0, <3>1
    <3>4. \E j \in DOMAIN frames :
              /\ Holds(frames[j]) /\ frames[j].at = e.at /\ frames[j].req.dev = e.dev
              /\ e.value = <<Number % 256, frames[j].low>>
      BY <1>2, <2>1, <3>2, ReplyIsTrue
    <3>5. \A m \in DOMAIN log' : (m \in DOMAIN log /\ log'[m] = log[m]) \/ log'[m] = e
      BY <1>0, <3>3
    <3>6. LoggedIsTrue
      BY DEF ValueInv
    <3>7. \A m \in DOMAIN log' : \E j \in DOMAIN frames :
              /\ Holds(frames[j]) /\ frames[j].at = log'[m].at /\ frames[j].req.dev = log'[m].dev
              /\ log'[m].value = <<Number % 256, frames[j].low>>
      BY <3>4, <3>5, <3>6 DEF LoggedIsTrue
    <3> QED
      BY <1>2, <3>7 DEF LoggedIsTrue, Holds, Covers
  <2>2. CASE ~(Covers(pending[i]) /\ GapPassed(now))
    <3>1. log' = log
      BY <1>1, <2>2 DEF LogValue
    <3> QED
      BY <1>2, <3>1 DEF ValueInv, LoggedIsTrue, Holds, Covers
  <2> QED
    BY <2>1, <2>2
<1> QED
  BY <1>5, <1>6, <1>7 DEF ValueInv

LEMMA ValueTakeRequest == ASSUME TypeOK, ValueInv, TakeRequest PROVE ValueInv'
<1>1. /\ NewRequest(buf) /\ pending' = Push(pending, HeadRequest(buf)) /\ buf' = Drop(buf, 8)
      /\ UNCHANGED <<bus, sent, frames, log>>
  BY DEF TakeRequest, line
<1>2. 8 \in 0 .. Len(buf)
  BY <1>1, NewRequestType DEF TypeOK
<1>3. /\ frames' \in Seq(SentFrame) /\ At(buf)' \in Nat /\ Marked(frames, Unparsed, At(buf))'
  BY <1>1, <1>2, FewerBytes
<1>4. pending' \in Seq(Known)
  <2> DEFINE kept == IF Len(pending) = MaxPending THEN Drop(pending, 1) ELSE pending
  <2>1. HeadRequest(buf) \in Known
    BY <1>1, FoundWasAsked
  <2>2. pending \in Seq(Known) /\ Len(pending) \in Nat /\ MaxPending \in Nat /\ 1 <= MaxPending
    BY LenProperties, Sizes DEF ValueInv
  <2>3. kept \in Seq(Known)
    <3>1. CASE Len(pending) = MaxPending
      <4>1. 1 \in 0 .. Len(pending)
        BY <2>2, <3>1
      <4> QED
        BY <2>2, <3>1, <4>1, Cut
    <3> QED
      BY <2>2, <3>1
  <2>4. Push(pending, HeadRequest(buf)) = Append(kept, HeadRequest(buf))
    BY DEF Push
  <2> HIDE DEF kept
  <2> QED
    BY <1>1, <2>1, <2>3, <2>4, AppendProperties
<1>5. LoggedIsTrue'
  BY <1>1 DEF ValueInv, LoggedIsTrue, Holds, Covers
<1> QED
  BY <1>3, <1>4, <1>5 DEF ValueInv

LEMMA ValuePassOver == ASSUME TypeOK, ValueInv, TakeOther \/ DropByte PROVE ValueInv'
<1>1. UNCHANGED <<bus, sent, frames, pending, log>>
  BY DEF TakeOther, DropByte, line
<1>2. PICK n \in 0 .. Len(buf) : buf' = Drop(buf, n)
  BY PassedOver
<1>3. /\ frames' \in Seq(SentFrame) /\ At(buf)' \in Nat /\ Marked(frames, Unparsed, At(buf))'
  BY <1>1, <1>2, FewerBytes
<1>4. LoggedIsTrue'
  BY <1>1 DEF ValueInv, LoggedIsTrue, Holds, Covers
<1>5. pending' \in Seq(Known)
  BY <1>1 DEF ValueInv
<1> QED
  BY <1>3, <1>4, <1>5 DEF ValueInv

LEMMA ValueStep ==
    ASSUME Distinct, TypeOK, RoomInv, ValueInv, [Next]_vars PROVE ValueInv'
<1>1. CASE MasterAsks
  BY <1>1, ValueMasterAsks
<1>2. CASE DeviceAnswers
  BY <1>2, ValueDeviceAnswers
<1>3. ASSUME NEW c \in Chunks, Read(c) PROVE ValueInv'
  BY <1>3, ReadStays, ValueStays
<1>4. CASE TakeReply
  BY <1>4, ValueTakeReply
<1>5. CASE TakeRequest
  BY <1>5, ValueTakeRequest
<1>6. CASE TakeOther \/ DropByte
  BY <1>6, ValuePassOver
<1>7. CASE Tick \/ ParseEnd \/ Stop \/ UNCHANGED vars
  BY <1>7, OthersStay, ValueStays
<1> QED
  BY <1>1, <1>2, <1>3, <1>4, <1>5, <1>6, <1>7 DEF Next, Line, Logger

LEMMA ValueInit == ASSUME NoWholeFrame PROVE Init => ValueInv
<1> SUFFICES ASSUME Init PROVE ValueInv
  OBVIOUS
<1>1. /\ buf = <<>> /\ pending = <<>> /\ log = <<>> /\ frames = <<>> /\ sent = Len(bus)
      /\ bus \in Noise /\ bus \in Seq(Cell) /\ Len(bus) \in Nat
  BY RequestAssumption, LenProperties DEF Init
<1>2. At(buf) = 0
  <2>1. Len(buf) = 0
    BY <1>1, EmptySeq
  <2>2. At(buf) = Len(bus) - Len(bus) - 0
    BY <1>1, <2>1 DEF At
  <2> QED
    BY <1>1, <2>2
<1>3. Unparsed = bus
  BY <1>1, ConcatEmptySeq DEF Unparsed
<1>4. Marked(frames, bus, 0)
  <2>1. ASSUME NEW p \in 1 .. Len(bus), NEW w \in Seq(Byte), HiOf(bus[p], w)
        PROVE  0 + p < Len(w) + 2
    <3>1. p < Len(w) + 2
      BY <1>1, <2>1 DEF NoWholeFrame
    <3> QED
      BY <3>1
  <2> QED
    BY <2>1 DEF Marked
<1>5. frames \in Seq(SentFrame) /\ pending \in Seq(Known)
  BY <1>1, EmptySeq
<1>6. LoggedIsTrue
  <2>1. DOMAIN log = {}
    BY <1>1
  <2> QED
    BY <2>1 DEF LoggedIsTrue
<1> QED
  BY <1>2, <1>3, <1>4, <1>5, <1>6 DEF ValueInv

\* Where the reads of a device that have one length are of one range, as the
\* inverter's polls are, every line of the log is the register's value in an
\* undamaged reply: whatever else is asked, damaged, cut off or left unanswered,
\* whatever the bytes of data and CRC look like, and however the reads cut them.
THEOREM LinesAreTrue == ASSUME Distinct, NoWholeFrame PROVE Spec => []LoggedIsTrue
<1>1. TypeOK /\ RoomInv /\ ValueInv /\ [Next]_vars => ValueInv'
  BY ValueStep
<1>2. Init => ValueInv
  BY ValueInit
<1>3. ValueInv => LoggedIsTrue
  BY DEF ValueInv
<1>4. TypeOK /\ RoomInv /\ [Next]_vars => RoomInv'
  BY RoomStep
<1> QED
  BY <1>1, <1>2, <1>3, <1>4, RoomInit, TypeCorrect, PTL DEF Spec

-----------------------------------------------------------------------------
(* No reply is passed over.  The frames lie one after the other, and the     *)
(* bytes of an undamaged one that are not parsed yet are as they were sent.  *)
(* So the parser never stops inside a request of FC=3 or inside the reply to *)
(* it, and comes to the reply with its request the newest in the queue.      *)

Contents(F, U, b) ==
    \A i \in 1 .. Len(F) : F[i].intact =>
        \A p \in 1 .. F[i].len : \A q \in 1 .. Len(U) :
            b + q = F[i].at + p => U[q] = Sent(F[i])[p]

\* Each frame begins where the one before it ends, the last one ends what was sent,
\* and a reply that follows a request is the reply to it.
InLine(F, e) ==
    /\ \A i \in 1 .. Len(F) : /\ F[i].len >= 4 /\ F[i].at + F[i].len <= e
                              /\ F[i].intact => F[i].len = Len(Sent(F[i]))
    /\ \A i, j \in 1 .. Len(F) : i < j => F[i].at + F[i].len <= F[j].at
    /\ \A i \in 2 .. Len(F) :
          /\ F[i].at = F[i - 1].at + F[i - 1].len
          /\ F[i].kind = "reply" /\ F[i - 1].kind = "request" => F[i].req = F[i - 1].req
    /\ Len(F) > 0 => F[Len(F)].at + F[Len(F)].len = e

LineInv ==
    /\ InLine(frames, sent)
    /\ Contents(frames, Unparsed, At(buf))
    /\ open # NoRequest =>
          Len(frames) > 0 /\ frames[Len(frames)].kind = "request" /\ frames[Len(frames)].req = open

\* An undamaged request of FC=3, and a reply of FC=3 just after one.
Asks(k) == k.kind = "request" /\ k.intact /\ k.req.fn = 3
Answers3(F, i) == i > 1 /\ F[i].kind = "reply" /\ F[i].intact /\ Asks(F[i - 1])

Newest(r) == Len(pending) > 0 /\ pending[Len(pending)] = r

\* Where the parser may be: before such a request or reply, or past it.
ParserInv ==
    /\ \A i \in 1 .. Len(frames) : Asks(frames[i]) =>
          \/ At(buf) <= frames[i].at
          \/ At(buf) = frames[i].at + frames[i].len /\ Newest(frames[i].req)
          \/ At(buf) > frames[i].at + frames[i].len
    /\ \A i \in 1 .. Len(frames) : Answers3(frames, i) =>
          At(buf) <= frames[i].at \/ At(buf) >= frames[i].at + frames[i].len

\* The parser waits for the reply to any request of FC=3, as it does with 255 bytes.
Fits == \A r \in Requests : r.fn = 3 => 2 * r.count + 5 <= MaxFrame

LEMMA ContentsRest ==
    ASSUME NEW F, NEW U \in Seq(Cell), NEW b \in Int, Contents(F, U, b), NEW n \in 0 .. Len(U)
    PROVE  Contents(F, Drop(U, n), b + n)
<1> DEFINE R == Drop(U, n)
<1>1. /\ Len(R) = Len(U) - n /\ Len(U) \in Nat /\ n \in Nat
      /\ \A q \in 1 .. Len(U) - n : R[q] = U[n + q]
  BY RestPart, LenProperties
<1> HIDE DEF R
<1>2. ASSUME NEW i \in 1 .. Len(F), F[i].intact, NEW p \in 1 .. F[i].len, NEW q \in 1 .. Len(R),
             (b + n) + q = F[i].at + p
      PROVE  R[q] = Sent(F[i])[p]
  <2>1. n + q \in 1 .. Len(U) /\ R[q] = U[n + q] /\ b + (n + q) = (b + n) + q
    BY <1>1
  <2>2. b + (n + q) = F[i].at + p
    BY <1>2, <2>1
  <2>3. U[n + q] = Sent(F[i])[p]
    BY <1>2, <2>1, <2>2 DEF Contents
  <2> QED
    BY <2>1, <2>3
<1> QED
  BY <1>2 DEF Contents, R

LEMMA ContentsMore ==
    ASSUME NEW F \in Seq(SentFrame), NEW U \in Seq(Cell), NEW b \in Int, Contents(F, U, b),
           InLine(F, b + Len(U)), NEW g \in Seq(Cell), NEW k \in SentFrame,
           k.at = b + Len(U), k.len = Len(g), k.intact => g = Sent(k)
    PROVE  Contents(Append(F, k), U \o g, b)
<1> DEFINE A == Append(F, k)
           J == U \o g
<1>1. /\ Len(J) = Len(U) + Len(g) /\ Len(U) \in Nat /\ Len(g) \in Nat
      /\ \A p \in 1 .. Len(U) : J[p] = U[p]
      /\ \A p \in 1 .. Len(g) : J[Len(U) + p] = g[p]
  BY Joined
<1> HIDE DEF J
<1>2. /\ Len(F) \in Nat /\ Len(A) = Len(F) + 1 /\ \A i \in 1 .. Len(F) : A[i] = F[i]
      /\ A[Len(F) + 1] = k
  BY LenProperties, AppendProperties
<1> HIDE DEF A
<1>3. ASSUME NEW i \in 1 .. Len(A), A[i].intact, NEW p \in 1 .. A[i].len, NEW q \in 1 .. Len(J),
             b + q = A[i].at + p
      PROVE  J[q] = Sent(A[i])[p]
  <2>1. CASE i \in 1 .. Len(F)
    <3>1. A[i] = F[i]
      BY <1>2, <2>1
    <3>2. F[i] \in SentFrame /\ F[i].at + F[i].len <= b + Len(U)
      BY <2>1, ElementOfSeq DEF InLine
    <3>3. F[i].at \in Nat /\ F[i].len \in Nat
      BY <3>2 DEF SentFrame
    <3>4. p \in 1 .. F[i].len /\ b + q = F[i].at + p /\ F[i].intact
      BY <1>3, <3>1
    <3>5. q \in 1 .. Len(U)
      <4>1. q \in Int /\ 1 <= q
        BY <1>1
      <4>2. p \in Int /\ p <= F[i].len
        BY <3>3, <3>4
      <4>3. \A a, l, u, x, y \in Int :
                b + y = a + x /\ x <= l /\ a + l <= b + u /\ 1 <= y => y \in 1 .. u
        OBVIOUS
      <4>4. Len(U) \in Int /\ F[i].at \in Int /\ F[i].len \in Int
        BY <1>1, <3>3
      <4> QED
        BY <3>2, <3>4, <4>1, <4>2, <4>3, <4>4
    <3>6. U[q] = Sent(F[i])[p]
      BY <2>1, <3>4, <3>5 DEF Contents
    <3> QED
      BY <1>1, <3>1, <3>5, <3>6
  <2>2. CASE i = Len(F) + 1
    <3>1. A[i] = k
      BY <1>2, <2>2
    <3>2. k.len \in Nat
      BY DEF SentFrame
    <3>3. p \in 1 .. k.len /\ b + q = (b + Len(U)) + p /\ g = Sent(k)
      BY <1>3, <3>1
    <3>4. q = Len(U) + p /\ p \in 1 .. Len(g)
      <4>1. q \in Int /\ p \in Int
        BY <1>1, <3>2, <3>3
      <4>2. \A u, x, y \in Int : b + y = (b + u) + x => y = u + x
        OBVIOUS
      <4>3. Len(U) \in Int /\ p \in 1 .. Len(g)
        BY <1>1, <3>3
      <4>4. q = Len(U) + p
        BY <3>3, <4>1, <4>2, <4>3
      <4> QED
        BY <4>3, <4>4
    <3>5. J[q] = g[p]
      BY <1>1, <3>4
    <3> QED
      BY <3>1, <3>3, <3>5
  <2> QED
    BY <1>2, <2>1, <2>2
<1> QED
  BY <1>3 DEF Contents, A, J

LEMMA InLineMore ==
    ASSUME NEW F \in Seq(SentFrame), NEW e \in Nat, InLine(F, e), NEW k \in SentFrame,
           k.at = e, k.len >= 4, k.intact => k.len = Len(Sent(k)),
           Len(F) > 0 /\ k.kind = "reply" /\ F[Len(F)].kind = "request" => k.req = F[Len(F)].req
    PROVE  InLine(Append(F, k), e + k.len)
<1> DEFINE A == Append(F, k)
           n == Len(F)
<1>1. /\ n \in Nat /\ Len(A) = n + 1 /\ \A i \in 1 .. n : A[i] = F[i]
      /\ A[n + 1] = k
  BY LenProperties, AppendProperties
<1> HIDE DEF A
<1>2. k.at \in Nat /\ k.len \in Nat
  BY DEF SentFrame
<1>3. \A i \in 1 .. n : F[i].at \in Nat /\ F[i].len \in Nat
  <2>1. \A i \in 1 .. n : F[i] \in SentFrame
    BY ElementOfSeq
  <2> QED
    BY <2>1 DEF SentFrame
<1>i. /\ \A i \in 1 .. n : /\ F[i].len >= 4 /\ F[i].at + F[i].len <= e
                           /\ F[i].intact => F[i].len = Len(Sent(F[i]))
      /\ \A i, j \in 1 .. n : i < j => F[i].at + F[i].len <= F[j].at
      /\ \A i \in 2 .. n :
            /\ F[i].at = F[i - 1].at + F[i - 1].len
            /\ F[i].kind = "reply" /\ F[i - 1].kind = "request" => F[i].req = F[i - 1].req
      /\ n > 0 => F[n].at + F[n].len = e
  BY DEF InLine
<1>m. n > 0 /\ k.kind = "reply" /\ F[n].kind = "request" => k.req = F[n].req
  OBVIOUS
<1> HIDE DEF n
<1>4. ASSUME NEW i \in 1 .. Len(A)
      PROVE  /\ A[i].len >= 4 /\ A[i].at + A[i].len <= e + k.len
             /\ A[i].intact => A[i].len = Len(Sent(A[i]))
  <2>1. CASE i \in 1 .. n
    <3>1. F[i].at + F[i].len <= e /\ A[i] = F[i] /\ F[i].at \in Nat /\ F[i].len \in Nat
      BY <1>1, <1>3, <1>i, <2>1
    <3>2. F[i].at + F[i].len <= e + k.len
      BY <1>2, <3>1, SMTT(30)
    <3> QED
      BY <1>i, <2>1, <3>1, <3>2
  <2>2. CASE i = n + 1
    BY <1>1, <1>2, <2>2
  <2> QED
    BY <1>1, <2>1, <2>2
<1>5. ASSUME NEW i \in 1 .. Len(A), NEW j \in 1 .. Len(A), i < j
      PROVE  A[i].at + A[i].len <= A[j].at
  <2>1. i \in 1 .. n /\ A[i] = F[i]
    BY <1>1, <1>5
  <2>2. CASE j \in 1 .. n
    BY <1>1, <1>5, <1>i, <2>1, <2>2
  <2>3. CASE j = n + 1
    BY <1>1, <1>i, <2>1, <2>3
  <2> QED
    BY <1>1, <2>2, <2>3
<1>6. ASSUME NEW i \in 2 .. Len(A)
      PROVE  /\ A[i].at = A[i - 1].at + A[i - 1].len
             /\ A[i].kind = "reply" /\ A[i - 1].kind = "request" => A[i].req = A[i - 1].req
  <2>1. CASE i \in 2 .. n
    <3>1. i - 1 \in 1 .. n /\ i \in 1 .. n
      BY <1>1, <2>1
    <3>2. A[i] = F[i] /\ A[i - 1] = F[i - 1]
      BY <1>1, <3>1
    <3> QED
      BY <1>i, <2>1, <3>2
  <2>2. CASE i = n + 1
    <3>1. i - 1 = n /\ n \in 1 .. n /\ n > 0
      BY <1>1, <2>2
    <3>2. A[i] = k /\ A[i - 1] = F[n]
      BY <1>1, <2>2, <3>1
    <3> QED
      BY <1>i, <1>m, <3>1, <3>2
  <2> QED
    BY <1>1, <2>1, <2>2
<1>7. A[Len(A)].at + A[Len(A)].len = e + k.len
  BY <1>1
<1>8. InLine(A, e + k.len)
  BY <1>4, <1>5, <1>6, <1>7 DEF InLine
<1> QED
  BY <1>8 DEF A

\* A frame comes that is a new request, or the answer to the one that waits.
LEMMA LineOnBus ==
    ASSUME TypeOK, ValueInv, LineInv, NEW kind \in {"request", "reply", "exception"},
           NEW r \in Requests, NEW low \in Byte, NEW f,
           f = Sent([at |-> sent, len |-> 0, kind |-> kind, req |-> r, low |-> low,
                     intact |-> TRUE]),
           Answer(f), OnBus(kind, r, low, f), buf' = buf,
           \/ kind = "request" /\ open' = r
           \/ kind # "request" /\ r = open /\ open # NoRequest /\ open' = NoRequest
    PROVE  /\ LineInv' /\ At(buf)' = At(buf)
           /\ \E k \in SentFrame : frames' = Append(frames, k) /\ k.at = sent
<1>a. PICK k \in SentFrame, v \in Seq(Byte), how \in Damages : Comes(k, v, how, kind, r)
  BY FrameComes
<1> DEFINE g == Damaged(Frame(v), how)
<1>1. /\ Len(v) >= 3 /\ v[1] # 0 /\ Sent(k) = Frame(v)
      /\ k.kind = kind /\ k.req = r /\ k.at = sent /\ k.len = Len(g) /\ k.intact = (how = "none")
      /\ frames' = Append(frames, k) /\ sent' = sent + Len(g)
      /\ Unparsed' = Unparsed \o g /\ At(buf)' = At(buf)
  BY <1>a DEF Comes
<1>2. g \in Seq(Cell) /\ Len(g) \in Nat /\ Len(g) >= 4
  BY <1>1, DamagedFrame
<1>3. k.intact => g = Sent(k)
  BY <1>1 DEF Damaged
<1> HIDE DEF g
<1>4. /\ Unparsed \in Seq(Cell) /\ sent = At(buf) + Len(Unparsed) /\ At(buf) \in Int /\ sent \in Nat
  BY Places
<1>5. /\ frames \in Seq(SentFrame) /\ Len(frames) \in Nat
      /\ InLine(frames, sent) /\ Contents(frames, Unparsed, At(buf))
  BY LenProperties DEF ValueInv, LineInv
<1>6. Contents(frames, Unparsed, At(buf))'
  <2> DEFINE b == At(buf)
  <2> HIDE DEF b
  <2>1. /\ b \in Int /\ Contents(frames, Unparsed, b) /\ InLine(frames, b + Len(Unparsed))
        /\ k.at = b + Len(Unparsed) /\ k.len = Len(g)
    BY <1>1, <1>4, <1>5 DEF b
  <2>2. Contents(Append(frames, k), Unparsed \o g, b)
    BY <1>2, <1>3, <1>4, <1>5, <2>1, ContentsMore
  <2> QED
    BY <1>1, <2>2 DEF b
<1>7. InLine(frames, sent)'
  <2>1. k.len >= 4 /\ (k.intact => k.len = Len(Sent(k)))
    BY <1>1, <1>2, <1>3
  <2>2. Len(frames) > 0 /\ k.kind = "reply" /\ frames[Len(frames)].kind = "request"
            => k.req = frames[Len(frames)].req
    BY <1>1 DEF LineInv
  <2>3. InLine(Append(frames, k), sent + k.len)
    BY <1>1, <1>4, <1>5, <2>1, <2>2, InLineMore
  <2> QED
    BY <1>1, <2>3
<1>8. open' # NoRequest =>
          Len(frames') > 0 /\ frames'[Len(frames')].kind = "request"
          /\ frames'[Len(frames')].req = open'
  <2>1. Len(frames') = Len(frames) + 1 /\ frames'[Len(frames) + 1] = k
    BY <1>1, <1>5, AppendProperties
  <2>2. Len(frames') > 0 /\ frames'[Len(frames')] = k
    BY <1>5, <2>1
  <2> QED
    BY <1>1, <2>2
<1> QED
  BY <1>1, <1>6, <1>7, <1>8 DEF LineInv

\* A step that takes the first n bytes.
Takes(n) ==
    /\ n \in 1 .. Len(buf)
    /\ buf' = Drop(buf, n) /\ UNCHANGED <<bus, line>>
    /\ Unparsed' = Drop(Unparsed, n) /\ n \in 0 .. Len(Unparsed) /\ At(buf)' = At(buf) + n

LEMMA TakesBytes ==
    ASSUME TypeOK, NEW n \in 1 .. Len(buf), buf' = Drop(buf, n), UNCHANGED <<bus, line>>
    PROVE  Takes(n)
<1>1. /\ buf \in Seq(Cell) /\ bus \in Seq(Cell) /\ Len(buf) \in Nat /\ Len(bus) \in Nat
      /\ sent \in Nat /\ n \in 0 .. Len(buf) /\ n \in Nat
  BY LenProperties DEF TypeOK
<1>2. Len(buf') = Len(buf) - n
  BY <1>1, Cut
<1>3. At(buf)' = At(buf) + n
  <2>1. At(buf)' = sent - Len(bus) - Len(buf') /\ At(buf) = sent - Len(bus) - Len(buf)
    BY DEF At, line
  <2> QED
    BY <1>1, <1>2, <2>1
<1>4. Unparsed' = Drop(Unparsed, n) /\ n \in 0 .. Len(Unparsed)
  <2>1. Drop(buf \o bus, n) = Drop(buf, n) \o bus /\ n \in 0 .. Len(buf \o bus)
    BY <1>1, RestOfJoined
  <2> QED
    BY <2>1 DEF Unparsed
<1> QED
  BY <1>3, <1>4 DEF Takes, line

\* A step that takes bytes takes a whole undamaged frame, or one byte.
LEMMA TakesFrames ==
    ASSUME TypeOK, ValueInv, TakeReply \/ TakeRequest \/ TakeOther \/ DropByte
    PROVE  \E n \in 1 .. Len(buf) :
               /\ Takes(n)
               /\ n = 1 \/ \E i \in 1 .. Len(frames) : BeginsAs(frames[i], At(buf), n, buf)
<1>1. buf \in Seq(Cell) /\ Len(buf) \in Nat /\ Len(buf) >= 4
  <2>1. buf \in Seq(Cell) /\ Len(buf) \in Nat
    BY LenProperties DEF TypeOK
  <2>2. Len(buf) >= 4
    BY DEF TakeReply, TakeRequest, TakeOther, DropByte, Parsing, NeedMore
  <2> QED
    BY <2>1, <2>2
<1>2. UNCHANGED <<bus, line>>
  BY DEF TakeReply, TakeRequest, TakeOther, DropByte
<1>3. ASSUME NEW n \in Nat, 4 <= n, HasValidCrc(buf, n), ValidDevice(buf[1].v), buf' = Drop(buf, n)
      PROVE  \E m \in 1 .. Len(buf) :
                 /\ Takes(m)
                 /\ m = 1 \/ \E i \in 1 .. Len(frames) : BeginsAs(frames[i], At(buf), m, buf)
  <2>1. n \in 1 .. Len(buf)
    BY <1>1, <1>3 DEF HasValidCrc
  <2>2. Takes(n)
    BY <1>2, <1>3, <2>1, TakesBytes
  <2>3. \E i \in 1 .. Len(frames) : BeginsAs(frames[i], At(buf), n, buf)
    BY <1>3, FrameAtHead
  <2> QED
    BY <2>1, <2>2, <2>3
<1>4. buf[3].v \in Byte
  BY <1>1, HeadBytes
<1>5. CASE TakeReply
  <2>1. /\ AskedReply(buf) /\ buf' = Drop(buf, ReplyLen(buf))
        /\ HasValidCrc(buf, ReplyLen(buf)) /\ ValidDevice(buf[1].v)
    BY <1>5 DEF TakeReply, AskedReply, IsRead
  <2>2. PICK i \in Asked(buf) : TRUE
    BY <2>1 DEF AskedReply
  <2>3. ReplyLen(buf) \in Nat /\ 4 <= ReplyLen(buf)
    <3>1. ReplyLen(buf) = 2 * pending[i].count + 5 /\ pending[i].count \in Nat
      BY <1>1, AskedParts
    <3> QED
      BY <3>1
  <2> QED
    BY <1>3, <2>1, <2>3
<1>6. CASE TakeRequest
  <2>1. HasValidCrc(buf, 8) /\ ValidDevice(buf[1].v) /\ buf' = Drop(buf, 8)
    BY <1>6 DEF TakeRequest, NewRequest, IsRead
  <2>2. 8 \in Nat /\ 4 <= 8
    OBVIOUS
  <2> QED
    BY <1>3, <2>1, <2>2
<1>7. CASE TakeOther
  <2>1. CASE OtherReply(buf) /\ buf' = Drop(buf, ReplyLen(buf))
    <3>1. HasValidCrc(buf, ReplyLen(buf)) /\ ValidDevice(buf[1].v)
      BY <2>1 DEF OtherReply, MayBeReply, IsRead
    <3>2. ReplyLen(buf) \in Nat /\ 4 <= ReplyLen(buf)
      BY <1>4 DEF ReplyLen, Byte
    <3> QED
      BY <1>3, <2>1, <3>1, <3>2
  <2>2. CASE WriteFrame(buf) /\ buf' = Drop(buf, 8)
    <3>1. HasValidCrc(buf, 8) /\ ValidDevice(buf[1].v) /\ 8 \in Nat /\ 4 <= 8
      BY <2>2 DEF WriteFrame
    <3> QED
      BY <1>3, <2>2, <3>1
  <2>3. CASE Exception(buf) /\ buf' = Drop(buf, 5)
    <3>1. HasValidCrc(buf, 5) /\ ValidDevice(buf[1].v) /\ 5 \in Nat /\ 4 <= 5
      BY <2>3 DEF Exception
    <3> QED
      BY <1>3, <2>3, <3>1
  <2> QED
    BY <1>7, <2>1, <2>2, <2>3 DEF TakeOther
<1>8. CASE DropByte
  <2>1. 1 \in 1 .. Len(buf) /\ buf' = Drop(buf, 1)
    BY <1>1, <1>8 DEF DropByte
  <2>2. Takes(1)
    BY <1>2, <2>1, TakesBytes
  <2> QED
    BY <2>1, <2>2
<1> QED
  BY <1>5, <1>6, <1>7, <1>8

LEMMA LineRequest == ASSUME TypeOK, ValueInv, LineInv, MasterAsks
    PROVE  /\ LineInv' /\ At(buf)' = At(buf)
           /\ \E k \in SentFrame : frames' = Append(frames, k) /\ k.at = sent
<1>1. PICK r \in Requests : OnBus("request", r, 0, RequestFrame(r)) /\ open' = r
  BY DEF MasterAsks
<1>2. r \in Request /\ <<>> \in Seq(Byte)
  BY RequestAssumption, EmptySeq
<1> DEFINE f == RequestFrame(r)
<1>3. /\ 0 \in Byte /\ "request" \in {"request", "reply", "exception"}
      /\ f = Sent([at |-> sent, len |-> 0, kind |-> "request", req |-> r, low |-> 0,
                   intact |-> TRUE])
      /\ Answer(f)
  <2>1. Answer(f)
    BY <1>2, ReplyIsAnswer
  <2>2. 0 \in Byte
    BY DEF Byte
  <2> QED
    BY <2>1, <2>2 DEF Sent
<1> HIDE DEF f
<1>4. OnBus("request", r, 0, f) /\ buf' = buf
  BY <1>1 DEF f, MasterAsks
<1> QED
  BY <1>1, <1>3, <1>4, LineOnBus

LEMMA LineAnswer == ASSUME TypeOK, ValueInv, LineInv, DeviceAnswers
    PROVE  /\ LineInv' /\ At(buf)' = At(buf)
           /\ \/ \E k \in SentFrame : frames' = Append(frames, k) /\ k.at = sent
              \/ UNCHANGED <<frames, sent>>
<1>1. /\ open \in Requests /\ open \in Request /\ open # NoRequest /\ open' = NoRequest
      /\ buf' = buf /\ UNCHANGED <<pending, log>>
  BY RequestAssumption DEF TypeOK, DeviceAnswers
<1>2. ASSUME NEW low \in Lows, OnBus("reply", open, low, ReplyFrame(open, Registers(open, low)))
      PROVE  /\ LineInv' /\ At(buf)' = At(buf)
             /\ \E k \in SentFrame : frames' = Append(frames, k) /\ k.at = sent
  <2> DEFINE f == ReplyFrame(open, Registers(open, low))
  <2>1. low \in Byte /\ "reply" \in {"request", "reply", "exception"} /\ "reply" # "request"
    BY RequestAssumption
  <2>2. Answer(f)
    BY <1>1, <2>1, RegistersType, ReplyIsAnswer
  <2>3. f = Sent([at |-> sent, len |-> 0, kind |-> "reply", req |-> open, low |-> low,
                  intact |-> TRUE])
    BY DEF Sent
  <2> HIDE DEF f
  <2>4. OnBus("reply", open, low, f)
    BY <1>2 DEF f
  <2> QED
    BY <1>1, <2>1, <2>2, <2>3, <2>4, LineOnBus
<1>3. ASSUME OnBus("exception", open, 0, ExceptionFrame(open))
      PROVE  /\ LineInv' /\ At(buf)' = At(buf)
             /\ \E k \in SentFrame : frames' = Append(frames, k) /\ k.at = sent
  <2> DEFINE f == ExceptionFrame(open)
  <2>1. 0 \in Byte /\ "exception" \in {"request", "reply", "exception"} /\ "exception" # "request"
    BY DEF Byte
  <2>2. Answer(f)
    BY <1>1, EmptySeq, ReplyIsAnswer
  <2>3. f = Sent([at |-> sent, len |-> 0, kind |-> "exception", req |-> open, low |-> 0,
                  intact |-> TRUE])
    BY DEF Sent
  <2> HIDE DEF f
  <2>4. OnBus("exception", open, 0, f)
    BY <1>3 DEF f
  <2> QED
    BY <1>1, <2>1, <2>2, <2>3, <2>4, LineOnBus
<1>4. ASSUME UNCHANGED <<bus, sent, frames>>
      PROVE  LineInv' /\ At(buf)' = At(buf)
  <2>1. Unparsed' = Unparsed /\ At(buf)' = At(buf)
    BY <1>1, <1>4 DEF Unparsed, At
  <2> QED
    BY <1>1, <1>4, <2>1 DEF LineInv
<1> QED
  BY <1>2, <1>3, <1>4 DEF DeviceAnswers

LEMMA LineTakes ==
    ASSUME TypeOK, LineInv, NEW n \in 1 .. Len(buf), Takes(n) PROVE LineInv'
<1>1. /\ UNCHANGED <<sent, frames, open>> /\ Unparsed' = Drop(Unparsed, n)
      /\ n \in 0 .. Len(Unparsed) /\ At(buf)' = At(buf) + n
  BY DEF Takes, line
<1> DEFINE b == At(buf)
<1>2. Unparsed \in Seq(Cell) /\ b \in Int
  BY Places
<1>3. Contents(frames, Unparsed, b)
  BY DEF LineInv
<1> HIDE DEF b
<1>4. Contents(frames, Drop(Unparsed, n), b + n)
  BY <1>1, <1>2, <1>3, ContentsRest
<1>5. Contents(frames, Unparsed, At(buf))'
  BY <1>1, <1>4 DEF b
<1> QED
  BY <1>1, <1>5 DEF LineInv

LEMMA LineStays == ASSUME LineInv, Stays PROVE LineInv'
  BY DEF LineInv, Stays, line

-----------------------------------------------------------------------------
(* Where the parser may be. *)

\* Two frames at one place are one.
LEMMA OnePlace ==
    ASSUME TypeOK, ValueInv, LineInv,
           NEW i \in 1 .. Len(frames), NEW j \in 1 .. Len(frames), frames[i].at = frames[j].at
    PROVE  i = j
<1>1. frames \in Seq(SentFrame) /\ Len(frames) \in Nat
  BY LenProperties DEF ValueInv
<1>2. /\ frames[i].at \in Nat /\ frames[i].len \in Nat
      /\ frames[j].at \in Nat /\ frames[j].len \in Nat
  <2>1. frames[i] \in SentFrame /\ frames[j] \in SentFrame
    BY <1>1, ElementOfSeq
  <2> QED
    BY <2>1 DEF SentFrame
<1>3. /\ frames[i].len >= 4 /\ frames[j].len >= 4
      /\ i < j => frames[i].at + frames[i].len <= frames[j].at
      /\ j < i => frames[j].at + frames[j].len <= frames[i].at
  BY DEF LineInv, InLine
<1>4. ~(i < j) /\ ~(j < i)
  BY <1>2, <1>3
<1> QED
  BY <1>1, <1>4

\* A parser that is before a frame does not step over its start.
LEMMA StopsAt ==
    ASSUME TypeOK, ValueInv, LineInv, NEW n \in 1 .. Len(buf), Takes(n),
           n = 1 \/ \E j \in 1 .. Len(frames) : BeginsAs(frames[j], At(buf), n, buf),
           NEW i \in 1 .. Len(frames), At(buf) < frames[i].at
    PROVE  At(buf)' <= frames[i].at
<1>1. frames \in Seq(SentFrame) /\ Len(frames) \in Nat
  BY LenProperties DEF ValueInv
<1>2. At(buf)' = At(buf) + n /\ At(buf) \in Int /\ n \in Int
  BY Places DEF Takes
<1>3. frames[i].at \in Nat /\ frames[i].len \in Nat
  <2>1. frames[i] \in SentFrame
    BY <1>1, ElementOfSeq
  <2> QED
    BY <2>1 DEF SentFrame
<1>4. CASE n = 1
  BY <1>2, <1>3, <1>4
<1>5. CASE n # 1
  <2>1. PICK j \in 1 .. Len(frames) : frames[j].at = At(buf) /\ frames[j].len = n
    BY <1>5 DEF BeginsAs
  <2>2. i < j => frames[i].at + frames[i].len <= frames[j].at
    BY DEF LineInv, InLine
  <2>3. j < i => frames[j].at + frames[j].len <= frames[i].at
    BY DEF LineInv, InLine
  <2>4. ~(i < j)
    BY <1>2, <1>3, <2>1, <2>2
  <2>5. j # i
    BY <1>2, <1>3, <2>1
  <2>6. j < i
    BY <1>1, <2>4, <2>5
  <2> QED
    BY <1>2, <2>1, <2>3, <2>6
<1> QED
  BY <1>4, <1>5

\* The bytes of an undamaged frame that begins at the head of the buffer.
LEMMA BytesAtHead ==
    ASSUME TypeOK, ValueInv, LineInv,
           NEW i \in 1 .. Len(frames), frames[i].intact, frames[i].at = At(buf)
    PROVE  /\ Len(Sent(frames[i])) = frames[i].len /\ frames[i].len \in Nat
           /\ \A p \in 1 .. Len(buf) : p <= frames[i].len => buf[p] = Sent(frames[i])[p]
<1>1. frames[i] \in SentFrame
  BY ElementOfSeq DEF ValueInv
<1>2. frames[i].len \in Nat /\ Len(Sent(frames[i])) = frames[i].len /\ At(buf) \in Int
  BY <1>1, Places DEF SentFrame, LineInv, InLine
<1>3. ASSUME NEW p \in 1 .. Len(buf), p <= frames[i].len PROVE buf[p] = Sent(frames[i])[p]
  <2>1. /\ buf \in Seq(Cell) /\ bus \in Seq(Cell)
    BY DEF TypeOK
  <2>2. /\ Len(buf \o bus) = Len(buf) + Len(bus) /\ Len(buf) \in Nat /\ Len(bus) \in Nat
        /\ \A q \in 1 .. Len(buf) : (buf \o bus)[q] = buf[q]
    BY <2>1, Joined
  <2>3. p \in 1 .. Len(Unparsed) /\ Unparsed[p] = buf[p] /\ p \in 1 .. frames[i].len
    BY <1>2, <1>3, <2>2 DEF Unparsed
  <2>4. At(buf) + p = frames[i].at + p
    OBVIOUS
  <2>5. Unparsed[p] = Sent(frames[i])[p]
    BY <2>3, <2>4 DEF LineInv, Contents
  <2> QED
    BY <2>3, <2>5
<1> QED
  BY <1>2, <1>3

\* A frame as it was sent has a CRC that matches.
LEMMA AnswerValid ==
    ASSUME NEW f, Answer(f) PROVE f \in Seq(Cell) /\ Len(f) >= 2 /\ HasValidCrc(f, Len(f))
<1>1. PICK v \in Seq(Byte) : Len(v) >= 3 /\ f = Frame(v)
  BY DEF Answer
<1>2. Frame(v) \in Seq(Cell) /\ Len(Frame(v)) = Len(v) + 2 /\ Len(v) \in Nat
  BY FrameCells, LenProperties
<1>3. HasValidCrc(Frame(v), Len(v) + 2)
  BY FrameIsValid
<1> QED
  BY <1>1, <1>2, <1>3

\* A parser at an undamaged request of FC=3 takes it for what it is.
LEMMA AtRequest ==
    ASSUME Fits, TypeOK, ValueInv, LineInv, Parsing,
           NEW i \in 1 .. Len(frames), Asks(frames[i]), frames[i].at = At(buf)
    PROVE  /\ NewRequest(buf) /\ ~AskedReply(buf) /\ HeadRequest(buf) = frames[i].req
           /\ frames[i].len = 8
<1> DEFINE r == frames[i].req
<1>1. frames[i] \in SentFrame /\ buf \in Seq(Cell) /\ Len(buf) \in Nat
  BY ElementOfSeq, LenProperties DEF ValueInv, TypeOK
<1>2. r \in Requests /\ r \in Request /\ r.fn = 3 /\ Sent(frames[i]) = RequestFrame(r)
      /\ frames[i].intact
  BY <1>1, RequestAssumption DEF SentFrame, Asks, Sent
<1>3. /\ Len(Sent(frames[i])) = frames[i].len
      /\ \A p \in 1 .. Len(buf) : p <= frames[i].len => buf[p] = Sent(frames[i])[p]
  BY <1>2, BytesAtHead
<1> HIDE DEF r
<1>4. /\ Len(RequestFrame(r)) = 8 /\ RequestFrame(r)[1].v = r.dev /\ RequestFrame(r)[2].v = r.fn
  BY <1>2, RequestBytes
<1>5. frames[i].len = 8 /\ \A p \in 1 .. Len(buf) : p <= 8 => buf[p] = RequestFrame(r)[p]
  BY <1>2, <1>3, <1>4
<1>6. ~NeedMore(buf) /\ Len(buf) >= 4
  BY DEF Parsing, NeedMore
<1>7. IsRead(buf)
  <2>1. 1 \in 1 .. Len(buf) /\ 2 \in 1 .. Len(buf)
    BY <1>1, <1>6
  <2>2. buf[1].v = r.dev /\ buf[2].v = 3
    BY <1>2, <1>4, <1>5, <2>1
  <2>3. r.dev \in 1 .. 247
    BY <1>2 DEF Request
  <2> QED
    BY <2>2, <2>3 DEF IsRead, ValidDevice
<1>8. ~AskedReply(buf)
  <2> SUFFICES ASSUME AskedReply(buf) PROVE FALSE
    OBVIOUS
  <2>1. PICK x \in Asked(buf) : TRUE
    BY DEF AskedReply
  <2>2. ReplyLen(buf) = 2 * pending[x].count + 5 /\ pending[x].count \in Nat
    BY <1>1, AskedParts
  <2>3. ReplyLen(buf) \in Nat /\ 4 <= ReplyLen(buf) /\ ReplyLen(buf) # 8
    BY <2>2
  <2>4. HasValidCrc(buf, ReplyLen(buf)) /\ ValidDevice(buf[1].v)
    BY <1>7 DEF AskedReply, IsRead
  <2>5. PICK j \in 1 .. Len(frames) : BeginsAs(frames[j], At(buf), ReplyLen(buf), buf)
    BY <2>3, <2>4, FrameAtHead
  <2>6. frames[j].at = frames[i].at /\ frames[j].len = ReplyLen(buf)
    BY <2>5 DEF BeginsAs
  <2>7. i = j
    BY <2>6, OnePlace
  <2> QED
    BY <1>5, <2>3, <2>6, <2>7
<1>9. Len(buf) >= 8
  BY <1>1, <1>6, <1>7, <1>8 DEF NeedMore
<1>10. \A p \in 1 .. 8 : buf[p] = RequestFrame(r)[p]
  BY <1>1, <1>5, <1>9
<1>11. HasValidCrc(buf, 8)
  <2>1. <<>> \in Seq(Byte)
    BY EmptySeq
  <2>2. RequestFrame(r) \in Seq(Cell) /\ HasValidCrc(RequestFrame(r), 8)
    BY <1>2, <1>4, <2>1, ReplyIsAnswer, AnswerValid
  <2>3. 8 \in Nat /\ 2 <= 8 /\ 8 <= Len(buf) /\ 8 <= Len(RequestFrame(r))
    BY <1>4, <1>9
  <2> QED
    BY <1>1, <1>10, <2>2, <2>3, CrcAlike
<1>12. HeadRequest(buf) = r
  <2>1. \A p \in 1 .. 6 : RequestFrame(r)[p].v = buf[p].v
    BY <1>10
  <2> QED
    BY <1>2, <2>1, HeadIs
<1>13. r.count \in 1 .. MaxCount
  <2>1. r.count \in 1 .. 125
    BY <1>2, RequestParts
  <2>2. 2 * r.count + 5 <= MaxFrame
    BY <1>2 DEF Fits
  <2>3. \A c, m \in Nat : c >= 1 /\ 2 * c + 5 <= m => c \in 1 .. (m - 5) \div 2
    OBVIOUS
  <2>4. r.count \in Nat /\ r.count >= 1
    <3>1. \A c \in 1 .. 125 : c \in Nat /\ c >= 1
      OBVIOUS
    <3> QED
      BY <2>1, <3>1
  <2>5. MaxFrame \in Nat
    BY Sizes
  <2>6. r.count \in 1 .. (MaxFrame - 5) \div 2
    BY <2>2, <2>3, <2>4, <2>5
  <2> QED
    BY <2>6 DEF MaxCount
<1> QED
  BY <1>5, <1>7, <1>8, <1>11, <1>12, <1>13 DEF NewRequest, r

\* A parser at an undamaged reply of FC=3 that follows its request finds the request
\* in the queue, and no other that fits.
LEMMA AtReply ==
    ASSUME Distinct, TypeOK, ValueInv, LineInv, ParserInv, Parsing,
           NEW i \in 1 .. Len(frames), Answers3(frames, i), frames[i].at = At(buf)
    PROVE  /\ AskedReply(buf) /\ ReplyLen(buf) = frames[i].len
           /\ \A x \in Asked(buf) : pending[x] = frames[i].req
<1> DEFINE r == frames[i].req
           d == Registers(r, frames[i].low)
           f == Sent(frames[i])
           n == frames[i].len
<1>1. /\ frames[i] \in SentFrame /\ buf \in Seq(Cell) /\ Len(buf) \in Nat /\ Len(frames) \in Nat
      /\ pending \in Seq(Known) /\ Len(pending) \in Nat /\ DOMAIN pending = 1 .. Len(pending)
  BY ElementOfSeq, LenProperties DEF ValueInv, TypeOK
<1>2. i \in 2 .. Len(frames) /\ i - 1 \in 1 .. Len(frames)
  BY <1>1 DEF Answers3
<1>3. /\ frames[i].at = frames[i - 1].at + frames[i - 1].len
      /\ r = frames[i - 1].req /\ frames[i].kind = "reply" /\ frames[i].intact
      /\ Asks(frames[i - 1])
  BY <1>2 DEF Answers3, Asks, LineInv, InLine
<1>4. r \in Requests /\ r \in Request /\ r.fn = 3 /\ r.count \in Nat /\ frames[i].low \in Byte
  <2>1. r \in Requests /\ r \in Request /\ frames[i].low \in Byte
    BY <1>1, RequestAssumption DEF SentFrame
  <2>2. r.fn = 3
    BY <1>3 DEF Asks
  <2> HIDE DEF r
  <2>3. r.count \in 1 .. 125
    BY <2>1, RequestParts
  <2>4. r.count \in Nat
    <3>1. \A c \in 1 .. 125 : c \in Nat
      OBVIOUS
    <3> QED
      BY <2>3, <3>1
  <2> QED
    BY <2>1, <2>2, <2>4
<1>5. Newest(r)
  <2>1. frames[i - 1] \in SentFrame
    BY <1>2, ElementOfSeq DEF ValueInv
  <2>2. frames[i - 1].at \in Nat /\ frames[i - 1].len \in Nat /\ frames[i - 1].len >= 4
    BY <1>2, <2>1 DEF SentFrame, LineInv, InLine
  <2>3. \/ At(buf) <= frames[i - 1].at
        \/ At(buf) = frames[i - 1].at + frames[i - 1].len /\ Newest(frames[i - 1].req)
        \/ At(buf) > frames[i - 1].at + frames[i - 1].len
    BY <1>2, <1>3 DEF ParserInv
  <2>4. At(buf) = frames[i - 1].at + frames[i - 1].len
    BY <1>3
  <2>5. ~(At(buf) <= frames[i - 1].at) /\ ~(At(buf) > frames[i - 1].at + frames[i - 1].len)
    BY <2>2, <2>4
  <2> QED
    BY <1>3, <2>3, <2>5
<1>6. f = ReplyFrame(r, d)
  BY <1>3 DEF Sent
<1>7. d \in Seq(Byte) /\ Len(d) = 2 * r.count
  BY <1>4, RegistersAre
<1>8. Len(f) = n /\ \A p \in 1 .. Len(buf) : p <= n => buf[p] = f[p]
  BY <1>3, BytesAtHead
<1> HIDE DEF d, f, n, r
<1>9. Len(f) = 2 * r.count + 5 /\ f[1].v = r.dev /\ f[2].v = 3 /\ f[3].v = 2 * r.count
  <2>1. r.fn \in {3, 4}
    BY <1>4
  <2>2. /\ Len(f) = Len(d) + r.fn + 2 /\ f[1].v = r.dev /\ f[2].v = r.fn
        /\ f[3].v = 2 * r.count
    BY <1>4, <1>6, <1>7, <2>1, ReplyBytes
  <2> QED
    BY <1>4, <1>7, <2>2
<1>10. ~NeedMore(buf) /\ Len(buf) >= 4
  BY DEF Parsing, NeedMore
<1>11. buf[1].v = r.dev /\ buf[2].v = 3 /\ buf[3].v = 2 * r.count
  <2>1. 1 \in 1 .. Len(buf) /\ 2 \in 1 .. Len(buf) /\ 3 \in 1 .. Len(buf)
    BY <1>1, <1>10
  <2>2. 1 <= n /\ 2 <= n /\ 3 <= n
    <3>1. n = 2 * r.count + 5 /\ r.count \in Nat
      BY <1>4, <1>8, <1>9
    <3> QED
      BY <3>1
  <2> QED
    BY <1>8, <1>9, <2>1, <2>2
<1>12. IsRead(buf) /\ ReplyLen(buf) = n
  <2>1. r.dev \in 1 .. 247
    BY <1>4 DEF Request
  <2> QED
    BY <1>8, <1>9, <1>11, <2>1 DEF IsRead, ValidDevice, ReplyLen
<1>13. Asked(buf) # {}
  <2>1. Len(pending) \in DOMAIN pending /\ pending[Len(pending)] = r
    BY <1>1, <1>5 DEF Newest
  <2> QED
    BY <1>4, <1>11, <2>1 DEF Asked
<1>14. n \in Nat /\ 2 <= n
  BY <1>4, <1>8, <1>9
<1>15. n <= Len(buf)
  <2> SUFFICES ASSUME Len(buf) < n PROVE FALSE
    BY <1>1, <1>14
  <2>1. ~AskedReply(buf)
    BY <1>1, <1>12, <1>14 DEF AskedReply, HasValidCrc
  <2> QED
    BY <1>10, <1>12, <1>13, <2>1 DEF NeedMore
<1>16. HasValidCrc(buf, n)
  <2>1. f \in Seq(Cell) /\ HasValidCrc(f, n)
    BY <1>4, <1>6, <1>7, <1>8, ReplyIsAnswer, AnswerValid
  <2>2. \A p \in 1 .. n : buf[p] = f[p]
    BY <1>1, <1>8, <1>14, <1>15
  <2>3. n <= Len(f)
    BY <1>8, <1>14
  <2> QED
    BY <1>1, <1>14, <1>15, <2>1, <2>2, <2>3, CrcAlike
<1>17. ASSUME NEW x \in Asked(buf) PROVE pending[x] = r
  <2>1. /\ x \in 1 .. Len(pending) /\ pending[x].dev = r.dev /\ pending[x].fn = 3
        /\ 2 * pending[x].count = 2 * r.count
    BY <1>1, <1>11 DEF Asked
  <2>2. pending[x] \in Requests
    BY <1>1, <2>1, ElementOfSeq DEF Known
  <2>3. pending[x].count \in Nat
    BY <1>1, AskedParts
  <2>4. pending[x].count = r.count
    BY <1>4, <2>1, <2>3
  <2> QED
    BY <1>4, <2>1, <2>2, <2>4 DEF Distinct
<1> QED
  BY <1>12, <1>13, <1>16, <1>17 DEF AskedReply, n, r

\* A parser that does not move keeps its place when a frame comes.
LEMMA ParserMore ==
    ASSUME TypeOK, ValueInv, LineInv, ParserInv, NEW k \in SentFrame, k.at = sent,
           frames' = Append(frames, k), At(buf)' = At(buf), pending' = pending
    PROVE  ParserInv'
<1>1. /\ frames \in Seq(SentFrame) /\ Len(frames) \in Nat
      /\ Len(frames') = Len(frames) + 1 /\ frames'[Len(frames) + 1] = k
      /\ \A i \in 1 .. Len(frames) : frames'[i] = frames[i]
  <2>1. frames \in Seq(SentFrame) /\ Len(frames) \in Nat
    BY LenProperties DEF ValueInv
  <2> QED
    BY <2>1, AppendProperties
<1>2. At(buf) <= k.at /\ At(buf) \in Int
  BY Places
<1>3. ASSUME NEW i \in 1 .. Len(frames'), Asks(frames'[i])
      PROVE  \/ At(buf)' <= frames'[i].at
             \/ At(buf)' = frames'[i].at + frames'[i].len /\ Newest(frames[i].req)'
             \/ At(buf)' > frames'[i].at + frames'[i].len
  <2>1. CASE i \in 1 .. Len(frames)
    <3>1. frames'[i] = frames[i] /\ Asks(frames[i])
      BY <1>1, <1>3, <2>1
    <3>2. \/ At(buf) <= frames[i].at
          \/ At(buf) = frames[i].at + frames[i].len /\ Newest(frames[i].req)
          \/ At(buf) > frames[i].at + frames[i].len
      BY <2>1, <3>1 DEF ParserInv
    <3>3. Newest(frames[i].req) => Newest(frames[i].req)'
      BY <3>1 DEF Newest
    <3> QED
      BY <3>1, <3>2, <3>3
  <2>2. CASE i = Len(frames) + 1
    BY <1>1, <1>2, <2>2
  <2> QED
    BY <1>1, <2>1, <2>2
<1>4. ASSUME NEW i \in 1 .. Len(frames'), Answers3(frames', i)
      PROVE  At(buf)' <= frames'[i].at \/ At(buf)' >= frames'[i].at + frames'[i].len
  <2>1. CASE i \in 1 .. Len(frames)
    <3>1. i - 1 \in 1 .. Len(frames)
      BY <1>1, <1>4, <2>1 DEF Answers3
    <3>2. Answers3(frames, i) /\ frames'[i] = frames[i]
      BY <1>1, <1>4, <2>1, <3>1 DEF Answers3
    <3> QED
      BY <2>1, <3>2 DEF ParserInv
  <2>2. CASE i = Len(frames) + 1
    BY <1>1, <1>2, <2>2
  <2> QED
    BY <1>1, <2>1, <2>2
<1> QED
  BY <1>3, <1>4 DEF ParserInv

LEMMA ParserStays ==
    ASSUME ParserInv, UNCHANGED <<frames, pending>>, At(buf)' = At(buf) PROVE ParserInv'
  BY DEF ParserInv, Newest

\* What the parser does at an undamaged request of FC=3.
LEMMA TakesRequest ==
    ASSUME Fits, TypeOK, ValueInv, LineInv, TakeReply \/ TakeRequest \/ TakeOther \/ DropByte,
           NEW i \in 1 .. Len(frames), Asks(frames[i]), frames[i].at = At(buf)
    PROVE  At(buf)' = At(buf) + frames[i].len /\ Newest(frames[i].req)'
<1>1. /\ NewRequest(buf) /\ ~AskedReply(buf) /\ HeadRequest(buf) = frames[i].req
      /\ frames[i].len = 8
  <2>1. Parsing
    BY DEF TakeReply, TakeRequest, TakeOther, DropByte
  <2> QED
    BY <2>1, AtRequest
<1>2. /\ pending' = Push(pending, frames[i].req) /\ buf' = Drop(buf, 8)
      /\ UNCHANGED <<bus, line>>
  BY <1>1 DEF TakeReply, TakeRequest, TakeOther, DropByte
<1>3. 8 \in 1 .. Len(buf)
  <2>1. Len(buf) \in Nat /\ 8 <= Len(buf)
    BY <1>1, LenProperties DEF TypeOK, NewRequest, HasValidCrc
  <2> QED
    BY <2>1
<1>4. At(buf)' = At(buf) + 8
  BY <1>2, <1>3, TakesBytes DEF Takes
<1>5. Newest(frames[i].req)'
  <2> DEFINE kept == IF Len(pending) = MaxPending THEN Drop(pending, 1) ELSE pending
             r == frames[i].req
  <2>1. pending' = Append(kept, r)
    BY <1>2 DEF Push
  <2>2. kept \in Seq(Pending)
    <3>1. pending \in Seq(Pending) /\ Len(pending) \in Nat /\ MaxPending \in Nat /\ 1 <= MaxPending
      BY LenProperties, Sizes DEF TypeOK
    <3>2. CASE Len(pending) = MaxPending
      <4>1. 1 \in 0 .. Len(pending)
        BY <3>1, <3>2
      <4> QED
        BY <3>1, <3>2, <4>1, Cut
    <3> QED
      BY <3>1, <3>2
  <2>3. r \in Pending
    BY <1>1, NewRequestType DEF TypeOK
  <2>4. frames' = frames
    BY <1>2 DEF line
  <2> HIDE DEF kept, r
  <2>5. Len(kept) \in Nat /\ Len(pending') = Len(kept) + 1 /\ pending'[Len(kept) + 1] = r
    BY <2>1, <2>2, <2>3, LenProperties, AppendProperties
  <2>6. Len(pending') > 0 /\ pending'[Len(pending')] = r
    BY <2>5
  <2> QED
    BY <2>4, <2>6 DEF Newest, r
<1> QED
  BY <1>1, <1>4, <1>5

\* What the parser does at an undamaged reply of FC=3 that follows its request.
LEMMA TakesReply ==
    ASSUME Distinct, TypeOK, ValueInv, LineInv, ParserInv,
           TakeReply \/ TakeRequest \/ TakeOther \/ DropByte,
           NEW i \in 1 .. Len(frames), Answers3(frames, i), frames[i].at = At(buf)
    PROVE  At(buf)' = At(buf) + frames[i].len /\ LogValue(frames[i].req)
<1>1. /\ AskedReply(buf) /\ ReplyLen(buf) = frames[i].len
      /\ \A x \in Asked(buf) : pending[x] = frames[i].req
  <2>1. Parsing
    BY DEF TakeReply, TakeRequest, TakeOther, DropByte
  <2> QED
    BY <2>1, AtReply
<1>2. TakeReply
  BY <1>1 DEF TakeRequest, TakeOther, DropByte
<1>3. PICK x \in Asked(buf) : LogValue(pending[x])
  BY <1>2 DEF TakeReply
<1>4. LogValue(frames[i].req)
  BY <1>1, <1>3
<1>5. buf' = Drop(buf, frames[i].len) /\ UNCHANGED <<bus, line>>
  BY <1>1, <1>2 DEF TakeReply
<1>6. frames[i].len \in 1 .. Len(buf)
  <2>1. buf \in Seq(Cell) /\ Len(buf) \in Nat
    BY LenProperties DEF TypeOK
  <2>2. ReplyLen(buf) = 2 * pending[x].count + 5 /\ pending[x].count \in Nat
    BY <2>1, AskedParts
  <2>3. ReplyLen(buf) <= Len(buf)
    BY <1>1 DEF AskedReply, HasValidCrc
  <2> QED
    BY <1>1, <2>1, <2>2, <2>3
<1>7. At(buf)' = At(buf) + frames[i].len
  BY <1>5, <1>6, TakesBytes DEF Takes
<1> QED
  BY <1>4, <1>7

LEMMA ParserTakes ==
    ASSUME Fits, Distinct, TypeOK, ValueInv, LineInv, ParserInv,
           TakeReply \/ TakeRequest \/ TakeOther \/ DropByte
    PROVE  LineInv' /\ ParserInv'
<1>1. PICK n \in 1 .. Len(buf) :
          /\ Takes(n)
          /\ n = 1 \/ \E i \in 1 .. Len(frames) : BeginsAs(frames[i], At(buf), n, buf)
  BY TakesFrames
<1>2. /\ At(buf)' = At(buf) + n /\ At(buf) \in Int /\ n \in Int /\ n >= 1
      /\ frames' = frames /\ Len(frames) \in Nat
  <2>1. At(buf)' = At(buf) + n /\ frames' = frames
    BY <1>1 DEF Takes, line
  <2>2. At(buf) \in Int /\ Len(buf) \in Nat /\ Len(frames) \in Nat
    BY Places, LenProperties DEF TypeOK, ValueInv
  <2> QED
    BY <2>1, <2>2
<1>3. LineInv'
  BY <1>1, LineTakes
<1>4. \A i \in 1 .. Len(frames) : frames[i].at \in Nat /\ frames[i].len \in Nat
  <2>1. \A i \in 1 .. Len(frames) : frames[i] \in SentFrame
    BY ElementOfSeq DEF ValueInv
  <2> QED
    BY <2>1 DEF SentFrame
<1>5. \A i \in 1 .. Len(frames) : At(buf) < frames[i].at => At(buf)' <= frames[i].at
  BY <1>1, StopsAt
<1>6. ASSUME NEW i \in 1 .. Len(frames), Asks(frames[i])
      PROVE  \/ At(buf)' <= frames[i].at
             \/ At(buf)' = frames[i].at + frames[i].len /\ Newest(frames[i].req)'
             \/ At(buf)' > frames[i].at + frames[i].len
  <2>1. CASE At(buf) < frames[i].at
    BY <1>5, <2>1
  <2>2. CASE At(buf) = frames[i].at
    <3>1. At(buf)' = At(buf) + frames[i].len /\ Newest(frames[i].req)'
      BY <1>6, <2>2, TakesRequest
    <3> QED
      BY <2>2, <3>1
  <2>3. CASE At(buf) >= frames[i].at + frames[i].len
    BY <1>2, <1>4, <2>3
  <2>4. At(buf) <= frames[i].at \/ At(buf) >= frames[i].at + frames[i].len
    <3>1. \/ At(buf) <= frames[i].at
          \/ At(buf) = frames[i].at + frames[i].len
          \/ At(buf) > frames[i].at + frames[i].len
      BY <1>6 DEF ParserInv
    <3>2. frames[i].at + frames[i].len \in Int
      BY <1>4
    <3> QED
      BY <1>2, <3>1, <3>2
  <2> QED
    BY <1>2, <1>4, <2>1, <2>2, <2>3, <2>4
<1>7. ASSUME NEW i \in 1 .. Len(frames), Answers3(frames, i)
      PROVE  At(buf)' <= frames[i].at \/ At(buf)' >= frames[i].at + frames[i].len
  <2>1. CASE At(buf) < frames[i].at
    BY <1>5, <2>1
  <2>2. CASE At(buf) = frames[i].at
    <3>1. At(buf)' = At(buf) + frames[i].len
      BY <1>7, <2>2, TakesReply
    <3>2. frames[i].at + frames[i].len \in Int
      BY <1>4
    <3> QED
      BY <2>2, <3>1, <3>2
  <2>3. CASE At(buf) >= frames[i].at + frames[i].len
    BY <1>2, <1>4, <2>3
  <2>4. At(buf) <= frames[i].at \/ At(buf) >= frames[i].at + frames[i].len
    BY <1>7 DEF ParserInv
  <2> QED
    BY <1>2, <1>4, <2>1, <2>2, <2>3, <2>4
<1>8. ParserInv'
  BY <1>2, <1>6, <1>7 DEF ParserInv
<1> QED
  BY <1>3, <1>8

LEMMA LineStep ==
    ASSUME Fits, Distinct, TypeOK, RoomInv, ValueInv, LineInv, ParserInv, [Next]_vars
    PROVE  LineInv' /\ ParserInv'
<1>1. CASE MasterAsks
  <2>1. PICK k \in SentFrame : frames' = Append(frames, k) /\ k.at = sent
    BY <1>1, LineRequest
  <2>2. LineInv' /\ At(buf)' = At(buf) /\ pending' = pending
    BY <1>1, LineRequest DEF MasterAsks
  <2> QED
    BY <2>1, <2>2, ParserMore
<1>2. CASE DeviceAnswers
  <2>1. LineInv' /\ At(buf)' = At(buf) /\ pending' = pending
    BY <1>2, LineAnswer DEF DeviceAnswers
  <2>2. CASE UNCHANGED <<frames, sent>>
    BY <2>1, <2>2, ParserStays
  <2>3. ASSUME NEW k \in SentFrame, frames' = Append(frames, k), k.at = sent
        PROVE  ParserInv'
    BY <2>1, <2>3, ParserMore
  <2> QED
    BY <1>2, <2>1, <2>2, <2>3, LineAnswer
<1>3. CASE Stays
  <2>1. UNCHANGED <<frames, pending>> /\ At(buf)' = At(buf)
    BY <1>3 DEF Stays, line
  <2> QED
    BY <1>3, <2>1, LineStays, ParserStays
<1>4. CASE TakeReply \/ TakeRequest \/ TakeOther \/ DropByte
  BY <1>4, ParserTakes
<1>5. ASSUME NEW c \in Chunks, Read(c) PROVE Stays
  BY <1>5, ReadStays
<1>6. CASE Tick \/ ParseEnd \/ Stop \/ UNCHANGED vars
  BY <1>3, <1>6, OthersStay
<1> QED
  BY <1>1, <1>2, <1>3, <1>4, <1>5, <1>6 DEF Next, Line, Logger

LEMMA LineInit == ASSUME NoWholeFrame PROVE Init => LineInv /\ ParserInv
<1> SUFFICES ASSUME Init PROVE LineInv /\ ParserInv
  OBVIOUS
<1>1. frames = <<>> /\ Len(frames) = 0 /\ open = NoRequest
  BY EmptySeq DEF Init
<1>2. LineInv
  BY <1>1 DEF LineInv, InLine, Contents
<1>3. ParserInv
  BY <1>1 DEF ParserInv
<1> QED
  BY <1>2, <1>3

\* A line that the gap keeps out comes less than the gap after the last.
LEMMA TooSoon ==
    ASSUME TypeOK, GapInv, ~GapPassed(now)
    PROVE  log # <<>> /\ now - log[Len(log)].time < 2 * Gap
<1> DEFINE t == log[Len(log)].time
<1>1. now \in Nat /\ Gap \in Nat /\ Gap > 0 /\ last # <<>>
  <2>1. now \in Nat /\ Gap \in Nat
    BY RequestAssumption DEF TypeOK
  <2> QED
    BY <2>1 DEF GapPassed
<1>2. log # <<>> /\ last = <<t>>
  BY <1>1 DEF GapInv
<1>3. t \in Nat
  <2>1. log \in Seq(Entry) /\ Len(log) \in Nat
    BY LenProperties DEF TypeOK
  <2>2. Len(log) \in 1 .. Len(log)
    BY <1>2, <2>1, EmptySeq
  <2>3. log[Len(log)] \in Entry
    BY <2>1, <2>2, ElementOfSeq
  <2> QED
    BY <2>3 DEF Entry
<1>4. ~(now \div 2 - t \div 2 - (IF now % 2 < t % 2 THEN 1 ELSE 0) >= Gap)
  <2>1. last[1] = t
    BY <1>2
  <2> QED
    BY <2>1 DEF GapPassed
<1> HIDE DEF t
<1>5. \A x, l, g \in Nat : ~(x \div 2 - l \div 2 - (IF x % 2 < l % 2 THEN 1 ELSE 0) >= g)
                               => x - l < 2 * g
  OBVIOUS
<1>6. now - t < 2 * Gap
  BY <1>1, <1>3, <1>4, <1>5
<1> QED
  BY <1>2, <1>6 DEF t

\* The parser passes the end of a reply only as it takes it.
LEMMA SkipStep ==
    ASSUME Fits, Distinct, Type = 3, TypeOK, RoomInv, GapInv, ValueInv, LineInv, ParserInv,
           [Next]_vars, NEW i \in DOMAIN frames, Holds(frames[i]), ~Heard(i), Heard(i)', log' = log
    PROVE  log # <<>> /\ now - log[Len(log)].time < 2 * Gap
<1>1. /\ frames \in Seq(SentFrame) /\ Len(frames) \in Nat /\ i \in 1 .. Len(frames)
      /\ frames[i] \in SentFrame
  <2>1. frames \in Seq(SentFrame) /\ Len(frames) \in Nat /\ i \in 1 .. Len(frames)
    BY LenProperties DEF ValueInv
  <2> QED
    BY <2>1, ElementOfSeq
<1>2. frames[i].at \in Nat /\ frames[i].len \in Nat /\ frames[i].len >= 4 /\ At(buf) \in Int
  BY <1>1, Places DEF SentFrame, LineInv, InLine
<1>3. i > 1 => i - 1 \in 1 .. Len(frames)
  BY <1>1
<1>4. /\ i > 1 /\ frames'[i - 1].kind = "request" /\ frames'[i - 1].intact
      /\ frames'[i].at + frames'[i].len <= At(buf)'
  BY DEF Heard
<1>5. ASSUME frames'[i] = frames[i], frames'[i - 1] = frames[i - 1], At(buf)' = At(buf)
      PROVE  FALSE
  BY <1>4, <1>5 DEF Heard
<1>6. ASSUME NEW k \in SentFrame, frames' = Append(frames, k), At(buf)' = At(buf)
      PROVE  FALSE
  <2>1. \A j \in 1 .. Len(frames) : frames'[j] = frames[j]
    BY <1>1, <1>6, AppendProperties
  <2> QED
    BY <1>1, <1>3, <1>4, <1>5, <1>6, <2>1
<1>7. CASE MasterAsks
  BY <1>6, <1>7, LineRequest
<1>8. CASE DeviceAnswers
  BY <1>5, <1>6, <1>8, LineAnswer
<1>9. CASE Stays
  BY <1>5, <1>9 DEF Stays, line
<1>10. CASE TakeReply \/ TakeRequest \/ TakeOther \/ DropByte
  <2>1. UNCHANGED <<bus, line>>
    BY <1>10 DEF TakeReply, TakeRequest, TakeOther, DropByte
  <2>2. /\ i > 1 /\ frames[i - 1].kind = "request" /\ frames[i - 1].intact
        /\ frames[i].at + frames[i].len <= At(buf)'
    BY <1>4, <2>1 DEF line
  <2>3. At(buf) < frames[i].at + frames[i].len
    BY <1>2, <2>2 DEF Heard
  <2>4. frames[i].req = frames[i - 1].req /\ frames[i].kind = "reply" /\ frames[i].intact
        /\ frames[i].req.fn = 3
    <3>1. frames[i].kind = "reply" /\ frames[i].intact /\ frames[i].req.fn = 3
      BY DEF Holds, Covers
    <3>2. i \in 2 .. Len(frames)
      BY <1>1, <2>2
    <3> QED
      BY <2>2, <3>1, <3>2 DEF LineInv, InLine
  <2>5. Answers3(frames, i)
    BY <2>2, <2>4 DEF Answers3, Asks
  <2>6. At(buf) <= frames[i].at
    <3>1. At(buf) <= frames[i].at \/ At(buf) >= frames[i].at + frames[i].len
      BY <1>1, <2>5 DEF ParserInv
    <3>2. frames[i].at + frames[i].len \in Int
      BY <1>2
    <3> QED
      BY <1>2, <2>3, <3>1, <3>2
  <2>7. At(buf) = frames[i].at
    <3> SUFFICES ASSUME At(buf) < frames[i].at PROVE FALSE
      BY <1>2, <2>6
    <3>1. PICK n \in 1 .. Len(buf) :
              /\ Takes(n)
              /\ n = 1 \/ \E j \in 1 .. Len(frames) : BeginsAs(frames[j], At(buf), n, buf)
      BY <1>10, TakesFrames
    <3>2. At(buf)' <= frames[i].at
      BY <1>1, <3>1, StopsAt
    <3>3. At(buf)' \in Int
      <4>1. At(buf)' = At(buf) + n /\ Len(buf) \in Nat
        BY <3>1, LenProperties DEF Takes, TypeOK
      <4> QED
        BY <1>2, <4>1
    <3> QED
      BY <1>2, <2>2, <3>2, <3>3
  <2>8. LogValue(frames[i].req)
    BY <1>1, <1>10, <2>5, <2>7, TakesReply
  <2>9. Covers(frames[i].req)
    BY DEF Holds
  <2>10. ~GapPassed(now)
    <3> SUFFICES ASSUME GapPassed(now) PROVE FALSE
      OBVIOUS
    <3> DEFINE r == frames[i].req
               e == [at |-> At(buf), dev |-> r.dev, value |-> Value(buf, r), time |-> now]
    <3>1. log' = Append(log, e)
      BY <2>8, <2>9 DEF LogValue
    <3> HIDE DEF e
    <3>2. Len(log) \in Nat /\ Len(Append(log, e)) = Len(log) + 1
      BY LenProperties DEF TypeOK
    <3>3. Len(log') # Len(log)
      BY <3>1, <3>2
    <3> QED
      BY <3>3
  <2> QED
    BY <2>10, TooSoon
<1>11. ASSUME NEW c \in Chunks, Read(c) PROVE Stays
  BY <1>11, ReadStays
<1>12. CASE Tick \/ ParseEnd \/ Stop \/ UNCHANGED vars
  BY <1>9, <1>12, OthersStay
<1> QED
  BY <1>7, <1>8, <1>9, <1>10, <1>11, <1>12 DEF Next, Line, Logger

\* Where the reads of a device that have one length are of one range, and the
\* parser waits for the reply to each, no undamaged reply of FC=3 that holds the
\* register and whose request was heard is passed over: whatever was damaged, lost
\* or left unanswered before, whatever is asked in between and however the reads
\* cut it, it is logged as it is parsed, unless a line was logged less than the
\* gap before.
THEOREM NoReplySkipped ==
    ASSUME Type = 3, Fits, Distinct, NoWholeFrame PROVE Spec => SkippedOnlyInGap
<1> DEFINE Skips == \A i \in DOMAIN frames :
               Holds(frames[i]) /\ ~Heard(i) /\ Heard(i)' /\ log' = log =>
                   log # <<>> /\ now - log[Len(log)].time < 2 * Gap
           IInv == RoomInv /\ GapInv /\ ValueInv /\ LineInv /\ ParserInv
<1>1. TypeOK /\ IInv /\ [Next]_vars => IInv'
  BY RoomStep, GapStep, ValueStep, LineStep
<1>2. TypeOK /\ IInv /\ [Next]_vars => Skips
  BY SkipStep
<1>3. Init => IInv
  BY RoomInit, GapInit, ValueInit, LineInit
<1>4. TypeOK /\ IInv /\ [Next]_vars => [Skips]_vars
  BY <1>2
<1> HIDE DEF Skips, IInv
<1>5. Spec => [][Skips]_vars
  BY <1>1, <1>3, <1>4, TypeCorrect, PTL DEF Spec
<1> QED
  BY <1>5 DEF SkippedOnlyInGap, Skips
=============================================================================
